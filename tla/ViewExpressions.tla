-------------------------- MODULE ViewExpressions --------------------------
(***************************************************************************)
(* The expressions of a view (overcrow-widget-format, expr.rs): the parser *)
(* by recursive descent, and the canonical text that a bundle holds.       *)
(*                                                                         *)
(* A text is a sequence of tokens: the bytes of names, numbers, strings    *)
(* and operators, and so the longest-operator rule of `eat`, are left out, *)
(* with the length of a text. The errors are one, NoParse.                 *)
(***************************************************************************)
EXTENDS Naturals, Sequences
LOCAL INSTANCE SequencesExt
LOCAL INSTANCE FiniteSetsExt
LOCAL INSTANCE Functions

CONSTANTS
    Names, Numbers,    \* tokens: names that are not reserved, and numbers
    Levels,            \* the binary operators under `&&`, the loosest level first
    MaxTreeDepth,      \* MAX_EXPRESSION_DEPTH
    MaxItems,          \* MAX_CALL_ARGUMENTS
    MaxTokens          \* bound: tokens typed

VARIABLE typed         \* the text typed so far
exprVars == typed

Signs == {"!", "-"}
Marks == {"(", ")", "[", "]", "{", "}", ".", "?.", "?", ":", ","}
Node(kind, op, parts) == [kind |-> kind, op |-> op, parts |-> parts]
Leaf(token) == Node(IF token \in Names THEN "name" ELSE "number", token, <<>>)
NoTree == Node("none", "none", <<>>)

\* An entry of an object is no level of the tree.
RECURSIVE DepthOf(_)
DepthOf(t) ==
    LET below == Max({0} \cup {DepthOf(t.parts[i]) : i \in DOMAIN t.parts}) IN
    IF t.kind = "entry" THEN below ELSE below + 1

-----------------------------------------------------------------------------
(* The parser: what was read and the place after it, or NoParse. `d` is    *)
(* how deep the parser is in itself.                                       *)
\* Mutant of ParserDepth: an object costs two levels of the parser.
ParserDepthShort == 2 * MaxTreeDepth + 1
ParserDepth == 3 * MaxTreeDepth + 1

Parsed(tree, at) == [tree |-> tree, at |-> at]
NoParse == Parsed(NoTree, 0)
Token(s, i) == IF i \in 1 .. Len(s) THEN s[i] ELSE "end"
Then(p, next(_)) == IF p.at = 0 THEN p ELSE next(p)
Entered(d, inside(_)) == IF d = ParserDepth THEN NoParse ELSE inside(d + 1)
ClosedBy(s, p, token, tree) == IF Token(s, p.at) = token THEN Parsed(tree, p.at + 1) ELSE NoParse

\* `||`, `&&` and `??` take their operands at one level, and so on down.
AllLevels == <<{"||"}, {"&&"}, {"??"}>> \o Levels
Coalesce == 3
Equality == 4
OperandLevel(k) == IF AllLevels[k] = {"&&"} THEN Equality ELSE k + 1

RECURSIVE Expression(_, _, _), Level(_, _, _, _), Chain(_, _, _, _), Unary(_, _, _),
          Trailers(_, _, _), Items(_, _, _, _, _), EntriesOf(_, _, _, _)

Level(s, i, d, k) ==
    IF k > Len(AllLevels) THEN Unary(s, i, d)
    ELSE Then(Level(s, i, d, OperandLevel(k)), LAMBDA left : Chain(s, left, d, k))

Chain(s, left, d, k) ==
    IF Token(s, left.at) \notin AllLevels[k] THEN left
    ELSE Then(Level(s, left.at + 1, d, OperandLevel(k)), LAMBDA right :
           LET both == Node("binary", Token(s, left.at), <<left.tree, right.tree>>) IN
           Chain(s, Parsed(both, right.at), d, k))

\* `??` does not mix with the other two.
Apart(s, p, others) == IF Token(s, p.at) \in others THEN NoParse ELSE p
\* Mutant of ShortCircuit: what follows `??` is not looked at.
ShortCircuitMixed(s, i, d) ==
    Then(Level(s, i, d, Equality), LAMBDA first :
      Then(Chain(s, first, d, Coalesce), LAMBDA left :
        Then(Chain(s, left, d, 2), LAMBDA p : Chain(s, p, d, 1))))
ShortCircuit(s, i, d) ==
    Then(Level(s, i, d, Equality), LAMBDA first :
      IF Token(s, first.at) = "??"
      THEN Then(Chain(s, first, d, Coalesce), LAMBDA p : Apart(s, p, {"||", "&&"}))
      ELSE Then(Chain(s, first, d, 2), LAMBDA left :
             Then(Chain(s, left, d, 1), LAMBDA p : Apart(s, p, {"??"}))))

Expression(s, i, d) ==
    Entered(d, LAMBDA e :
      Then(ShortCircuit(s, i, e), LAMBDA test :
        IF Token(s, test.at) # "?" THEN test
        ELSE Then(Expression(s, test.at + 1, e), LAMBDA then :
               IF Token(s, then.at) # ":" THEN NoParse
               ELSE Then(Expression(s, then.at + 1, e), LAMBDA otherwise :
                      Parsed(Node("conditional", "?", <<test.tree, then.tree, otherwise.tree>>),
                             otherwise.at)))))

Items(s, i, d, close, items) ==
    IF items = <<>> /\ Token(s, i) = close THEN Parsed(Node("list", "", items), i + 1)
    ELSE IF Len(items) = MaxItems THEN NoParse
    ELSE Then(Expression(s, i, d), LAMBDA p :
           LET longer == Append(items, p.tree) IN
           IF Token(s, p.at) = "," THEN Items(s, p.at + 1, d, close, longer)
           ELSE ClosedBy(s, p, close, Node("list", "", longer)))

EntriesOf(s, i, d, entries) ==
    IF entries = <<>> /\ Token(s, i) = "}" THEN Parsed(Node("object", "", entries), i + 1)
    ELSE IF \/ Len(entries) = MaxItems
            \/ Token(s, i) \notin Names \ {entries[j].op : j \in DOMAIN entries}
            \/ Token(s, i + 1) # ":"
         THEN NoParse
    ELSE Then(Expression(s, i + 2, d), LAMBDA p :
           LET longer == Append(entries, Node("entry", s[i], <<p.tree>>)) IN
           IF Token(s, p.at) = "," THEN EntriesOf(s, p.at + 1, d, longer)
           ELSE ClosedBy(s, p, "}", Node("object", "", longer)))

Primary(s, i, d) ==
    CASE Token(s, i) = "(" -> Then(Expression(s, i + 1, d), LAMBDA p : ClosedBy(s, p, ")", p.tree))
      [] Token(s, i) = "[" -> Entered(d, LAMBDA e :
                                Then(Items(s, i + 1, e, "]", <<>>), LAMBDA p :
                                  Parsed(Node("array", "", p.tree.parts), p.at)))
      [] Token(s, i) = "{" -> Entered(d, LAMBDA e : EntriesOf(s, i + 1, e, <<>>))
      [] Token(s, i) \in Names \cup Numbers -> Parsed(Leaf(s[i]), i + 1)
      [] OTHER -> NoParse

\* Members and indexes, each of them optional or not; nothing but a name is called.
Trailers(s, p, d) ==
    LET token == Token(s, p.at)
        after == Token(s, p.at + 1)
        index(from, kind) ==
            Entered(d, LAMBDA e :
              Then(Expression(s, from, e), LAMBDA q :
                Then(ClosedBy(s, q, "]", Node(kind, "", <<p.tree, q.tree>>)), LAMBDA r :
                  Trailers(s, r, d)))) IN
    IF token = "[" THEN index(p.at + 1, "index")
    ELSE IF token = "?." /\ after = "[" THEN index(p.at + 2, "index?")
    ELSE IF token \in {".", "?."} /\ after \in Names
    THEN Trailers(s, Parsed(Node(IF token = "." THEN "member" ELSE "member?", after, <<p.tree>>),
                            p.at + 2), d)
    ELSE IF token \in {".", "?.", "("} THEN NoParse ELSE p

Postfix(s, i, d) ==
    Then(Primary(s, i, d), LAMBDA p :
      IF p.tree.kind = "name" /\ Token(s, p.at) = "("
      THEN Then(Items(s, p.at + 1, d, ")", <<>>), LAMBDA args :
             Trailers(s, Parsed(Node("call", p.tree.op, args.tree.parts), args.at), d))
      ELSE Trailers(s, p, d))

Unary(s, i, d) ==
    IF Token(s, i) \notin Signs THEN Postfix(s, i, d)
    ELSE Entered(d, LAMBDA e :
           Then(Unary(s, i + 1, e), LAMBDA p : Parsed(Node("unary", s[i], <<p.tree>>), p.at)))

Parse(s) ==
    LET p == Expression(s, 1, 0) IN
    IF p.at = Len(s) + 1 /\ DepthOf(p.tree) <= MaxTreeDepth THEN p.tree ELSE NoTree

-----------------------------------------------------------------------------
(* The canonical text: every operator in parentheses.                      *)
RECURSIVE ToJs(_)
CommaList(parts) ==
    FoldLeft(LAMBDA out, t : out \o (IF out = <<>> THEN <<>> ELSE <<",">>) \o ToJs(t), <<>>, parts)

ToJs(t) ==
    LET part(i) == ToJs(t.parts[i]) IN
    CASE t.kind \in {"name", "number"} -> <<t.op>>
      [] t.kind \in {"member", "member?"} ->
           (IF t.parts[1].kind = "number" THEN <<"(">> \o part(1) \o <<")">> ELSE part(1))
           \o <<IF t.kind = "member" THEN "." ELSE "?.", t.op>>
      [] t.kind = "index" -> part(1) \o <<"[">> \o part(2) \o <<"]">>
      [] t.kind = "index?" -> part(1) \o <<"?.", "[">> \o part(2) \o <<"]">>
      [] t.kind = "call" -> <<t.op, "(">> \o CommaList(t.parts) \o <<")">>
      [] t.kind = "unary" -> <<"(", t.op>> \o part(1) \o <<")">>
      [] t.kind = "binary" -> <<"(">> \o part(1) \o <<t.op>> \o part(2) \o <<")">>
      [] t.kind = "conditional" ->
           <<"(">> \o part(1) \o <<"?">> \o part(2) \o <<":">> \o part(3) \o <<")">>
      [] t.kind = "array" -> <<"[">> \o CommaList(t.parts) \o <<"]">>
      [] t.kind = "object" -> <<"(", "{">> \o CommaList(t.parts) \o <<"}", ")">>
      [] t.kind = "entry" -> <<t.op, ":">> \o part(1)

-----------------------------------------------------------------------------
(* What JavaScript reads in a text: the trees its grammar derives.         *)
RECURSIVE JsExpression(_), JsLevel(_, _), JsUnary(_), JsPostfix(_), JsItems(_), JsEntries(_)
From(s, i) == SubSeq(s, i, Len(s))
Before(s, i) == SubSeq(s, 1, i - 1)
Places(s, tokens) == {i \in DOMAIN s : s[i] \in tokens}

JsExpression(s) ==
    JsLevel(s, 1) \cup JsLevel(s, Coalesce)
    \cup UNION {UNION {{Node("conditional", "?", <<t, x, y>>) :
                           t \in JsLevel(Before(s, i), 1) \cup JsLevel(Before(s, i), Coalesce),
                           x \in JsExpression(SubSeq(s, i + 1, j - 1)),
                           y \in JsExpression(From(s, j + 1))} :
                       j \in Places(s, {":"})} : i \in Places(s, {"?"})}

JsLevel(s, k) ==
    IF s = <<>> THEN {}
    ELSE IF k > Len(AllLevels) THEN JsUnary(s)
    ELSE JsLevel(s, OperandLevel(k))
         \cup UNION {{Node("binary", s[i], <<l, r>>) :
                        l \in JsLevel(Before(s, i), k),
                        r \in JsLevel(From(s, i + 1), OperandLevel(k))} :
                     i \in Places(s, AllLevels[k])}

JsUnary(s) ==
    JsPostfix(s)
    \cup IF s # <<>> /\ s[1] \in Signs
         THEN {Node("unary", s[1], <<t>>) : t \in JsUnary(Tail(s))} ELSE {}

JsItems(s) ==
    {<<t>> : t \in JsExpression(s)}
    \cup UNION {{<<t>> \o rest : t \in JsExpression(Before(s, i)), rest \in JsItems(From(s, i + 1))} :
                i \in Places(s, {","})}

JsEntries(s) ==
    IF Len(s) < 3 \/ s[1] \notin Names \/ s[2] # ":" THEN {}
    ELSE {<<Node("entry", s[1], <<t>>)>> : t \in JsExpression(From(s, 3))}
         \cup UNION {{<<Node("entry", s[1], <<t>>)>> \o rest :
                        t \in JsExpression(SubSeq(s, 3, i - 1)), rest \in JsEntries(From(s, i + 1))} :
                     i \in Places(s, {","})}

JsPostfix(s) ==
    LET n == Len(s)
        inner(i) == SubSeq(s, i + 1, n - 1)
        lists(i) == IF i = n - 1 THEN {<<>>} ELSE JsItems(inner(i)) IN
    IF n = 0 THEN {}
    ELSE IF n = 1 THEN IF s[1] \in Names \cup Numbers THEN {Leaf(s[1])} ELSE {}
    ELSE CASE s[n] \in Names /\ s[n - 1] \in {".", "?."} ->
                {Node(IF s[n - 1] = "." THEN "member" ELSE "member?", s[n], <<t>>) :
                    t \in JsPostfix(SubSeq(s, 1, n - 2))}
           [] s[n] = "]" ->
                UNION {IF i = 1 THEN {Node("array", "", items) : items \in lists(1)}
                       ELSE IF s[i - 1] = "?."
                       THEN {Node("index?", "", <<t, x>>) :
                                t \in JsPostfix(SubSeq(s, 1, i - 2)), x \in JsExpression(inner(i))}
                       ELSE {Node("index", "", <<t, x>>) :
                                t \in JsPostfix(Before(s, i)), x \in JsExpression(inner(i))} :
                       i \in Places(s, {"["})}
           [] s[n] = ")" ->
                UNION {IF i = 1 THEN JsExpression(inner(1))
                       ELSE {Node("call", f.op, items) :
                                f \in {t \in JsPostfix(Before(s, i)) : t.kind = "name"},
                                items \in lists(i)} :
                       i \in Places(s, {"("})}
           [] s[n] = "}" /\ s[1] = "{" ->
                {Node("object", "", entries) :
                    entries \in IF n = 2 THEN {<<>>} ELSE JsEntries(inner(1))}
           [] OTHER -> {}

\* The bounds of the language, and what it refuses of JavaScript.
RECURSIVE Fits(_)
Fits(t) ==
    /\ t.kind \in {"call", "array", "object"} => Len(t.parts) <= MaxItems
    /\ t.kind = "object" => IsInjective([i \in DOMAIN t.parts |-> t.parts[i].op])
    /\ \A i \in DOMAIN t.parts : Fits(t.parts[i])
Derived(s) == {t \in JsExpression(s) : Fits(t) /\ DepthOf(t) <= MaxTreeDepth}

-----------------------------------------------------------------------------
(* Texts typed token by token, and trees of three levels.                  *)
Small ==
    {Leaf(token) : token \in Names \cup Numbers}
    \cup {Node("array", "", <<>>), Node("object", "", <<>>)}
BinaryOperators == UNION Range(AllLevels)
Over(inner) ==
    LET side == CHOOSE t \in Small : t.kind = "name"
        key == CHOOSE name \in Names : TRUE IN
    UNION {{Node("unary", op, <<t>>) : op \in Signs}
           \cup {Node("binary", op, pair) :
                    op \in BinaryOperators, pair \in {<<t, side>>, <<side, t>>}}
           \cup {Node("conditional", "?", three) :
                    three \in {<<t, side, side>>, <<side, t, side>>, <<side, side, t>>}}
           \cup {Node(kind, key, <<t>>) : kind \in {"member", "member?", "call"}}
           \cup {Node(kind, "", pair) :
                    kind \in {"index", "index?"}, pair \in {<<t, side>>, <<side, t>>}}
           \cup {Node("array", "", items) : items \in {<<t>>, <<side, t>>}}
           \cup {Node("object", "", <<Node("entry", key, <<t>>)>>)} : t \in inner}
Trees == Small \cup Over(Small) \cup Over(Over(Small))

ExprInit ==
    \/ typed = [text |-> <<>>, tree |-> NoTree]
    \/ \E t \in Trees : typed = [text |-> <<>>, tree |-> t]

\* The token that may come next, wherever it leads.
OperandEnds(s) == s # <<>> /\ Last(s) \in Names \cup Numbers \cup {")", "]", "}"}
Unclosed(s) == Cardinality(Places(s, {"(", "[", "{"})) > Cardinality(Places(s, {")", "]", "}"}))
NextTokens(s) ==
    IF OperandEnds(s)
    THEN BinaryOperators \cup {".", "?.", "[", "(", "?"}
         \cup (IF Unclosed(s) THEN {")", "]", "}", ","} ELSE {})
         \cup (IF Places(s, {"?", "{"}) # {} THEN {":"} ELSE {})
    ELSE Names \cup Numbers \cup Signs \cup {"(", "[", "{"}
         \cup (IF s # <<>> /\ Last(s) \in {"(", "[", "{"} THEN {")", "]", "}"} ELSE {})

TypeToken ==
    /\ typed.tree = NoTree /\ Len(typed.text) < MaxTokens
    /\ \E token \in NextTokens(typed.text) : typed' = [typed EXCEPT !.text = Append(@, token)]

ExprNext == TypeToken
ExprSpec == ExprInit /\ [][ExprNext]_exprVars

ExprTypeOK ==
    /\ typed.text \in Seq(Names \cup Numbers \cup Signs \cup BinaryOperators \cup Marks)
    /\ Len(typed.text) <= MaxTokens
    /\ typed.tree \in Trees \cup {NoTree}
-----------------------------------------------------------------------------
(* A text is read as the one tree JavaScript reads in it, within the       *)
(* bounds, and refused when JavaScript derives none (expr.rs:11-15).       *)
ReadsAsJavaScript ==
    typed.text # <<>> =>
        LET tree == Parse(typed.text) IN
        Derived(typed.text) = (IF tree = NoTree THEN {} ELSE {tree})

(* The canonical text of every tree the parser may give parses again to    *)
(* that tree, at the depth bound too (expr.rs:555-558).                    *)
PrintsBack == typed.tree # NoTree => Parse(ToJs(typed.tree)) = typed.tree
=============================================================================
