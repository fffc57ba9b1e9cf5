--------------------------- MODULE DumkaNotation ---------------------------
(***************************************************************************)
(* The notation in which a Dum-Ka rhythm is written (cseq-rhythm dumka     *)
(* dsl.rs): notes x, rests ., holds _, groups [..] that share their time   *)
(* out by weight @n, repeats *n and Euclidean groups E(k,n,r).             *)
(*                                                                         *)
(* A text is [lexemes, chars]: what the lexer finds in it and how long it  *)
(* is, with the blanks, bars and comments between.  A lexeme is a tuple    *)
(* named by its character; a number is <<"int", n>>, any name but E is x,  *)
(* and <<"?">> is a character or a number that the lexer refuses.          *)
(***************************************************************************)
EXTENDS Integers, Sequences, FiniteSets, SequencesExt

CONSTANTS MaxPatternLen, MaxNodeWeight, MaxRepeat, MaxGroupDepth, MaxPatternNodes, MaxEuclidSlots

Masks == INSTANCE DumkaGrid

Refused == [ok |-> FALSE]
End == <<"end">>
TokenAt(tokens, i) == IF i \in DOMAIN tokens THEN tokens[i] ELSE End
Legible(text) == text.chars =< MaxPatternLen /\ <<"?">> \notin ToSet(text.lexemes)  \* lex

----------------------------------------------------------------------------
(* The parser.                                                             *)

RECURSIVE NodeSize(_)
NodeSize(node) == 1 + FoldLeft(LAMBDA n, kid : n + NodeSize(kid), 0, node.kids)
Size(nodes) == FoldLeft(LAMBDA n, node : n + NodeSize(node), 0, nodes)

Leaf(kind) == [kind |-> kind, weight |-> 1, kids |-> <<>>]

\* parse_euclid: E ( k , n [, r] ), the mask turned to the left by r.
EuclidAt(tokens, at, count) ==
  LET Is(i, mark) == TokenAt(tokens, at + i) = <<mark>>
      Number(i) == TokenAt(tokens, at + i)[1] = "int"
      Value(i) == TokenAt(tokens, at + i)[2]
      turned == Is(5, ",")
      by == IF turned THEN Value(6) ELSE 0
      Sounds(i) == Masks!Bjorklund(Value(2), Value(4))[((i - 1 + by) % Value(4)) + 1]
  IN IF /\ Is(1, "(") /\ Number(2) /\ Is(3, ",") /\ Number(4)
        /\ IF turned THEN Number(6) /\ Is(7, ")") ELSE Is(5, ")")
        /\ Value(4) \in 1..MaxEuclidSlots
        /\ Value(2) =< Value(4)
        /\ count + Value(4) =< MaxPatternNodes
     THEN [ok |-> TRUE, at |-> at + (IF turned THEN 8 ELSE 6), count |-> count + Value(4), kind |-> "group",
           kids |-> [i \in 1..Value(4) |-> Leaf(IF Sounds(i) THEN "onset" ELSE "rest")]]
     ELSE Refused

\* The suffixes of a node: at most one weight and one repeat, in any order.
RECURSIVE SuffixesAt(_, _, _, _)
SuffixesAt(tokens, at, weight, repeat) ==
  LET value == TokenAt(tokens, at + 1)
      Takes(taken, max) == taken = <<>> /\ value[1] = "int" /\ value[2] \in 1..max
      Or1(taken) == IF taken = <<>> THEN 1 ELSE taken[1]
  IN CASE TokenAt(tokens, at) = <<"@">> /\ Takes(weight, MaxNodeWeight) -> SuffixesAt(tokens, at + 2, <<value[2]>>, repeat)
       [] TokenAt(tokens, at) = <<"*">> /\ Takes(repeat, MaxRepeat) -> SuffixesAt(tokens, at + 2, weight, <<value[2]>>)
       [] TokenAt(tokens, at) \notin {<<"@">>, <<"*">>} -> [ok |-> TRUE, at |-> at, weight |-> Or1(weight), repeat |-> Or1(repeat)]
       [] OTHER -> Refused

\* parse_node: the copies of one node; its children were counted when they
\* were read, the copies' whole trees are counted here.
RECURSIVE NodesAt(_, _, _, _), Siblings(_, _, _, _, _)
NodesAt(tokens, at, depth, count) ==
  LET One(kind) == [ok |-> TRUE, at |-> at + 1, count |-> count, kind |-> kind, kids |-> <<>>]
      Grouped(inner) ==
        IF ~inner.ok \/ inner.nodes = <<>> THEN Refused
        ELSE [ok |-> TRUE, at |-> inner.at, count |-> inner.count, kind |-> "group", kids |-> inner.nodes]
      called == TokenAt(tokens, at + 1) = <<"(">>
      head == CASE tokens[at] = <<"[">> /\ depth < MaxGroupDepth -> Grouped(Siblings(tokens, at + 1, depth + 1, count, <<>>))
                [] tokens[at] = <<".">> -> One("rest")
                [] tokens[at] = <<"_">> -> One("hold")
                [] tokens[at] = <<"E">> /\ called -> EuclidAt(tokens, at, count)
                [] tokens[at] \in {<<"E">>, <<"x">>} /\ ~called -> One("onset")
                [] OTHER -> Refused
      Copied(node, tail, total) ==
        IF total > MaxPatternNodes THEN Refused
        ELSE [ok |-> TRUE, at |-> tail.at, count |-> total, nodes |-> [i \in 1..tail.repeat |-> node]]
      Made(node, tail) == Copied(node, tail, head.count + 1 + NodeSize(node) * (tail.repeat - 1))
      Ended(tail) == IF ~tail.ok THEN Refused
                     ELSE Made([kind |-> head.kind, weight |-> tail.weight, kids |-> head.kids], tail)
  IN IF ~head.ok THEN Refused ELSE Ended(SuffixesAt(tokens, head.at, <<>>, <<>>))

\* parse_siblings: to the end of the text, or of the group (depth > 0).
Siblings(tokens, at, depth, count, before) ==
  LET Next1(found) == IF ~found.ok THEN Refused
                      ELSE Siblings(tokens, found.at, depth, found.count, before \o found.nodes)
      All(after) == [ok |-> TRUE, at |-> after, count |-> count, nodes |-> before]
  IN CASE TokenAt(tokens, at) = End -> IF depth = 0 THEN All(at) ELSE Refused
       [] TokenAt(tokens, at) = <<"]">> -> IF depth > 0 THEN All(at + 1) ELSE Refused
       [] OTHER -> Next1(NodesAt(tokens, at, depth, count))

\* parse: <<[nodes, count]>>, or <<>> where there is a diagnostic.
Parse(text) ==
  LET Kept(all) == IF ~all.ok \/ all.nodes = <<>> THEN <<>> ELSE <<[nodes |-> all.nodes, count |-> all.count]>>
  IN IF Legible(text) THEN Kept(Siblings(text.lexemes, 1, 0, 0, <<>>)) ELSE <<>>

----------------------------------------------------------------------------
(* The printer.                                                            *)

Digits(n) == Cardinality({p \in {1, 10, 100} : p =< n})
Joined(texts, blanks) ==
  [lexemes |-> FlattenSeq([i \in DOMAIN texts |-> texts[i].lexemes]),
   chars |-> FoldLeft(LAMBDA n, t : n + t.chars, blanks, texts)]
Of1(mark) == [lexemes |-> <<<<mark>>>>, chars |-> 1]
Of2(n) == [lexemes |-> <<<<"int", n>>>>, chars |-> Digits(n)]

\* print: single blanks, weights that are not 1, nothing abbreviated.
RECURSIVE Printed(_)
Printed(nodes) ==
  LET Mark(n) == CASE n.kind = "group" -> Joined(<<Of1("["), Printed(n.kids), Of1("]")>>, 0)
                   [] n.kind = "onset" -> Of1("x")
                   [] n.kind = "rest" -> Of1(".")
                   [] n.kind = "hold" -> Of1("_")
      One(n) == IF n.weight = 1 THEN Mark(n) ELSE Joined(<<Mark(n), Of1("@"), Of2(n.weight)>>, 0)
  IN Joined([i \in DOMAIN nodes |-> One(nodes[i])], Len(nodes) - 1)

\* How deep the groups of a tree are.
RECURSIVE Nested(_)
Nested(nodes) ==
  FoldLeft(LAMBDA deepest, d : IF d > deepest THEN d ELSE deepest, 0,
           [i \in DOMAIN nodes |-> IF nodes[i].kind = "group" THEN 1 + Nested(nodes[i].kids) ELSE 0])

----------------------------------------------------------------------------
(* Property.                                                               *)

\* What is read is what is written: the nodes counted against the limit while
\* the text is read are the nodes of the expanded tree, and the tree printed
\* and read again is the same tree, unless the limits on the length of a text
\* or on the depth of groups (which an E(..) is not held to) refuse it.
NotationKept(text) ==
  \A t \in ToSet(Parse(text)) :
    /\ t.count = Size(t.nodes)
    /\ \A p \in {Printed(t.nodes)} :
         p.chars =< MaxPatternLen /\ Nested(t.nodes) =< MaxGroupDepth => Parse(p) = <<t>>
=============================================================================
