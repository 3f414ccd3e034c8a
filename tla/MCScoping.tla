----------------------------- MODULE MCScoping -----------------------------
(* Semantics on programs about names and blocks: declarations, uses and     *)
(* shadowing in blocks, conditionals and function bodies.                   *)
EXTENDS SemanticsProperties

CONSTANTS x, y, foo   \* identifiers

G == INSTANCE Grammar

decl(n, e) == G!vardecl(G!identdecl(G!int, n), e)

Simple == {decl(x, G!intcon), decl(y, G!ident(x)), G!ident(x), G!ident(y)}

Nested(S) ==
  {G!block(<<s, t>>) : s \in S, t \in S}
    \cup {G!if(G!true, s) : s \in S}
    \cup {G!while(G!true, s) : s \in S}

Statements == Simple \cup Nested(Simple)

Bodied ==
  {G!function(G!identdecl(G!void, foo), ps, G!block(<<s>>)) :
     ps \in {<<>>, <<G!identdecl(G!int, x)>>,
             <<G!identdecl(G!int, x), G!identdecl(G!int, x)>>},
     s \in Statements}

(* Structures and fields have tables of their own. *)
Namespaces ==
  {G!AstOf(<<G!structdef(x, <<G!fielddecl(G!int, y), G!fielddecl(t, foo)>>),
             G!vardecl(G!identdecl(G!typeid(x), v), G!new(x)),
             G!block(<<decl(y, G!select(G!ident(x), w)), s>>)>>) :
     t \in {G!int, G!typeid(x)}, v \in {x, y}, w \in {x, y, foo}, s \in Simple}

ScopingPrograms ==
  {G!AstOf(<<p, q>>) : p \in Statements, q \in Statements \cup Bodied}
    \cup {G!AstOf(<<p, G!block(<<q, r>>)>>) :
            p \in Simple, q \in Simple, r \in Nested(Simple)}
    \cup Namespaces
=============================================================================
