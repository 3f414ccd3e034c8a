---------------------------- MODULE MCFunctions ----------------------------
(* Semantics on the programs of MCScoping and on programs about functions:  *)
(* prototypes, definitions, global variables and calls in every order.      *)
EXTENDS MCScoping

CONSTANT bar   \* an identifier

Nodes40 == 1..40   \* bound: the largest tree below has 40 nodes at most

Types == {G!identdecl(G!int, foo), G!identdecl(G!void, foo),
          G!arraydecl(G!int, foo), G!arraydecl(G!void, foo)}

Params == {<<>>, <<G!identdecl(G!int, x)>>, <<G!arraydecl(G!int, x)>>,
           <<G!identdecl(G!int, x), G!identdecl(G!int, x)>>,
           <<G!identdecl(G!void, x)>>}

Bodies == {G!empty, G!block(<<>>), G!block(<<G!return(G!intcon)>>),
           G!block(<<G!call(foo, <<G!ident(x)>>), G!returnvoid>>)}

Headers == {<<t, ps>> : t \in {G!identdecl(G!int, foo)}, ps \in Params}
             \cup {<<t, <<>>>> : t \in Types}

Functions == {G!function(h[1], h[2], b) : h \in Headers, b \in Bodies}

Variables == {G!vardecl(G!identdecl(t, foo), G!intcon) : t \in {G!int, G!void}}

Uses == {G!call(foo, <<>>), G!call(foo, <<G!intcon>>),
         G!function(G!identdecl(G!int, bar), <<>>,
                    G!block(<<G!return(G!call(foo, <<G!intcon>>))>>))}

Parts == Functions \cup Variables \cup Uses

FunctionPrograms ==
  {G!AstOf(<<p, u, q>>) : p \in Parts, u \in Uses, q \in Functions}
    \cup {G!AstOf(<<p, q, u>>) : p \in Functions \cup Variables,
                                 q \in Functions \cup Variables,
                                 u \in {G!call(foo, <<G!intcon>>)}}

(* A function that takes the place of a variable, whose value new x() has  *)
(* the shape of the parameter list (x y).                                  *)
RedefinedVariables ==
  {G!AstOf(<<G!structdef(x, <<G!fielddecl(G!int, y)>>),
             G!vardecl(G!identdecl(G!typeid(x), foo), G!new(x)), u,
             G!function(G!identdecl(G!typeid(x), foo), ps,
                        G!block(<<G!return(G!null)>>)), v>>) :
     u \in {G!empty, G!call(foo, <<>>)},
     v \in {G!call(foo, <<>>), G!call(foo, <<G!null>>)},
     ps \in {<<>>, <<G!identdecl(G!typeid(x), y)>>}}

NamePrograms == ScopingPrograms \cup FunctionPrograms \cup RedefinedVariables
=============================================================================
