------------------------------ MODULE MCTypes ------------------------------
(* Semantics on expressions of depth two over operands of every type, in    *)
(* the body of a function, and on structures.                               *)
EXTENDS SemanticsProperties

CONSTANTS
  foo, bar,                                              \* functions
  vint, vchar, vbool, vstring, vstruct, vints, vstructs, \* variables
  Pair, Quad,                                            \* structures
  left, rest                                             \* fields

(* The three kinds of names have tables of their own, so the configuration  *)
(* lets structures and fields share the names of variables.                 *)

G == INSTANCE Grammar

Nodes60 == 1..60   \* bound: the largest tree below has 60 nodes at most

Structure ==
  G!structdef(Pair, <<G!fielddecl(G!int, left),
                      G!arrayfielddecl(G!typeid(Pair), rest)>>)

Params == <<G!identdecl(G!int, vint), G!identdecl(G!char, vchar),
            G!identdecl(G!bool, vbool), G!identdecl(G!string, vstring),
            G!identdecl(G!typeid(Pair), vstruct), G!arraydecl(G!int, vints),
            G!arraydecl(G!typeid(Pair), vstructs)>>

Callee ==
  G!function(G!identdecl(G!int, bar), <<G!identdecl(G!int, vint)>>, G!empty)

Atoms == {G!ident(v) : v \in {vint, vchar, vbool, vstring, vstruct, vints,
                              vstructs, bar}}
           \cup {G!intcon, G!null}

ExprsOver(S) ==
  {G!unary(op, e) : op \in {"TOK_NEG", "!", "TOK_ORD", "TOK_CHR"}, e \in S}
    \cup {G!binary(op, d, e) :
            op \in {"+", "TOK_EQ", "<", "=", "TOK_INDEX"}, d \in S, e \in Atoms}
    \cup {G!select(e, v) : e \in S, v \in {left, rest, vchar}}
    \cup {G!call(bar, <<e>>) : e \in S}
    \cup {G!new_string(e) : e \in S}
    \cup {G!new_array(t, e) : t \in {G!int, G!void, G!typeid(Pair)}, e \in S}
    \cup {G!new(Pair), G!new(Quad), G!call(bar, <<>>), G!call(foo, <<>>)}

(* Expressions of depth two: an operation on a valid one of depth one. *)
Inner == {G!binary("TOK_INDEX", G!ident(vstructs), G!ident(vint)),
          G!binary("TOK_INDEX", G!ident(vstring), G!ident(vint)),
          G!select(G!ident(vstruct), rest), G!select(G!ident(vstruct), left),
          G!call(bar, <<G!ident(vint)>>), G!new(Pair),
          G!new_array(G!void, G!ident(vint)),
          G!new_array(G!typeid(Pair), G!ident(vint)),
          G!binary("=", G!ident(vstruct), G!null),
          G!select(G!ident(vstructs), left)}

Exprs == Atoms \cup ExprsOver(Atoms \cup Inner)

StatementsOf(e) == {e, G!if(e, G!empty), G!return(e)}

InFunction(type, st) ==
  G!AstOf(<<Structure, Callee,
            G!function(G!identdecl(type, foo), Params, G!block(<<st>>))>>)

Structures ==
  {G!AstOf(<<G!structdef(Pair, <<d, e>>), G!structdef(t, <<d>>),
             G!vardecl(G!identdecl(G!typeid(Pair), vstruct), G!new(Pair)),
             G!select(G!ident(vstruct), left)>>) :
     d \in {G!fielddecl(G!int, left), G!arrayfielddecl(G!void, left)},
     e \in {G!fielddecl(G!int, rest), G!fielddecl(G!void, rest),
            G!fielddecl(G!int, left)},
     t \in {Pair, Quad}}

Outside ==
  {G!AstOf(<<t>>) : t \in {G!return(G!intcon), G!returnvoid,
                           G!vardecl(G!identdecl(G!void, vint), G!intcon),
                           G!vardecl(G!arraydecl(G!void, vint), G!intcon)}}

TypePrograms ==
  {InFunction(G!int, e) : e \in Exprs}
    \cup {InFunction(G!int, G!vardecl(d, e)) :
            d \in {G!identdecl(G!int, left), G!arraydecl(G!typeid(Pair), left)},
            e \in Atoms \cup Inner}
    \cup {InFunction(t, st) :
            t \in {G!void, G!string, G!int},
            st \in {G!returnvoid} \cup
                   UNION {StatementsOf(e) : e \in Atoms \cup Inner}}
    \cup Structures \cup Outside
=============================================================================
