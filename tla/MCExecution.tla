---------------------------- MODULE MCExecution ----------------------------
(* Whole programs, compiled and run: nested conditionals and loops at the   *)
(* top level and in functions, calls and recursion, structures and arrays.  *)
EXTENDS Execution

CONSTANTS x, y, z, foo, bar, puti, getc, getw   \* identifiers

G == INSTANCE Grammar

Nodes80 == 1..80   \* bound: the largest tree below has 80 nodes at most

X == G!ident(x)
Y == G!ident(y)
N(v) == G!number(v)

Plus(d, e) == G!binary("+", d, e)
Less(d, e) == G!binary("<", d, e)
Equal(d, e) == G!binary("TOK_EQ", d, e)
Let(v, e) == G!vardecl(G!identdecl(G!int, v), e)

Puti == G!function(G!identdecl(G!void, puti), <<G!identdecl(G!int, z)>>,
                    G!empty)

-----------------------------------------------------------------------------

Leaves == {G!assign(X, Plus(X, N(1))), G!empty,
           G!block(<<Let(x, Plus(Y, N(1))), G!assign(Y, X)>>),
           G!returnvoid}

Conditions == {Less(X, Y), Equal(X, G!assign(Y, N(1)))}

Over(S) ==
  UNION {{G!if(c, s), G!while(c, s), G!ifelse(c, s, G!assign(X, N(2)))} :
           c \in Conditions, s \in S}

Statements == Over(Leaves) \cup
  {G!block(<<s, G!assign(X, Plus(X, N(1)))>>) : s \in Over(Leaves)}

TopLevel == {<<Let(x, N(0)), Let(y, N(2)), s>> : s \in Over(Statements)}

Called ==
  {<<Puti, Let(y, N(1)),
     G!function(G!identdecl(G!void, foo), <<G!identdecl(G!int, x)>>,
                G!block(<<s, G!call(puti, <<X>>)>>)),
     G!call(foo, <<N(0)>>), G!call(foo, <<Plus(Y, N(1))>>)>> :
     s \in Over(Leaves)}

-----------------------------------------------------------------------------
(* Functions with values. *)

Recursion ==
  {<<G!function(G!identdecl(G!int, foo), <<G!identdecl(G!int, x)>>,
                G!block(<<G!if(Less(X, N(1)), s),
                          Let(y, G!call(foo, <<e>>)),
                          G!return(Plus(X, Y))>>)),
     Puti, Let(x, N(k)), G!call(puti, <<G!call(foo, <<X>>)>>)>> :
     s \in {G!return(N(0)), G!empty},
     e \in {G!binary("-", X, N(1)), X}, k \in 0..2}

(* Values that are used late, and are changed before. *)
Orders ==
  {<<Puti,
     G!function(G!identdecl(G!int, foo), <<G!identdecl(G!int, x),
                                           G!identdecl(G!int, y)>>,
                G!block(b)),
     Let(x, N(1)),
     G!function(G!identdecl(G!int, bar), <<>>,
                G!block(<<G!return(G!assign(X, Plus(X, N(1))))>>)),
     G!call(puti, <<G!call(foo, <<d, e>>)>>)>> :
     b \in {<<G!return(G!binary("-", X, Y))>>, <<G!assign(X, Y)>>},
     d \in {X, G!call(bar, <<>>), Plus(X, G!call(bar, <<>>)),
            G!assign(X, N(2)), Plus(G!assign(X, N(2)), G!call(bar, <<>>))},
     e \in {X, G!assign(X, N(3)), G!call(bar, <<>>)}}

-----------------------------------------------------------------------------
(* Objects. *)

Structure == G!structdef(x, <<G!fielddecl(G!int, y),
                              G!arrayfielddecl(G!typeid(x), z)>>)

Field(e) == G!select(e, y)
Rest(e, i) == G!index(G!select(e, z), i)

Objects ==
  {<<Structure,
     G!vardecl(G!identdecl(G!typeid(x), x), G!new(x)),
     Let(y, G!assign(Field(X), N(1))),
     G!assign(G!select(X, z), G!new_array(G!typeid(x), N(k))),
     G!assign(Rest(X, Field(X)), e),
     G!assign(Field(Rest(X, Y)), Plus(Field(X), Field(Rest(X, Y)))),
     G!assign(Field(X), Field(Rest(X, Y)))>> :
     k \in 1..2, e \in {X, G!new(x), G!null}}

StringPrograms ==
  {<<G!vardecl(G!identdecl(G!string, x), s),
     Let(y, G!unary("TOK_ORD", G!index(X, N(k)))),
     G!assign(G!index(G!assign(X, G!new_string(e)), N(1)),
              G!unary("TOK_CHR", Plus(Y, N(2)))),
     Let(z, G!unary("TOK_ORD", G!index(X, N(1))))>> :
     s \in {G!stringcon, G!null}, k \in 0..2,
     e \in {N(2), G!binary("-", Y, N(2))}}

-----------------------------------------------------------------------------
(* Calls of the library that read, allocate, or end the program. *)

Declare(type, name, params) ==
  G!function(G!identdecl(type, name), params, G!empty)

Getc == Declare(G!int, getc, <<>>)

LibraryPrograms ==
  {<<Puti, Getc, Declare(G!void, exit, <<G!identdecl(G!int, x)>>),
     Declare(G!void, assert_fail,
               <<G!identdecl(G!string, x), G!identdecl(G!string, y),
                 G!identdecl(G!int, z)>>),
     Let(x, G!call(getc, <<>>)), G!if(Less(X, N(1)), s), G!call(puti, <<X>>)>> :
     s \in {G!call(exit, <<X>>),
            G!call(assert_fail, <<G!stringcon, G!stringcon, N(1)>>)}}
  \cup
  {<<Getc, Declare(G!string, getw, <<>>),
     G!vardecl(G!identdecl(G!string, x), s),
     G!while(Less(G!call(getc, <<>>), N(1)), G!assign(X, G!call(getw, <<>>))),
     Let(y, G!unary("TOK_ORD", G!index(X, N(0))))>> :
     s \in {G!stringcon, G!null}}

ExecutionPrograms ==
  {G!AstOf(p) : p \in TopLevel \cup Called \cup Recursion \cup Orders
                        \cup Objects \cup StringPrograms
                        \cup LibraryPrograms}
=============================================================================
