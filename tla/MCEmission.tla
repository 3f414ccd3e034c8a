----------------------------- MODULE MCEmission -----------------------------
(* The emitter on the programs of MCTypes that are accepted, and on         *)
(* statements and declarations nested in every way.                         *)
EXTENDS MCTypes, EmitProperties

Nodes90 == 1..90   \* bound: the largest tree below has 90 nodes at most

(* Statements about vint and vbool, nested two deep. *)
Leaves == {G!assign(G!ident(vint), G!binary("+", G!ident(vint), G!intcon)),
           G!vardecl(G!identdecl(G!int, vint), G!intcon), G!empty,
           G!block(<<G!vardecl(G!identdecl(G!bool, vbool), G!true),
                     G!vardecl(G!identdecl(G!bool, vint), G!ident(vbool))>>)}

Test == G!binary("<", G!ident(vint), G!intcon)

Over(S) ==
  UNION {{G!if(Test, s), G!while(Test, s), G!ifelse(Test, s, G!returnvoid)} :
           s \in S}

(* A statement in a function and at the top level, behind another. *)
InBoth(s, t) ==
  {<<G!vardecl(G!identdecl(G!int, vint), G!intcon), s, t,
     G!function(G!identdecl(G!void, foo), <<>>,
                G!block(<<s, t, G!assign(G!ident(vint), G!intcon)>>))>>}

Nested == UNION {InBoth(s, t) : s \in Over(Leaves) \cup Over(Over(Leaves)),
                                t \in Over(Leaves)}

(* A variable that is declared in a branch at the top level, and used by a *)
(* function.                                                               *)
Branches ==
  {<<G!vardecl(G!identdecl(G!bool, vbool), G!true), s,
     G!function(G!identdecl(G!void, foo), <<>>,
                G!block(<<G!assign(G!ident(vint), G!intcon)>>))>> :
     s \in UNION {{G!if(G!ident(vbool), t), G!while(G!ident(vbool), t),
                   G!ifelse(G!ident(vbool), G!empty, t)} :
                    t \in {G!vardecl(G!identdecl(G!int, vint), G!intcon)}}}

(* Calls of functions and of what is no function, before and after their   *)
(* definitions.                                                            *)
Calling(f) ==
  {G!function(G!identdecl(r.type, bar), <<>>, G!block(<<G!return(r.value)>>)) :
     r \in {[type |-> G!int, value |-> G!call(f, <<>>)],
            [type |-> G!int, value |-> G!ident(f)],
            [type |-> G!char,
             value |-> G!index(G!stringcon, G!call(f, <<>>))]}}

Defined(f) ==
  {G!function(G!identdecl(t, f), <<>>, b) :
     t \in {G!int, G!void, G!string}, b \in {G!empty, G!block(<<>>)}}
    \cup {G!vardecl(G!identdecl(G!int, f), G!intcon)}

Calls == {<<p, q, r>> : p \in Defined(foo), q \in Calling(foo),
                        r \in Defined(foo) \cup Defined(ocmain)}

(* Calls of a function with parameters of every type, from itself. *)
Recursive ==
  {<<Structure, G!structdef(Quad, <<G!fielddecl(G!int, left)>>),
     G!function(t, <<d, G!identdecl(G!typeid(Quad), bar)>>,
                G!block(<<G!return(G!call(foo, <<e, G!ident(x)>>))>>))>> :
     t \in {G!identdecl(G!string, foo), G!arraydecl(G!typeid(Pair), foo)},
     d \in Range(Params), x \in {bar, vstruct},
     e \in Atoms \cup {G!binary("=", G!ident(bar), G!null)}}

(* A call of a variable that is local, and hides a function or not. *)
LocalCalls ==
  {p \o <<G!function(G!identdecl(G!int, bar), <<G!identdecl(G!int, foo)>>,
                     G!block(<<G!return(G!call(foo, <<>>))>>))>> :
     p \in {<<>>} \cup {<<q>> : q \in Defined(foo)}}

EmissionPrograms ==
  TypePrograms
    \cup {G!AstOf(p) : p \in Calls \cup LocalCalls \cup Nested \cup Branches
                              \cup Recursive}
=============================================================================
