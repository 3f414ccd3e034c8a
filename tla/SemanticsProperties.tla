------------------------- MODULE SemanticsProperties -------------------------
(***************************************************************************)
(* What the semantic pass is for, stated over its final state and the tree *)
(* alone where possible.                                                   *)
(***************************************************************************)
EXTENDS Semantics

Symbol == [attributes : SUBSET Attr, type_name : Name \cup {NULL},
           params : Seq(Node \cup {NULL}), fnblock : Node \cup {NULL}]

(* The values the variables range over. *)
SemanticsTypeOK ==
  /\ \A i \in 1..Depth : TableAt(i) \in [DOMAIN TableAt(i) -> Node]
  /\ block_num_stack \in Seq(Nat) /\ Depth = Len(block_num_stack)
  /\ symbols \in [Declared -> [lexinfo : Name, block_nr : Nat]]
  /\ symentry \in [Node -> Node \cup {NULL}]
  /\ calls \in Seq([node : DOMAIN ast, next : Nat])
  /\ attributes \in [Node -> SUBSET Attr]
  /\ type_name \in [Node -> Name \cup {NULL}]
  /\ DOMAIN info \subseteq Node
  /\ info \in [DOMAIN info -> Symbol]
  /\ Declared \subseteq DOMAIN info
  /\ member \in [Node -> Node \cup {NULL}]
  /\ DOMAIN typeid_table \subseteq Name
  /\ \A t \in DOMAIN typeid_table :
       typeid_table[t] \in [DOMAIN typeid_table[t] -> DOMAIN info]
  /\ current_function \in Name \cup {NULL}
  /\ semantic_errors \in Nat
  /\ {reported, crashed} \subseteq BOOLEAN

(* Nodes of the tree with one of the given tokens. *)
NodesWith(tokens) == {n \in DOMAIN ast : symbol(n) \in tokens}

(* The node and all nodes above it. *)
Ancestors(n) ==
  LET up[m \in DOMAIN ast] == {m} \cup IF m = 1 THEN {} ELSE up[parent(m)]
  IN  up[n]

(* Every open block belongs to a block or function being traversed, so all *)
(* are closed on every way out of handle_function and dfs_traverse and the *)
(* diagnostics "must be in global scope" (semantics.cpp:43, 95) are never  *)
(* printed.                                                                *)
ScopesMatchCalls ==
  Depth = 1 + Cardinality({i \in DOMAIN calls :
                 symbol(calls[i].node) \in {"TOK_BLOCK", "TOK_FUNCTION",
                                            "TOK_PROTOTYPE"}})

(* A program is rejected with a diagnostic and never without one, although *)
(* a node whose operands have no type fails silently (typecheck.cpp:263,   *)
(* 339, 395): the reason was always printed before.                        *)
ErrorsDiagnosed == semantic_errors > 0 <=> reported

(* A crash only ever ends the analysis of a program that is wrong. *)
CrashOnlyAfterError == crashed => semantic_errors > 0

Values == {"+", "-", "*", "/", "%", "TOK_POS", "TOK_NEG", "!", "TOK_ORD",
           "TOK_CHR", "TOK_LE", "TOK_EQ", "TOK_GE", "TOK_NE", ">", "<",
           "TOK_NEW", "TOK_NEWARRAY", "TOK_NEWSTRING", "TOK_CALL",
           "TOK_INTCON", "TOK_STRINGCON", "TOK_CHARCON", "TOK_FALSE",
           "TOK_TRUE", "TOK_NULL", "TOK_INDEX", ".", "=", "TOK_IDENT"}

VoidArray(n) ==
  symbol(n) = "TOK_NEWARRAY" /\ symbol(child(n, 0)) = "TOK_VOID"

(* Every expression of an accepted program has exactly one base type, and  *)
(* a structure type has a name: get_result_type_name (emit.cpp:84-101)     *)
(* asserts both.  An array of void is the exception, see NoVoidArray.      *)
OneBaseType ==
  Accepted => \A n \in NodesWith(Values) :
    LET a == get_node_attributes(n) IN
    /\ VoidArray(n) \/ Cardinality(a \cap Base) = 1
    /\ "struct" \in a => type_name[n] # NULL

(* new void[n] is not accepted (the comment at typecheck.cpp:300).         *)
NoVoidArray == Accepted => \A n \in DOMAIN ast : ~ VoidArray(n)

(* A call of a variable, which has no parameters, above the definition of  *)
(* a function that takes its place: handle_function takes any earlier      *)
(* global symbol for a prototype (semantics.cpp:131), and of a variable    *)
(* compares the value with the parameter list.                             *)
CallsVariable(c, fn) ==
  c < fn /\ symbol(Prototype(symentry[child(c, 0)])) = "TOK_VARDECL"

(* In an accepted program a call has the number of arguments that the      *)
(* definition of the function has parameters, and their types fit, also if *)
(* only the prototype was known at the call.  A variable called like a     *)
(* function is the exception.                                              *)
CallsMatchDefinitions ==
  Accepted => \A c \in NodesWith({"TOK_CALL"}),
                 fn \in NodesWith({"TOK_FUNCTION"}) :
    /\ lexinfo(child(c, 0)) = lexinfo(declared(child(fn, 0)))
    /\ symentry[child(c, 0)] \in Range(TableAt(1))
    /\ ~ CallsVariable(c, fn)
    => LET params == child(fn, 1) IN
       /\ arity(c) - 1 = arity(params)
       /\ \A i \in 1..arity(c) - 1 :
            Compatible(get_node_attributes(child(c, i)),
                       NewSymbol(child(params, i - 1), {"param"}).attributes)

(* A returned value fits the type its function is defined with.            *)
ReturnsMatchDefinitions ==
  Accepted => \A r \in NodesWith({"TOK_RETURN"}),
                 fn \in NodesWith({"TOK_FUNCTION"}) :
    fn \in Ancestors(r) =>
      Compatible(get_node_attributes(child(r, 0)),
                 NewSymbol(child(fn, 0), {"function"}).attributes)

(* An accepted program defines a function at most once: the emitter writes *)
(* every definition out.                                                   *)
OneDefinition ==
  Accepted => \A f, g \in NodesWith({"TOK_FUNCTION"}) :
    lexinfo(declared(child(f, 0))) = lexinfo(declared(child(g, 0))) => f = g

(* The node whose block a declaration belongs to: the function is declared *)
(* outside of its own block, its parameters and its body are in it.        *)
Home(d) ==
  LET above == Ancestors(d) \ {d}
      blocks == {b \in above : symbol(b) \in {"TOK_BLOCK", "TOK_ROOT"}}
      fns == {b \in above : symbol(b) = "TOK_FUNCTION"
                            /\ declared(child(b, 0)) # d}
      body(b) == b \in {child(f, 2) : f \in fns}
  IN  CHOOSE b \in {c \in blocks : ~ body(c)} \cup fns :
        \A c \in {c \in blocks : ~ body(c)} \cup fns : c <= b

(* The declaration that an identifier stands for, read off the tree alone: *)
(* of those of its name that precede it in an enclosing block, those of    *)
(* the innermost block, and of them the first.                             *)
Prototyped(d) == \E n \in Ancestors(d) : symbol(n) = "TOK_PROTOTYPE"
                                         /\ declared(child(n, 0)) # d
LexicalDeclaration(u) ==
  LET seen == {d \in NodesWith({"TOK_DECLID"}) :
                 /\ lexinfo(d) = lexinfo(u)
                 /\ d < u
                 /\ ~ Prototyped(d)
                 /\ Home(d) \in Ancestors(u)}
      inner == {d \in seen : \A e \in seen : Home(e) <= Home(d)}
  IN  CHOOSE d \in inner : \A e \in inner : d <= e

(* Every identifier of an accepted program stands for the declaration that *)
(* the structure of the program says.                                      *)
BindingsAreLexical ==
  Accepted => \A u \in NodesWith({"TOK_IDENT"}) :
    symentry[u] = LexicalDeclaration(u)

(* The nodes whose names the emitter mangles: all but those of prototypes. *)
Mangled == {n \in NodesWith({"TOK_IDENT", "TOK_DECLID", "TOK_FIELD"}) :
              \A m \in Ancestors(n) : symbol(m) # "TOK_PROTOTYPE"}

(* The emitter's assertion assert(node->symentry) (emit.cpp:151) holds for *)
(* every accepted program.                                                 *)
EmitReady == Accepted => \A n \in Mangled : Entry(n) # NULL

(* It fails for nothing but the name in the definition of a function whose *)
(* name was declared before.                                               *)
DefinesDeclared(n) ==
  /\ \E f \in NodesWith({"TOK_FUNCTION"}) : declared(child(f, 0)) = n
  /\ \E d \in Declared : d < n /\ symbols[d] = [lexinfo  |-> lexinfo(n),
                                                block_nr |-> 0]

OnlyRedefinitionsUnready ==
  Accepted => \A n \in Mangled : Entry(n) # NULL \/ DefinesDeclared(n)

(* The pass never dereferences a null symbol. *)
NoCrash == ~ crashed

(* The pass uses the symbol tables as Scopes allows: it opens a block only *)
(* by enter_block, never closes the global one, and gives no node two      *)
(* symbols.  What is proved of Scopes therefore holds of the pass.         *)
ObeysScopes == ScopesSpec

(* The traversal ends. *)
Terminates == <>(Analysed \/ crashed)
=============================================================================
