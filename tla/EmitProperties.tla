--------------------------- MODULE EmitProperties ---------------------------
(***************************************************************************)
(* What must hold of the text the emitter writes for it to be a C program. *)
(* The exceptions name the constructs for which it is not one.             *)
(***************************************************************************)
EXTENDS Emit, SemanticsProperties

(* The values the variables range over. *)
EmitTypeOK ==
  /\ \A i \in DOMAIN jobs : jobs[i].node \in DOMAIN ast
  /\ \A i \in DOMAIN emits : emits[i].node \in DOMAIN ast
  /\ DOMAIN oilname = Node
  /\ reg_nr \in 1..Len(oil) + 1
  /\ aborted \in DOMAIN ast \cup {NULL}
  /\ (emits # <<>> => jobs # <<>>)

-----------------------------------------------------------------------------
(* The emitter gets to its end. *)

(* A call of a void function that is the index of a string. *)
VoidIndex(n) == symbol(n) = "TOK_INDEX" /\ IsVoidCall(child(n, 1))

(* The assertions of emit.cpp hold, and every child has a name when it is  *)
(* used, except in the three cases the analysis lets through.              *)
AbortsKnown ==
  aborted # NULL => DefinesDeclared(aborted) \/ VoidArray(aborted)
                      \/ VoidIndex(aborted)

-----------------------------------------------------------------------------
(* Names. *)

(* The first line of the function that line i belongs to; 0 for the lines  *)
(* before the functions.                                                   *)
FunctionAt(i) == Max({0} \cup {j \in 1..i : oil[j].op = "function"})

(* The line declares something outside of the functions. *)
Global(i) == oil[i].op \in {"struct", "string", "global", "function"}

Variable(a) == IF a.kind = "deref" THEN Operand("reg", a.of) ELSE a

Defines(i, a) == oil[i].def = Variable(a)

(* The lines that line i sees the declarations of. *)
Seen(i) == {j \in 1..i : \/ Global(j)
                         \/ j < i /\ FunctionAt(j) = FunctionAt(i)}

(* A variable of block 0 that is declared in a branch, at the top level.   *)
TopBranch(d) ==
  /\ symbol(parent(parent(d))) = "TOK_VARDECL"
  /\ symbol(parent(parent(parent(d)))) \in {"TOK_IF", "TOK_IFELSE", "TOK_WHILE"}

(* Prototypes are not written: a function may be defined below its use, or *)
(* in a library.                                                           *)
OnlyPrototyped(d) == symbol(Prototype(d)) = "TOK_PROTOTYPE"

(* What line i reads, writes or calls; a call of a variable, which the     *)
(* analysis lets through, is left out.                                     *)
Mentions(i) ==
  Range(oil[i].args)
    \cup IF /\ oil[i].op = "call"
            /\ "function" \in info[symentry[child(oil[i].node, 0)]].attributes
         THEN {Operand("var", <<0, oil[i].label>>)} ELSE {}

(* Everything that a line reads, writes or calls is declared by an earlier *)
(* line of the same function or at the top of the file, where functions    *)
(* find all but the two kinds of names above.                              *)
DeclaredBeforeUse ==
  Compiled => \A i \in DOMAIN oil : \A a \in Mentions(i) :
    \/ a.kind = "const"
    \/ \E j \in Seen(i) : Defines(j, a)
    \/ \E j \in 1..i : oil[j].op = "field" /\ Defines(j, a)
    \/ \E d \in Declared : /\ a.kind = "var" /\ a.of = mangle_name(d)
                           /\ TopBranch(d) \/ OnlyPrototyped(d)

(* No function has two declarations of a register or variable, although    *)
(* all blocks of a function become one, and no name is declared twice at   *)
(* the top of the file; the exception is ocmain, a name the emitter adds.  *)
DeclaredOnce ==
  Compiled =>
    \A i \in DOMAIN oil : \A j \in Seen(i) \ {i} :
         /\ oil[i].def = oil[j].def
         /\ Global(i) <=> Global(j)
         => oil[i].def = NULL \/ oil[i].def.of = <<0, ocmain>>

(* Every jump goes to the one label of that name, in the same function.    *)
JumpsLand ==
  Compiled => \A i \in DOMAIN oil : oil[i].op \in {"goto", "unless"} =>
    Cardinality({j \in DOMAIN oil :
                   /\ oil[j].op = "label"
                   /\ oil[j].label = oil[i].label
                   /\ FunctionAt(j) = FunctionAt(i)}) = 1

(* All global variables are emitted at the top (the comment at             *)
(* emit.cpp:479).                                                          *)
GlobalsAtTop ==
  Compiled => \A d \in Declared :
    symbols[d].block_nr = 0 /\ "variable" \in info[d].attributes =>
      \E j \in DOMAIN oil : oil[j].op = "global" /\ oil[j].def = oilname[d]

-----------------------------------------------------------------------------
(* C types. *)

IntType == CType("int", NULL, 0)

(* The type of what operand a of line i stands for. *)
TypeOf(i, a) ==
  LET j == Max({j \in 1..i : Defines(j, a) /\ oil[j].op # "function"})
      type == oil[j].type
  IN
  CASE a.kind = "const" -> IntType
    [] a.kind = "deref" -> [type EXCEPT !.stars = @ - 1]
    [] OTHER -> type

IsNumber(type) == type.stars = 0 /\ type.base # "void"

(* A value of type u, or the constant 0, may be stored where type t is.    *)
(* The analysis does not compare the names of structures, nor does this.   *)
Assignable(t, u, a) ==
  \/ t.base = u.base /\ t.stars = u.stars
  \/ IsNumber(t) /\ IsNumber(u)
  \/ t.stars > 0 /\ a = Operand("const", 0)

FunctionType(i) == oil[FunctionAt(i)].type

(* The constraints of C on line i. *)
WellTyped(i) ==
  LET line == oil[i]
      t(k) == TypeOf(i, line.args[k])
      fits(type, k) == Assignable(type, t(k), line.args[k])
  IN
  CASE line.op \in {"TOK_EQ", "TOK_NE"} -> fits(t(1), 2) \/ fits(t(2), 1)
    [] line.op \in (BinaryOps \cup UnaryOps \cup {"unless"})
                     \ {"TOK_EQ", "TOK_NE"} ->
         \A k \in DOMAIN line.args : IsNumber(t(k))
    [] line.op = "=" -> fits(t(1), 2)
    [] line.op = "declare" -> fits(line.type, 1)
    [] line.op = "return" -> IF line.args = <<>>
                             THEN FunctionType(i) = CType("void", NULL, 0)
                             ELSE fits(FunctionType(i), 1)
    [] line.op = "call" ->
         \A j \in {j \in 1..i : /\ oil[j].op = "function"
                               /\ oil[j].node # 1
                               /\ oil[j].def.of = <<0, line.label>>} :
           /\ line.type = oil[j].type
           /\ \A k \in DOMAIN line.args : /\ oil[j + k].op = "param"
                                         /\ fits(oil[j + k].type, k)
           /\ oil[j + 1 + Len(line.args)].op = "{"
    [] line.op = "index" -> t(1) = line.type /\ IsNumber(t(2))
    [] line.op = "select" ->
         /\ t(1) = CType("struct", line.args[2].of[1], 1)
         /\ line.type = Pointer(t(2))
    [] line.op = "calloc" -> \A k \in DOMAIN line.args : IsNumber(t(k))
    [] OTHER -> TRUE

(* What the rules of typecheck.cpp let through: a function as a value, the *)
(* variable that null was assigned to as a null, a field of an array of    *)
(* structures, anything as the index of a string, and calls of variables.  *)
LetThrough(n) ==
  LET a(i) == get_node_attributes(child(n, i)) IN
  \/ \E c \in Range(Used(n)) :
       \/ "function" \in get_node_attributes(c)
       \/ symbol(c) = "=" /\ "null" \in get_node_attributes(c)
  \/ symbol(n) = "." /\ "array" \in a(0)
  \/ symbol(n) = "TOK_INDEX" /\ ("int" \notin a(1) \/ "array" \in a(1))
  \/ symbol(n) = "TOK_CALL" /\ "function" \notin a(0)

(* Every line of the output is well typed, if its operands are declared.   *)
CTypesFit ==
  Compiled => \A i \in DOMAIN oil :
    \/ \E a \in Range(oil[i].args) :
         a.kind # "const" /\ ~ \E j \in 1..i : Defines(j, a)
    \/ LetThrough(oil[i].node)
    \/ WellTyped(i)
=============================================================================
