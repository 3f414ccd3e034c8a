-------------------------------- MODULE Emit --------------------------------
(***************************************************************************)
(* The emitter (emit.cpp): a program the semantic pass accepted is written *)
(* out as OIL, C of one operation per line.  The C++ call stack of         *)
(* emit_recursive is the variable emits, what oc_run_emit still has to do  *)
(* is jobs; a step is the entry or the return of one call.  A line of the  *)
(* output is a record of what it does; blanks and punctuation are left     *)
(* out, and so are the letters that tell registers of different types      *)
(* apart: their numbers do.                                                *)
(***************************************************************************)
EXTENDS Semantics

CONSTANT ocmain   \* the name "ocmain"

VARIABLES
  jobs,      \* what is left of oc_run_emit: records [what, node]
  emits,     \* frames [node, next] of emit_recursive, for the first job
  oil,       \* the lines written
  reg_nr,    \* the next register
  oilname,   \* node -> the operand or declaration that stands for it, or NULL
  aborted    \* the node on which the emitter died, or NULL

emitVars == <<jobs, emits, oil, reg_nr, oilname, aborted>>

-----------------------------------------------------------------------------
(* C types and operands. *)

CType(base, struct, stars) == [base |-> base, struct |-> struct,
                               stars |-> stars]

(* What stands for a value: a register, what the register points to, a     *)
(* variable, a constant or the variable of a string.                       *)
Operand(kind, of) == [kind |-> kind, of |-> of]

NotTyped == {"null", "void"}   \* base types without a C type

(* get_result_type_name and, when it is FALSE, its assertions. *)
HasResultType(n) ==
  LET a == get_node_attributes(n) IN
  /\ a \cap (Base \ NotTyped) # {}
  /\ "struct" \in a => type_name[n] # NULL

get_result_type_name(n) ==
  LET a == get_node_attributes(n)
      stars == Cardinality(a \cap {"string", "struct", "array"})
                 + IF symbol(n) = "." THEN 1 ELSE 0
  IN  CASE a \cap {"bool", "char", "string"} # {} -> CType("char", NULL, stars)
        [] "int" \in a -> CType("int", NULL, stars)
        [] OTHER -> CType("struct", type_name[n], stars)

(* The text of a declaration's type. *)
DeclaredType(n) ==
  LET t == base_type(n)
      stars == IF IsArray(n) THEN 1 ELSE 0
  IN  CASE symbol(t) = "TOK_INT" -> CType("int", NULL, stars)
        [] symbol(t) = "TOK_VOID" -> CType("void", NULL, stars)
        [] symbol(t) \in {"TOK_CHAR", "TOK_BOOL"} -> CType("char", NULL, stars)
        [] symbol(t) = "TOK_STRING" -> CType("char", NULL, stars + 1)
        [] symbol(t) = "TOK_TYPEID" -> CType("struct", lexinfo(t), stars + 1)

(* Bug: a name is not told from that of an outer block. *)
MangleByName(n) == <<0, lexinfo(n)>>

(* The structure and name of a field; the block number and name of the     *)
(* rest, number 0 leaving only the name.                                   *)
mangle_name(n) ==
  IF symbol(n) = "TOK_FIELD"
  THEN <<lexinfo(child(parent(parent(member[n])), 0)), lexinfo(member[n])>>
  ELSE <<symbols[symentry[n]].block_nr, symbols[symentry[n]].lexinfo>>

-----------------------------------------------------------------------------
(* Lines. *)

Line(op, n) == [op |-> op, node |-> n, def |-> NULL, type |-> NULL,
                args |-> <<>>, label |-> NULL]

(* A line that only reads its arguments or, for "=", stores the second in  *)
(* the first.                                                              *)
Doing(op, n, args) == [Line(op, n) EXCEPT !.args = args]

(* A line that declares something. *)
Defining(op, n, def, type, args) ==
  [Doing(op, n, args) EXCEPT !.def = def, !.type = type]

Labelled(op, kind, n, args) ==
  [Doing(op, n, args) EXCEPT !.label = <<kind, n>>]

Label(kind, n) == Labelled("label", kind, n, <<>>)
Goto(kind, n) == Labelled("goto", kind, n, <<>>)
Unless(kind, n) == Labelled("unless", kind, n, <<oilname[child(n, 0)]>>)

BinaryOps == {"+", "-", "*", ">", "/", "%", "<",
              "TOK_EQ", "TOK_NE", "TOK_LE", "TOK_GE"}
UnaryOps == {"TOK_POS", "TOK_NEG", "!", "TOK_ORD", "TOK_CHR"}
TypeTokens == {"TOK_INT", "TOK_CHAR", "TOK_BOOL", "TOK_VOID", "TOK_STRING",
               "TOK_TYPEID", "TOK_ARRAY"}

(* Bug: a loop goes back to behind its condition. *)
CodeBeforeWithLateLabel(n, k) ==
  CASE symbol(n) = "TOK_WHILE" /\ k = 1 ->
         <<Label("while", n), Unless("break", n)>>
    [] symbol(n) = "TOK_IF" /\ k = 1 -> <<Unless("fi", n)>>
    [] symbol(n) = "TOK_IFELSE" /\ k = 1 -> <<Unless("else", n)>>
    [] symbol(n) = "TOK_IFELSE" /\ k = 2 -> <<Goto("fi", n), Label("else", n)>>
    [] OTHER -> <<>>

(* What is written before child k + 1 of n is entered. *)
CodeBefore(n, k) ==
  CASE symbol(n) = "TOK_WHILE" /\ k = 0 -> <<Label("while", n)>>
    [] symbol(n) = "TOK_WHILE" /\ k = 1 -> <<Unless("break", n)>>
    [] symbol(n) = "TOK_IF" /\ k = 1 -> <<Unless("fi", n)>>
    [] symbol(n) = "TOK_IFELSE" /\ k = 1 -> <<Unless("else", n)>>
    [] symbol(n) = "TOK_IFELSE" /\ k = 2 -> <<Goto("fi", n), Label("else", n)>>
    [] OTHER -> <<>>

-----------------------------------------------------------------------------
(* What a node needs when its children are done, and what it yields.       *)

(* Bug: no call has a value. *)
IsCall(n) == symbol(n) = "TOK_CALL"

IsVoidCall(n) ==
  symbol(n) = "TOK_CALL" /\ "void" \in get_node_attributes(n)

(* The children whose names are used. *)
Used(n) ==
  LET s == symbol(n) IN
  CASE s \in BinaryOps \cup {"=", "TOK_INDEX", ".", "TOK_ARRAY"} ->
         <<child(n, 0), child(n, 1)>>
    [] s = "TOK_VARDECL" ->
         <<IF symbol(parent(n)) = "TOK_ROOT" THEN declared(child(n, 0))
           ELSE child(n, 0), child(n, 1)>>
    [] s = "TOK_CALL" -> Tail(children(n))
    [] s = "TOK_NEWARRAY" -> <<child(n, 1)>>
    [] s \in UnaryOps \cup {"TOK_RETURN", "TOK_NEWSTRING"} -> <<child(n, 0)>>
    [] s \in TypeTokens -> children(n)
    [] OTHER -> <<>>

Names == {"TOK_IDENT", "TOK_DECLID", "TOK_FIELD"}

(* An assertion fails, or a null name is dereferenced. *)
Fails(n) ==
  LET s == symbol(n) IN
  \/ \E c \in Range(Used(n)) : oilname[c] = NULL
  \/ s \in Names /\ Entry(n) = NULL
  \/ /\ s \in BinaryOps \cup UnaryOps \cup {"TOK_CALL", "TOK_INDEX", "."}
     /\ ~ IsVoidCall(n)
     /\ ~ HasResultType(n)
  \/ s = "TOK_NEWARRAY" /\ ~ HasResultType(child(n, 0))

(* Bug: the number is read after it was increased. *)
AtNext == Operand("deref", reg_nr + 1)

Reg == Operand("reg", reg_nr)
At == Operand("deref", reg_nr)   \* the text (*a1)

(* Bug: the type is that of the element, not of its address. *)
Element(type) == type

Pointer(type) == [type EXCEPT !.stars = @ + 1]

(* The lines of n, once its children are done. *)
Code(n) ==
  LET s == symbol(n)
      args == [i \in DOMAIN Used(n) |-> oilname[Used(n)[i]]]
      type == get_result_type_name(n)
  IN
  CASE s \in BinaryOps \cup UnaryOps -> <<Defining(s, n, Reg, type, args)>>
    [] s = "=" -> <<Doing("=", n, args)>>
    [] s = "TOK_VARDECL" /\ symbol(parent(n)) = "TOK_ROOT" ->
         <<Doing("=", n, args)>>
    [] s = "TOK_VARDECL" /\ symbol(parent(n)) # "TOK_ROOT" ->
         <<Defining("declare", n, args[1].name, args[1].type, <<args[2]>>)>>
    [] s = "TOK_CALL" ->
         <<[Defining("call", n, IF IsVoidCall(n) THEN NULL ELSE Reg,
                     IF IsVoidCall(n) THEN CType("void", NULL, 0) ELSE type,
                     args)
              EXCEPT !.label = lexinfo(child(n, 0))]>>
    [] s = "TOK_RETURN" -> <<Doing("return", n, args)>>
    [] s = "TOK_RETURNVOID" -> <<Doing("return", n, <<>>)>>
    [] s = "TOK_INDEX" -> <<Defining("index", n, Reg, Pointer(type), args)>>
    [] s = "." -> <<Defining("select", n, Reg, type, args)>>
    [] s = "TOK_NEW" ->
         <<Defining("calloc", n, Reg, CType("struct", type_name[n], 1), <<>>)>>
    [] s = "TOK_NEWARRAY" ->
         <<Defining("calloc", n, Reg,
                    Pointer(get_result_type_name(child(n, 0))), args)>>
    [] s = "TOK_NEWSTRING" ->
         <<Defining("calloc", n, Reg, CType("char", NULL, 1), args)>>
    [] OTHER -> <<>>

(* Bug: an assignment stands for the value it assigned. *)
Rvalue(n) == oilname[child(n, 1)]

(* What an assignment stands for: the place it assigned to. *)
Lvalue(n) == oilname[child(n, 0)]

(* node->oilname, set on the way. *)
NewName(n) ==
  LET s == symbol(n) IN
  CASE s \in BinaryOps \cup UnaryOps
             \cup {"TOK_NEW", "TOK_NEWARRAY", "TOK_NEWSTRING"} -> Reg
    [] s \in {"TOK_INDEX", "."} -> At
    [] s = "TOK_CALL" -> IF IsVoidCall(n) THEN oilname[n] ELSE Reg
    [] s = "=" -> Lvalue(n)
    [] s \in {"TOK_INTCON", "TOK_CHARCON"} -> Operand("const", lexinfo(n))
    [] s \in {"TOK_NULL", "TOK_FALSE"} -> Operand("const", 0)
    [] s = "TOK_TRUE" -> Operand("const", 1)
    [] s \in Names -> Operand("var", mangle_name(n))
    [] s \in TypeTokens /\ arity(n) > 0 ->
         [name |-> oilname[declared(n)], type |-> DeclaredType(n)]
    [] s \in TypeTokens /\ arity(n) = 0 -> [type |-> DeclaredType(n)]
    [] OTHER -> oilname[n]

(* Bug: every node with a name has a register. *)
AllocatesAlways(n) == NewName(n) # NULL

AllocatesRegister(n) ==
  \/ symbol(n) \in BinaryOps \cup UnaryOps
       \cup {"TOK_INDEX", ".", "TOK_NEW", "TOK_NEWARRAY", "TOK_NEWSTRING"}
  \/ symbol(n) = "TOK_CALL" /\ ~ IsVoidCall(n)

-----------------------------------------------------------------------------
(* The jobs of oc_run_emit, in order: calls of emit_recursive, lines, and  *)
(* loops, which stand for the iterations behind the one of their node.     *)

Job(what, n) == [what |-> what, node |-> n]

Loops == {"structs", "strings", "globals", "functions"}

AllJobs == <<Job("structs", 1), Job("strings", 1), Job("globals", 1),
             Job("functions", 1), Job("main", 1)>>

StringConstants == {n \in DOMAIN ast : symbol(n) = "TOK_STRINGCON"}

(* What a loop does something for. *)
Items(loop) ==
  CASE loop = "structs" ->
         {n \in Range(children(1)) : symbol(n) = "TOK_STRUCT"}
    [] loop = "strings" -> StringConstants
    [] loop = "globals" ->
         {n \in Range(children(1)) : symbol(n) = "TOK_VARDECL"}
    [] loop = "functions" ->
         {n \in Range(children(1)) : symbol(n) = "TOK_FUNCTION"}

EachOf(what, nodes) == [i \in DOMAIN nodes |-> Job(what, nodes[i])]

(* The jobs of one iteration. *)
Iteration(loop, n) ==
  CASE loop = "structs" ->
         <<Job("struct", n)>> \o EachOf("field", Tail(children(n)))
    [] loop = "strings" -> <<Job("string", n)>>
    [] loop = "globals" -> <<Job("global", child(n, 0))>>
    [] loop = "functions" ->
         <<Job("function", child(n, 0))>>
           \o EachOf("param", children(child(n, 1)))
           \o <<Job("body", child(n, 2))>>

(* What is written before and after the job's call of emit_recursive.      *)
Opening(job) ==
  CASE job.what = "main" ->
         <<Defining("function", 1, Operand("var", <<0, ocmain>>),
                    CType("void", NULL, 0), <<>>), Line("{", 1)>>
    [] job.what = "body" -> <<Line("{", job.node)>>
    [] OTHER -> <<>>

Closing(job, name) ==
  IF job.what \in {"body", "main"} THEN <<Line("}", job.node)>>
  ELSE <<Defining(job.what, job.node, name.name, name.type, <<>>)>>

(* The lines of a job that calls nothing. *)
Heading(job) ==
  <<IF job.what = "struct"
    THEN Defining("struct", job.node,
                  Operand("struct", lexinfo(child(job.node, 0))), NULL, <<>>)
    ELSE Defining("string", job.node, oilname[job.node],
                  CType("char", NULL, 1), <<>>)>>

-----------------------------------------------------------------------------

(* Strings are named by the parser, in the order of the text. *)
StringNames ==
  [n \in Node |->
     IF n \in StringConstants
     THEN Operand("string", Cardinality({m \in StringConstants : m <= n}))
     ELSE NULL]

EmitInit ==
  /\ Init
  /\ jobs = <<>>
  /\ emits = <<>>
  /\ oil = <<>>
  /\ reg_nr = 1
  /\ oilname = StringNames
  /\ aborted = NULL

(* oc_run_emit writes its first lines. *)
BeginEmit ==
  /\ Accepted /\ oil = <<>>
  /\ oil' = <<Line("include", 1)>>
  /\ jobs' = AllJobs
  /\ UNCHANGED <<emits, reg_nr, oilname, aborted>>

Emitting == jobs # <<>> /\ aborted = NULL

(* The next iteration of a loop, or its end. *)
Iterate ==
  LET job == Head(jobs)
      todo == {n \in Items(job.what) : n > job.node}
  IN
  /\ Emitting /\ emits = <<>> /\ job.what \in Loops
  /\ jobs' = IF todo = {} THEN Tail(jobs)
             ELSE Iteration(job.what, Min(todo))
                    \o <<Job(job.what, Min(todo))>> \o Tail(jobs)
  /\ UNCHANGED <<emits, oil, reg_nr, oilname, aborted>>

BeginJob ==
  LET job == Head(jobs) IN
  /\ Emitting /\ emits = <<>> /\ job.what \notin Loops
  /\ IF job.what \in {"struct", "string"}
     THEN /\ oil' = oil \o Heading(job)
          /\ jobs' = Tail(jobs)
          /\ UNCHANGED emits
     ELSE /\ oil' = oil \o Opening(job)
          /\ emits' = <<Frame(job.node)>>
          /\ UNCHANGED jobs
  /\ UNCHANGED <<reg_nr, oilname, aborted>>

Emitted == Last(emits)

(* The children that emit_recursive goes into. *)
Emits(n) ==
  IF symbol(n) \in {"TOK_STRUCT", "TOK_FUNCTION", "TOK_PROTOTYPE",
                    "TOK_STRINGCON"}
  THEN <<>> ELSE children(n)

EnterChild ==
  LET n == Emitted.node
      k == Emitted.next - 1
      branch == CodeBefore(n, k)
      broken == \E i \in DOMAIN branch : NULL \in Range(branch[i].args)
  IN
  /\ Emitting /\ emits # <<>> /\ k < Len(Emits(n))
  /\ IF broken THEN aborted' = n /\ UNCHANGED <<oil, emits>>
     ELSE /\ oil' = oil \o branch
          /\ emits' = [emits EXCEPT ![Len(emits)].next = @ + 1]
                        \o <<Frame(child(n, k))>>
          /\ UNCHANGED aborted
  /\ UNCHANGED <<jobs, reg_nr, oilname>>

(* Bug: a condition that is false leaves no loop. *)
CodeAfterWithoutBreak(n) ==
  CASE symbol(n) = "TOK_WHILE" -> <<Goto("while", n)>>
    [] symbol(n) \in {"TOK_IF", "TOK_IFELSE"} -> <<Label("fi", n)>>
    [] OTHER -> Code(n)

(* What follows the children of a conditional or loop. *)
CodeAfter(n) ==
  CASE symbol(n) = "TOK_WHILE" -> <<Goto("while", n), Label("break", n)>>
    [] symbol(n) \in {"TOK_IF", "TOK_IFELSE"} -> <<Label("fi", n)>>
    [] OTHER -> Code(n)

LeaveEmitted ==
  LET n == Emitted.node
      names == [oilname EXCEPT ![n] = NewName(n)]
      last == Len(emits) = 1
  IN
  /\ Emitting /\ emits # <<>> /\ Emitted.next > Len(Emits(n))
  /\ IF Fails(n)
     THEN /\ aborted' = n
          /\ UNCHANGED <<jobs, emits, oil, reg_nr, oilname>>
     ELSE /\ oilname' = names
          /\ reg_nr' = IF AllocatesRegister(n) THEN reg_nr + 1 ELSE reg_nr
          /\ oil' = oil \o CodeAfter(n)
                      \o IF last THEN Closing(Head(jobs), names[n]) ELSE <<>>
          /\ jobs' = IF last THEN Tail(jobs) ELSE jobs
          /\ emits' = Front(emits)
          /\ UNCHANGED aborted

EmitNext == BeginEmit \/ Iterate \/ BeginJob \/ EnterChild \/ LeaveEmitted

EmitSpec ==
  /\ EmitInit
  /\ [][\/ Next /\ UNCHANGED emitVars
        \/ EmitNext /\ UNCHANGED vars]_<<vars, emitVars>>
  /\ WF_<<vars, emitVars>>(Next /\ UNCHANGED emitVars)
  /\ WF_<<vars, emitVars>>(EmitNext /\ UNCHANGED vars)

(* The output is complete. *)
Compiled == oil # <<>> /\ jobs = <<>>
=============================================================================
