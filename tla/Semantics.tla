----------------------------- MODULE Semantics -----------------------------
(***************************************************************************)
(* The semantic pass (semantics.cpp, with the symbols of symbol.cpp and    *)
(* the rules of typecheck.cpp): one depth-first traversal of the tree that *)
(* opens and closes blocks, makes symbols, binds identifiers and checks    *)
(* types.  The C++ call stack of dfs_traverse and handle_function is the   *)
(* variable calls; a step is the entry or the return of one call, or one   *)
(* iteration of the loop over parameters.  The scope part of every step is *)
(* an action of Scopes.                                                    *)
(***************************************************************************)
EXTENDS Scopes, Ast, FiniteSets

CONSTANT Programs   \* the trees to analyse

(* They are what the parser builds. *)
ASSUME ProgramsAssumption ==
  \A p \in Programs : DOMAIN p \subseteq Node /\ WellFormed(p, Name)

INSTANCE TypeCheck

VARIABLES
  calls,            \* frames [node, next]: the next child to traverse
  attributes,       \* node -> its attributes
  type_name,        \* node -> name of its structure type, or NULL
  info,             \* declaring node -> the rest of its symbol
  member,           \* node -> the field it declares or selects, or NULL
  typeid_table,     \* name of a structure -> its table of fields
  current_function, \* name of the function being analysed, or NULL
  semantic_errors,  \* how many errors were counted
  reported,         \* whether a diagnostic was printed
  crashed           \* whether a null pointer was dereferenced

semVars == <<calls, attributes, type_name, info, member, typeid_table,
             current_function, semantic_errors, reported, crashed>>
vars == <<scopeVars, ast, semVars>>

-----------------------------------------------------------------------------
(* Declarations. *)

IsLegal(n, initial) ==
  LegalType(symbol(base_type(n)), IsArray(n), initial)

(* The symbol symbolize_declaration makes. *)
NewSymbol(n, initial) ==
  LET attrs == node_generate_attributes(symbol(base_type(n)), IsArray(n),
                                        initial)
  IN [attributes |-> attrs \cup IF {"function", "field"} \cap initial = {}
                                THEN {"lval"} ELSE {},
      type_name  |-> IF "struct" \in attrs THEN lexinfo(base_type(n))
                     ELSE NULL,
      params     |-> <<>>,
      fnblock    |-> NULL]

fn_compare_nodes(n1, n2) ==
  /\ symbol(n1) = symbol(n2)
  /\ IsArray(n1) => symbol(child(n1, 0)) = symbol(child(n2, 0))

(* Bug: what the functions return is not compared. *)
CompareParameters(f1, f2) ==
  LET p1 == child(f1, 1)
      p2 == child(f2, 1)
  IN /\ arity(p1) = arity(p2)
     /\ \A i \in 0..arity(p1) - 1 : fn_compare_nodes(child(p1, i), child(p2, i))

(* Bug: the parameters are not compared. *)
CompareReturned(f1, f2) == fn_compare_nodes(child(f1, 0), child(f2, 0))

(* f1 is what stands two levels above an earlier declaration of the name:  *)
(* a function, a prototype, or the definition of a variable, whose value   *)
(* is then compared with the parameters.                                   *)
typecheck_compare_functions(f1, f2) ==
  LET p1 == child(f1, 1)
      p2 == child(f2, 1)
  IN /\ fn_compare_nodes(child(f1, 0), child(f2, 0))
     /\ arity(p1) = arity(p2)
     /\ \A i \in 0..arity(p1) - 1 : fn_compare_nodes(child(p1, i), child(p2, i))

Prototype(d) == parent(parent(d))

(* node->symentry, which for a field is the field of its structure.        *)
Entry(n) == IF symbol(n) = "TOK_FIELD" THEN member[n] ELSE symentry[n]

(* The attributes of a node, or of the symbol it stands for. *)
get_node_attributes(n) ==
  IF symbol(n) \in {"TOK_IDENT", "TOK_DECLID", "TOK_FIELD"} /\ Entry(n) # NULL
  THEN info[Entry(n)].attributes ELSE attributes[n]

-----------------------------------------------------------------------------
(* The call stack and the error count. *)

(* The children dfs_traverse or handle_function goes into, in order; the   *)
(* parameter list is handle_function's loop over it.                       *)
Visits(n) ==
  CASE symbol(n) = "TOK_FUNCTION" -> <<child(n, 1)>> \o children(child(n, 2))
    [] symbol(n) \in {"TOK_PROTOTYPE", "TOK_NEWARRAY"} -> <<child(n, 1)>>
    [] symbol(n) = "TOK_NEW" -> <<>>
    [] OTHER -> children(n)

Frame(n) == [node |-> n, next |-> 1]

Running == calls # <<>> /\ ~ crashed
Caller == Last(calls)
HasNext == Caller.next <= Len(Visits(Caller.node))
Next_node == Visits(Caller.node)[Caller.next]

Advanced == [calls EXCEPT ![Len(calls)].next = @ + 1]

Call(frames) == calls' = Advanced \o frames
Return == calls' = Front(calls)

(* Going on with the next node, or returning from the caller. *)
Visiting(tokens) == /\ Running /\ HasNext
                    /\ symbol(Caller.node) # "TOK_PARAMLIST"
                    /\ symbol(Next_node) \in tokens
(* Bug: handle_function returns after a body only. *)
ReturningFromBody(tokens) == /\ Running /\ ~ HasNext
                             /\ symbol(Caller.node) \in tokens
                                                        \ {"TOK_PROTOTYPE"}

Returning(tokens) == /\ Running /\ ~ HasNext
                     /\ symbol(Caller.node) \in tokens

Count(errors, said) ==
  /\ semantic_errors' = semantic_errors + errors
  /\ reported' = (reported \/ said)

(* Bug: an error is printed and not counted. *)
PrintOnly(errors) == Count(0, TRUE)

Fine == UNCHANGED <<semantic_errors, reported>>
Report(errors) == Count(errors, TRUE)
Tell(check) == Count(IF check.ok THEN 0 ELSE 1, check.said)

-----------------------------------------------------------------------------
(* Declarations of variables. *)

VariableTypes == {"TOK_INT", "TOK_CHAR", "TOK_BOOL", "TOK_TYPEID",
                  "TOK_STRING", "TOK_ARRAY"}

(* Bug: every declaration is a global one. *)
SymbolizeGlobally(n, initial) ==
  LET d == declared(n) IN
  /\ symbol_stack' = [symbol_stack EXCEPT ![1] = TableWith(@, d, lexinfo(d))]
  /\ Insert(d, lexinfo(d), 1)
  /\ UNCHANGED <<block_num_stack, next_block>>

(* Making a symbol of declaration n in the table of the current block.     *)
Symbolize(n, initial) ==
  IF IsLegal(n, initial) THEN DeclareLocal(declared(n), lexinfo(declared(n)))
  ELSE DeclareNothing

Symbolized(n, initial) ==
  IsLegal(n, initial) /\ lexinfo(declared(n)) \notin DOMAIN TableAt(Depth)

(* symbolize_declaration, and attr_handle_type when the node is left. *)
VisitDeclaration ==
  LET n == Next_node
      d == declared(n)
      sym == NewSymbol(n, {})
  IN
  /\ Visiting(VariableTypes)
  /\ Symbolize(n, {})
  /\ IF Symbolized(n, {})
     THEN /\ info' = Extend(info, d, sym)
          /\ attributes' = [attributes EXCEPT ![n] = sym.attributes]
          /\ type_name' = [type_name EXCEPT ![d] = sym.type_name,
                                            ![n] = sym.type_name]
          /\ Fine
     ELSE Report(1) /\ UNCHANGED <<info, attributes, type_name>>
  /\ Call(<<>>)
  /\ UNCHANGED <<ast, member, typeid_table, current_function, crashed>>

VisitVoid ==
  /\ Visiting({"TOK_VOID"})
  /\ Report(1)
  /\ Call(<<>>)
  /\ UNCHANGED <<scopeVars, ast, attributes, type_name, info, member,
                 typeid_table, current_function, crashed>>

-----------------------------------------------------------------------------
(* Structures. *)

(* The fields of structure n that symbolize_declaration has no symbol for: *)
(* void ones, and those whose name an earlier field has.                   *)
BadFields(n) ==
  {i \in 1..arity(n) - 1 :
     \/ ~ IsLegal(child(n, i), {"field"})
     \/ \E j \in 1..i - 1 : lexinfo(declared(child(n, j)))
                              = lexinfo(declared(child(n, i)))}

(* handle_structure.  A bad field is reported, and then its null symbol is *)
(* dereferenced (semantics.cpp:83); the fields before it are not recorded, *)
(* because nothing reads them any more.                                    *)
VisitStruct ==
  LET n == Next_node
      name == lexinfo(child(n, 0))
      fields == {declared(child(n, i)) : i \in 1..arity(n) - 1}
      sym(d) == NewSymbol(parent(d), {"field"})
  IN
  /\ Visiting({"TOK_STRUCT"})
  /\ CASE Depth # 1 \/ name \in DOMAIN typeid_table ->
            /\ Report(1)
            /\ UNCHANGED <<type_name, info, member, typeid_table, crashed>>
       [] Depth = 1 /\ name \notin DOMAIN typeid_table /\ BadFields(n) # {} ->
            /\ Report(1)
            /\ crashed' = TRUE
            /\ UNCHANGED <<type_name, info, member, typeid_table>>
       [] OTHER ->
            /\ typeid_table' =
                 Extend(typeid_table, name,
                        [x \in {lexinfo(d) : d \in fields} |->
                           CHOOSE d \in fields : lexinfo(d) = x])
            /\ info' = [d \in DOMAIN info \cup fields |->
                          IF d \in fields THEN sym(d) ELSE info[d]]
            /\ member' = [u \in Node |-> IF u \in fields THEN u ELSE member[u]]
            /\ type_name' = [u \in Node |-> IF u \in fields
                                            THEN sym(u).type_name
                                            ELSE type_name[u]]
            /\ Fine
            /\ UNCHANGED crashed
  /\ Call(<<>>)
  /\ UNCHANGED <<scopeVars, ast, attributes, current_function>>

-----------------------------------------------------------------------------
(* Functions. *)

GlobalSymbol(name) == find_symbol_in_table(TableAt(1), name)

(* A prototype of a name that is declared already is only compared.        *)
Redeclare(n, prev) ==
  /\ IF typecheck_compare_functions(Prototype(prev), n) THEN Fine ELSE Report(1)
  /\ Call(<<>>)
  /\ UNCHANGED <<scopeVars, info, type_name, current_function>>

(* Nothing can be made of the declaration: two errors, and the body is not *)
(* looked at.                                                              *)
SkipFunction ==
  /\ Report(2)
  /\ Call(<<>>)
  /\ UNCHANGED <<scopeVars, info, type_name, current_function>>

(* From a new symbol, or the one of the prototype, to the loop over the    *)
(* parameters.                                                             *)
EnterFunction(n, prev) ==
  LET d == declared(child(n, 0))
      sym == NewSymbol(child(n, 0), {"function"})
  IN
  /\ BeginFunction(d, lexinfo(d))
  /\ IF prev = NULL
     THEN /\ info' = Extend(info, d, sym)
          /\ type_name' = [type_name EXCEPT ![d] = sym.type_name]
          /\ Fine
     ELSE /\ info' = [info EXCEPT ![prev].params = <<>>,
                                  ![prev].fnblock = NULL]
          /\ IF typecheck_compare_functions(Prototype(prev), n) THEN Fine
             ELSE Report(1)
          /\ UNCHANGED type_name
  /\ current_function' = lexinfo(d)
  /\ Call(<<[node |-> n, next |-> 2], Frame(child(n, 1))>>)

(* handle_function. *)
VisitFunction ==
  LET n == Next_node
      prev == GlobalSymbol(lexinfo(declared(child(n, 0))))
      global == Depth = 1
      again == symbol(n) = "TOK_PROTOTYPE" /\ prev # NULL
      bad == \/ ~ IsLegal(child(n, 0), {"function"})
             \/ prev # NULL /\ info[prev].fnblock # NULL
  IN
  /\ Visiting({"TOK_FUNCTION", "TOK_PROTOTYPE"})
  /\ CASE ~ global -> /\ Report(1)
                      /\ Call(<<>>)
                      /\ UNCHANGED <<scopeVars, info, type_name,
                                     current_function>>
       [] global /\ again -> Redeclare(n, prev)
       [] global /\ ~ again /\ bad -> SkipFunction
       [] OTHER -> EnterFunction(n, prev)
  /\ UNCHANGED <<ast, attributes, member, typeid_table, crashed>>

(* One iteration of the loop over the parameters.  What is no symbol goes  *)
(* into the list as a null pointer.                                        *)
DeclareParam ==
  LET n == Next_node
      d == declared(n)
      f == GlobalSymbol(current_function)
      sym == NewSymbol(n, {"param"})
      With(p) == [info EXCEPT ![f].params = Append(@, p)]
  IN
  /\ Running /\ HasNext /\ symbol(Caller.node) = "TOK_PARAMLIST"
  /\ Symbolize(n, {"param"})
  /\ IF Symbolized(n, {"param"})
     THEN /\ info' = Extend(With(d), d, sym)
          /\ type_name' = [type_name EXCEPT ![d] = sym.type_name]
          /\ Fine
     ELSE /\ info' = With(NULL)
          /\ Report(1)
          /\ UNCHANGED type_name
  /\ Call(<<>>)
  /\ UNCHANGED <<ast, attributes, member, typeid_table, current_function,
                 crashed>>

(* Bug: the symbol of a function is not told of its body. *)
EndParamsWithoutBody ==
  /\ Returning({"TOK_PARAMLIST"})
  /\ Return
  /\ UNCHANGED <<scopeVars, ast, attributes, type_name, info, member,
                 typeid_table, current_function, semantic_errors, reported,
                 crashed>>

(* The parameters are done; from here on a further definition of the       *)
(* function is a duplicate.                                                *)
EndParams ==
  LET n == parent(Caller.node)
      f == GlobalSymbol(current_function)
  IN
  /\ Returning({"TOK_PARAMLIST"})
  /\ info' = IF symbol(n) = "TOK_FUNCTION"
             THEN [info EXCEPT ![f].fnblock = child(n, 2)] ELSE info
  /\ Return
  /\ UNCHANGED <<scopeVars, ast, attributes, type_name, member, typeid_table,
                 current_function, semantic_errors, reported, crashed>>

(* Bug: the block of the parameters stays open. *)
EndFunctionInBlock ==
  /\ Returning({"TOK_FUNCTION", "TOK_PROTOTYPE"})
  /\ current_function' = NULL
  /\ Return
  /\ UNCHANGED <<scopeVars, ast, attributes, type_name, info, member,
                 typeid_table, semantic_errors, reported, crashed>>

EndFunction ==
  /\ Returning({"TOK_FUNCTION", "TOK_PROTOTYPE"})
  /\ LeaveBlock
  /\ current_function' = NULL
  /\ Return
  /\ UNCHANGED <<ast, attributes, type_name, info, member, typeid_table,
                 semantic_errors, reported, crashed>>

-----------------------------------------------------------------------------
(* Statements and expressions. *)

Special == VariableTypes \cup {"TOK_VOID", "TOK_STRUCT", "TOK_FUNCTION",
                               "TOK_PROTOTYPE"}

(* dfs_traverse of a node whose children come first. *)
VisitNode ==
  /\ Running /\ HasNext /\ symbol(Caller.node) # "TOK_PARAMLIST"
  /\ symbol(Next_node) \notin Special
  /\ IF symbol(Next_node) = "TOK_BLOCK" THEN EnterBlock ELSE UNCHANGED scopeVars
  /\ Call(<<Frame(Next_node)>>)
  /\ UNCHANGED <<ast, attributes, type_name, info, member, typeid_table,
                 current_function, semantic_errors, reported, crashed>>

(* process_node of an identifier. *)
LeaveIdent ==
  LET n == Caller.node
      d == find_symbol(lexinfo(n))
  IN
  /\ Returning({"TOK_IDENT"})
  /\ UseSymbol(n, lexinfo(n))
  /\ IF d = NULL THEN Report(1) /\ UNCHANGED type_name
     ELSE Fine /\ type_name' = [type_name EXCEPT ![n] = info[d].type_name]
  /\ Return
  /\ UNCHANGED <<ast, attributes, info, member, typeid_table, current_function,
                 crashed>>

(* typeid_table_field_select, then attr_handle_field_selector. *)
LeaveSelector ==
  LET n == Caller.node
      t == type_name[child(n, 0)]
      u == child(n, 1)
      known == /\ t \in DOMAIN typeid_table
               /\ lexinfo(u) \in DOMAIN typeid_table[t]
      field == typeid_table[t][lexinfo(u)]
      res == attr_handle_field_selector(
               get_node_attributes(child(n, 0)),
               IF known THEN info[field].attributes ELSE attributes[u],
               IF known THEN info[field].type_name ELSE type_name[u])
  IN
  /\ Returning({"."})
  /\ IF known
     THEN /\ member' = [member EXCEPT ![n] = field, ![u] = field]
          /\ type_name' = [type_name EXCEPT ![u] = res.type_name,
                                            ![n] = res.type_name]
          /\ Tell(res)
     ELSE /\ Count(IF res.ok THEN 1 ELSE 2, TRUE)
          /\ UNCHANGED <<member, type_name>>
  /\ attributes' = [attributes EXCEPT ![n] = res.attributes]
  /\ Return
  /\ UNCHANGED <<scopeVars, ast, info, typeid_table, current_function, crashed>>

(* The type of an allocator is processed with it, not traversed. *)
ElementType(n) ==
  LET e == child(n, 0) IN
  [attributes |-> IF symbol(e) = "TOK_VOID" THEN {}
                  ELSE node_generate_attributes(symbol(e), FALSE, {}),
   type_name  |-> IF symbol(e) = "TOK_TYPEID" THEN lexinfo(e) ELSE NULL]

LeaveAllocator ==
  LET n == Caller.node
      e == ElementType(n)
      res == IF symbol(n) = "TOK_NEW"
             THEN attr_handle_new(e.attributes, e.type_name)
             ELSE attr_handle_newarray(e.attributes, e.type_name,
                                       get_node_attributes(child(n, 1)))
      unknown == symbol(n) = "TOK_NEW" /\ e.type_name \notin DOMAIN typeid_table
  IN
  /\ Returning({"TOK_NEW", "TOK_NEWARRAY"})
  /\ attributes' = [attributes EXCEPT ![child(n, 0)] = e.attributes,
                                      ![n] = res.attributes]
  /\ type_name' = [type_name EXCEPT ![child(n, 0)] = e.type_name,
                                    ![n] = res.type_name]
  /\ IF unknown THEN Report(1) ELSE Tell(res)
  /\ Return
  /\ UNCHANGED <<scopeVars, ast, info, member, typeid_table, current_function,
                 crashed>>

(* attr_handle_call.  It compares the arguments with the parameters in     *)
(* order, and a parameter that is no symbol is dereferenced.               *)
LeaveCall ==
  LET n == Caller.node
      f == symentry[child(n, 0)]
      args == [i \in 1..arity(n) - 1 |-> get_node_attributes(child(n, i))]
      params == info[f].params
      res == attr_handle_call(info[f].attributes, info[f].type_name,
                              [i \in DOMAIN params |->
                                 IF params[i] = NULL THEN {}
                                 ELSE info[params[i]].attributes], args)
      broken == /\ Len(params) = Len(args)
                /\ \E i \in DOMAIN params : params[i] = NULL
  IN
  /\ Returning({"TOK_CALL"})
  /\ CASE f = NULL ->
            /\ Tell(Silent)
            /\ UNCHANGED <<attributes, type_name, crashed>>
       [] f # NULL /\ broken ->
            /\ crashed' = TRUE
            /\ UNCHANGED <<attributes, type_name, semantic_errors, reported>>
       [] OTHER ->
            /\ Tell(res)
            /\ attributes' = [attributes EXCEPT ![n] = res.attributes]
            /\ type_name' = [type_name EXCEPT ![n] = res.type_name]
            /\ UNCHANGED crashed
  /\ Return
  /\ UNCHANGED <<scopeVars, ast, info, member, typeid_table, current_function>>

FunctionAttributes ==
  IF current_function = NULL THEN NULL
  ELSE info[GlobalSymbol(current_function)].attributes

(* process_attributes of the nodes that have no step of their own above.   *)
process_attributes(n) ==
  LET op == symbol(n)
      a(i) == get_node_attributes(child(n, i))
      t(i) == type_name[child(n, i)]
  IN
  CASE op \in {"+", "-", "*", "/", "%"} -> attr_handle_binop(a(0), a(1))
    [] op \in {"TOK_POS", "TOK_NEG", "!", "TOK_ORD", "TOK_CHR"} ->
         attr_handle_unop(op, a(0))
    [] op \in {"TOK_LE", "TOK_EQ", "TOK_GE", "TOK_NE", ">", "<"} ->
         attr_handle_comparison(op, a(0), a(1))
    [] op = "TOK_NEWSTRING" -> attr_handle_newstring(a(0))
    [] op \in {"TOK_INTCON", "TOK_STRINGCON", "TOK_CHARCON", "TOK_FALSE",
               "TOK_TRUE", "TOK_NULL"} -> attr_handle_constant(op)
    [] op = "TOK_INDEX" -> attr_handle_index(a(0), t(0), a(1))
    [] op = "=" -> attr_handle_assignment(a(0), a(1), t(1))
    [] op \in {"TOK_WHILE", "TOK_IF", "TOK_IFELSE"} ->
         attr_handle_conditional(a(0))
    [] op = "TOK_RETURN" -> attr_handle_return(FunctionAttributes, a(0))
    [] op = "TOK_RETURNVOID" -> attr_handle_returnvoid(FunctionAttributes)
    [] op = "TOK_VARDECL" -> attr_handle_vardecl(a(0), a(1))
    [] OTHER -> Result({}, NULL, Pass)

(* process_node of any other node, and leave_block of a block. *)
LeaveNode ==
  LET n == Caller.node
      res == process_attributes(n)
  IN
  /\ Running /\ ~ HasNext
  /\ symbol(n) \notin {"TOK_PARAMLIST", "TOK_FUNCTION", "TOK_PROTOTYPE",
                       "TOK_IDENT", ".", "TOK_NEW", "TOK_NEWARRAY", "TOK_CALL"}
  /\ attributes' = [attributes EXCEPT ![n] = res.attributes]
  /\ type_name' = [type_name EXCEPT ![n] = res.type_name]
  /\ Tell(res)
  /\ IF symbol(n) = "TOK_BLOCK" THEN LeaveBlock ELSE UNCHANGED scopeVars
  /\ Return
  /\ UNCHANGED <<ast, info, member, typeid_table, current_function, crashed>>

-----------------------------------------------------------------------------

Init ==
  /\ ScopesInit
  /\ ast \in Programs
  /\ calls = <<Frame(1)>>
  /\ attributes = [n \in Node |-> {}]
  /\ type_name = [n \in Node |-> NULL]
  /\ info = [d \in {} |-> NULL]
  /\ member = [n \in Node |-> NULL]
  /\ typeid_table = [t \in {} |-> NULL]
  /\ current_function = NULL
  /\ semantic_errors = 0
  /\ reported = FALSE
  /\ crashed = FALSE

Next ==
  \/ VisitDeclaration \/ VisitVoid \/ VisitStruct \/ VisitFunction
  \/ DeclareParam \/ EndParams \/ EndFunction
  \/ VisitNode \/ LeaveIdent \/ LeaveSelector \/ LeaveAllocator \/ LeaveCall
  \/ LeaveNode

(* The pass is one thread that nothing can block. *)
Spec == Init /\ [][Next]_vars /\ WF_vars(Next)

-----------------------------------------------------------------------------

Analysed == calls = <<>> /\ ~ crashed

(* oc_run_semantics returns 0: the program goes to the emitter. *)
Accepted == Analysed /\ semantic_errors = 0
=============================================================================
