----------------------------- MODULE TypeCheck -----------------------------
(***************************************************************************)
(* The rules of typecheck.cpp as operators on sets of attributes.  A check *)
(* says whether it holds (ok) and whether it printed a diagnostic (said):  *)
(* the two differ where the code stays quiet because the cause of the      *)
(* failure must have been reported already.                                *)
(***************************************************************************)
EXTENDS Integers, Sequences

CONSTANT NULL   \* no type name

Base == {"void", "bool", "char", "int", "null", "string", "struct"}
Attr == Base \cup {"array", "function", "variable", "field", "typeid",
                   "param", "lval", "const", "vreg", "vaddr"}

PRIMITIVE == {"int", "char", "bool"}
REFERENCE == {"string", "array", "struct", "null"}
ANY == PRIMITIVE \cup REFERENCE
BASE == PRIMITIVE \cup {"struct", "string"}

-----------------------------------------------------------------------------
(* Checks. *)

Pass == [ok |-> TRUE, said |-> FALSE]
Complain == [ok |-> FALSE, said |-> TRUE]
Silent == [ok |-> FALSE, said |-> FALSE]

Check(holds) == IF holds THEN Pass ELSE Complain

(* CONDRETURN: every check is made. *)
All(checks) == [ok   |-> \A i \in DOMAIN checks : checks[i].ok,
                said |-> \E i \in DOMAIN checks : checks[i].said]

(* The && of the code: the second check is made if the first holds. *)
AndThen(c1, c2) == IF c1.ok THEN c2 ELSE c1

attr_check_required(a, required) == Check(required \subseteq a)
attr_check_notallowed(a, notallowed) == Check(notallowed \cap a = {})
attr_check_any(a, sets) == Check(sets \cap a # {})

Compatible(a, b) ==
  \/ a \cap ANY = b \cap ANY
  \/ a \cap REFERENCE # {} /\ "null" \in b
  \/ b \cap REFERENCE # {} /\ "null" \in a

(* Bug: a mismatch is never reported. *)
CompatibleOrSilent(a, b) == IF Compatible(a, b) THEN Pass ELSE Silent

(* Two types that are both known and do not fit are reported. *)
attr_check_compatible(a, b) ==
  IF Compatible(a, b) THEN Pass
  ELSE IF a # {} /\ b # {} THEN Complain
  ELSE Silent

-----------------------------------------------------------------------------
(* The handlers: the attributes and type name a node gets, and whether it  *)
(* is right.  a, b, t stand for the attributes and the type name of its    *)
(* children.                                                               *)

Result(attributes, type_name, check) ==
  [attributes |-> attributes, type_name |-> type_name,
   ok |-> check.ok, said |-> check.said]

IsInt(a) == <<attr_check_required(a, {"int"}),
              attr_check_notallowed(a, {"array"})>>

attr_handle_binop(a, b) ==
  Result({"int", "vreg"}, NULL, All(IsInt(a) \o IsInt(b)))

unop_childtype(op) == CASE op \in {"TOK_NEG", "TOK_POS", "TOK_CHR"} -> "int"
                        [] op = "TOK_ORD" -> "char"
                        [] op = "!" -> "bool"

unop_proptype(op) == CASE op \in {"TOK_NEG", "TOK_POS", "TOK_ORD"} -> "int"
                       [] op = "TOK_CHR" -> "char"
                       [] op = "!" -> "bool"

attr_handle_unop(op, a) ==
  Result({"vreg", unop_proptype(op)}, NULL,
         All(<<attr_check_required(a, {unop_childtype(op)}),
               attr_check_notallowed(a, {"array"})>>))

attr_handle_comparison(op, a, b) ==
  Result({"bool", "vreg"}, NULL,
         IF op \in {"TOK_EQ", "TOK_NE"}
         THEN All(<<attr_check_compatible(a, b),
                    attr_check_any(a, ANY), attr_check_any(b, ANY)>>)
         ELSE All(<<attr_check_compatible(a, b),
                    attr_check_any(a, PRIMITIVE), attr_check_any(b, PRIMITIVE),
                    attr_check_notallowed(b, {"array"}),
                    attr_check_notallowed(a, {"array"})>>))

attr_handle_new(a, t) == Result(a \cup {"vreg"}, t, Pass)

attr_handle_newarray(a, t, size) ==
  Result((a \cap BASE) \cup {"array", "vreg"}, t,
         AndThen(attr_check_required(size, {"int"}),
                 attr_check_notallowed(size, {"array"})))

attr_handle_newstring(size) ==
  Result({"string", "vreg"}, NULL,
         AndThen(attr_check_required(size, {"int"}),
                 attr_check_notallowed(size, {"array"})))

attr_compare_params(a, param) ==
  All(<<attr_check_compatible(a, param), attr_check_any(a, ANY)>>)

(* A call of a symbol with the given attributes and type name, whose       *)
(* parameters have the attributes in params.                               *)
attr_handle_call(func, t, params, args) ==
  IF Len(args) # Len(params) THEN Result({}, NULL, Complain)
  ELSE Result((func \cup {"vreg"}) \ {"function"}, t,
              All([i \in DOMAIN args |->
                     attr_compare_params(args[i], params[i])]))

constant_type(token) == CASE token \in {"TOK_FALSE", "TOK_TRUE"} -> "bool"
                          [] token = "TOK_STRINGCON" -> "string"
                          [] token = "TOK_CHARCON" -> "char"
                          [] token = "TOK_INTCON" -> "int"
                          [] token = "TOK_NULL" -> "null"

attr_handle_constant(token) ==
  Result({constant_type(token), "const"}, NULL, Pass)

(* Bug: the elements of the array may be anything. *)
IndexAnything(a, t, b) ==
  CASE "array" \in a ->
         Result({"lval", "vaddr"} \cup (a \cap BASE), t, All(IsInt(b)))
    [] "array" \notin a /\ "string" \in a ->
         Result({"char", "vaddr", "lval"}, NULL, Pass)
    [] OTHER -> Result({"char", "vaddr", "lval"}, NULL, Complain)

(* The index of a string is not looked at, unlike that of an array. *)
attr_handle_index(a, t, b) ==
  CASE "array" \in a ->
         Result({"lval", "vaddr"} \cup (a \cap BASE), t,
                All(IsInt(b) \o <<attr_check_any(a, BASE)>>))
    [] "array" \notin a /\ "string" \in a ->
         Result({"char", "vaddr", "lval"}, NULL, Pass)
    [] a = {} -> Result({"vaddr", "lval"}, NULL, Silent)
    [] OTHER -> Result({"char", "vaddr", "lval"}, NULL, Complain)

attr_handle_field_selector(a, field, t) ==
  Result({"vaddr", "lval"} \cup (field \cap ANY), t,
         All(<<attr_check_required(a, {"struct"}),
               attr_check_required(field, {"field"})>>))

attr_handle_assignment(a, b, t) ==
  Result((b \cap ANY) \cup {"vreg"}, t,
         All(<<attr_check_required(a, {"lval"}), attr_check_compatible(a, b),
               attr_check_any(a, ANY), attr_check_any(b, ANY)>>))

attr_handle_vardecl(a, b) ==
  Result({}, NULL,
         All(<<attr_check_compatible(a, b), attr_check_any(a, ANY),
               attr_check_any(b, ANY), attr_check_required(a, {"lval"})>>))

attr_handle_conditional(a) ==
  Result({}, NULL, AndThen(attr_check_required(a, {"bool"}),
                           attr_check_notallowed(a, {"array"})))

(* A return in a function with the given attributes, or outside of any. *)
attr_handle_returnvoid(func) ==
  Result({}, NULL, Check(func = NULL \/ "void" \in func))

attr_handle_return(func, a) ==
  Result({}, NULL,
         IF func = NULL THEN Complain
         ELSE AndThen(attr_check_compatible(a, func), attr_check_any(a, ANY)))

-----------------------------------------------------------------------------
(* Declared types. *)

tok_basetype_to_attr(token) ==
  CASE token = "TOK_INT" -> "int"
    [] token = "TOK_CHAR" -> "char"
    [] token = "TOK_BOOL" -> "bool"
    [] token = "TOK_TYPEID" -> "struct"
    [] token = "TOK_VOID" -> "void"
    [] token = "TOK_STRING" -> "string"

(* node_generate_attributes fails for void, unless a function returns it.  *)
LegalType(base, array, initial) ==
  base = "TOK_VOID" => ~ array /\ "function" \in initial

node_generate_attributes(base, array, initial) ==
  initial \cup {tok_basetype_to_attr(base)}
          \cup (IF array THEN {"array"} ELSE {})
          \cup (IF {"function", "field"} \cap initial = {}
                THEN {"variable"} ELSE {})
=============================================================================
