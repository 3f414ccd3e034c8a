-------------------------- MODULE AcceptanceProofs --------------------------
(***************************************************************************)
(* What it means that the semantic pass accepts a program, for every       *)
(* program that the parser builds: every expression has one base type, and *)
(* every name that the emitter mangles has a symbol, except that of a      *)
(* function which was declared before; every returned value fits the type  *)
(* of the function around it; and every call fits the parameters of the    *)
(* definition that it calls.                                               *)
(***************************************************************************)
EXTENDS DiagnosisProofs

-----------------------------------------------------------------------------
(* The types of expressions that are right.                                *)

Single(a) == \E b \in Base : a \cap Base = {b}

(* One base type, a structure's has a name, no variable or field is void   *)
(* or null, and no array is void.                                          *)
Proper(a, t) ==
  /\ Single(a)
  /\ "struct" \in a => t # NULL
  /\ a \cap {"void", "null"} # {} => a \cap {"lval", "field"} = {}
  /\ "array" \in a => "void" \notin a

(* The attributes of new void[n]. *)
VoidArrayType == {"array", "vreg"}

LEMMA SingleIsOne ==
  ASSUME NEW a, Single(a)
  PROVE  Cardinality(a \cap Base) = 1
<1>1. PICK b \in Base : a \cap Base = {b}
  BY DEF Single
<1> QED BY <1>1, FS_Singleton

LEMMA FixedSound ==
  ASSUME NEW b \in Base \ {"struct", "void"}, NEW c, c \cap Base = {}, NEW t,
         b = "null" => c \cap {"lval", "field"} = {}
  PROVE  Proper(c \cup {b}, t)
<1>1. (c \cup {b}) \cap Base = {b}
  OBVIOUS
<1>2. c \cap {"struct", "void", "null"} = {}
  BY DEF Base
<1> QED BY <1>1, <1>2 DEF Proper, Single

(* What a check that holds says. *)
LEMMA HoldingChecks ==
  ASSUME NEW a, NEW s
  PROVE  /\ attr_check_required(a, s).ok => s \subseteq a
         /\ attr_check_any(a, s).ok => s \cap a # {}
         /\ attr_check_notallowed(a, s).ok => s \cap a = {}
BY DEF attr_check_required, attr_check_any, attr_check_notallowed, Check,
       Pass, Complain

LEMMA CompatibleHolds ==
  ASSUME NEW a, NEW b, attr_check_compatible(a, b).ok
  PROVE  Compatible(a, b)
BY DEF attr_check_compatible, Pass, Complain, Silent

LEMMA ResultIs ==
  ASSUME NEW A, NEW t, NEW c
  PROVE  /\ Result(A, t, c).attributes = A /\ Result(A, t, c).type_name = t
         /\ Result(A, t, c).ok = c.ok
BY DEF Result

LEMMA AllHold ==
  ASSUME NEW c1, NEW c2, NEW c3, NEW c4
  PROVE  /\ All(<<c1, c2>>).ok => c1.ok /\ c2.ok
         /\ All(<<c1, c2, c3, c4>>).ok => c1.ok /\ c2.ok /\ c3.ok /\ c4.ok
<1>1. All(<<c1, c2>>).ok => \A i \in 1..2 : <<c1, c2>>[i].ok
  BY DEF All
<1>2. All(<<c1, c2, c3, c4>>).ok
        => \A i \in 1..4 : <<c1, c2, c3, c4>>[i].ok
  BY DEF All
<1> QED BY <1>1, <1>2

(* Attributes that are taken over. *)
LEMMA KeptSound ==
  ASSUME NEW a, NEW t, Proper(a, t), NEW c, NEW S,
         S \subseteq Base \cup {"array"}, c \cap Base = {}, "array" \notin c,
         a \cap S \cap Base # {},
         \/ a \cap {"lval", "field"} # {} \/ S \cap {"void", "null"} = {}
         \/ c \cap {"lval", "field"} = {}
  PROVE  Proper(c \cup (a \cap S), t)
<1>1. PICK b \in Base : a \cap Base = {b}
  BY DEF Proper, Single
<1>2. (c \cup (a \cap S)) \cap Base = {b}
  BY <1>1
<1>3. c \cap {"struct", "void", "null"} = {}
  BY DEF Base
<1>4. S \cap {"lval", "field"} = {}
  BY DEF Base
<1> QED BY <1>1, <1>2, <1>3, <1>4 DEF Proper, Single

LEMMA IndexSound ==
  ASSUME NEW a, NEW t, NEW b, Proper(a, t) \/ a = VoidArrayType,
         attr_handle_index(a, t, b).ok
  PROVE  LET r == attr_handle_index(a, t, b) IN
         Proper(r.attributes, r.type_name)
<1> DEFINE r == attr_handle_index(a, t, b)
<1>1. CASE "array" \in a
  <2> DEFINE c == attr_check_any(a, BASE)
             cs == IsInt(b) \o <<c>>
             A == {"lval", "vaddr"} \cup (a \cap BASE)
  <2>1. r = Result(A, t, All(cs))
    BY <1>1 DEF attr_handle_index
  <2>2. 3 \in DOMAIN cs /\ cs[3] = c
    <3> HIDE DEF c
    <3> QED BY DEF IsInt
  <2>3. r.attributes = A /\ r.type_name = t /\ c.ok
    <3> HIDE DEF c, cs, A
    <3>1. r.attributes = A /\ r.type_name = t /\ All(cs).ok
      BY <2>1, ResultIs
    <3>2. \A i \in DOMAIN cs : cs[i].ok
      BY <3>1 DEF All
    <3> QED BY <2>2, <3>1, <3>2
  <2>4. a \cap BASE # {}
    BY <2>3, HoldingChecks
  <2>5. a # VoidArrayType
    BY <2>4 DEF BASE, PRIMITIVE, VoidArrayType
  <2>6. /\ BASE \subseteq Base \cup {"array"} /\ BASE \cap {"void", "null"} = {}
        /\ {"lval", "vaddr"} \cap Base = {} /\ "array" \notin {"lval", "vaddr"}
        /\ a \cap BASE \cap Base # {}
    BY <2>4 DEF BASE, PRIMITIVE, Base
  <2>7. Proper(A, t)
    BY <2>5, <2>6, KeptSound
  <2> QED BY <2>3, <2>7
<1>2. CASE "array" \notin a
  <2>1. a # {}
    BY DEF Proper, Single, VoidArrayType
  <2>2. r.attributes = {"vaddr", "lval"} \cup {"char"}
    BY <1>2, <2>1 DEF attr_handle_index, Result
  <2>3. /\ "char" \in Base \ {"struct", "void"}
        /\ {"vaddr", "lval"} \cap Base = {}
    BY DEF Base
  <2>4. Proper({"vaddr", "lval"} \cup {"char"}, r.type_name)
    BY <2>3, FixedSound
  <2> QED BY <2>2, <2>4
<1> QED BY <1>1, <1>2

LEMMA AssignmentSound ==
  ASSUME NEW a, NEW b, NEW s, NEW t, Proper(a, s) \/ a = VoidArrayType,
         Proper(b, t) \/ b = VoidArrayType,
         attr_handle_assignment(a, b, t).ok
  PROVE  LET r == attr_handle_assignment(a, b, t) IN
         Proper(r.attributes, r.type_name)
<1> DEFINE r == attr_handle_assignment(a, b, t)
           c1 == attr_check_required(a, {"lval"})
           c2 == attr_check_compatible(a, b)
           c3 == attr_check_any(a, ANY)
           c4 == attr_check_any(b, ANY)
<1>1. /\ r.attributes = (b \cap ANY) \cup {"vreg"} /\ r.type_name = t
      /\ c1.ok /\ c2.ok /\ c3.ok /\ c4.ok
  <2> DEFINE cs == All(<<c1, c2, c3, c4>>)
  <2>1. r = Result((b \cap ANY) \cup {"vreg"}, t, cs)
    BY DEF attr_handle_assignment
  <2> HIDE DEF c1, c2, c3, c4
  <2>2. cs.ok => c1.ok /\ c2.ok /\ c3.ok /\ c4.ok
    BY AllHold
  <2> HIDE DEF cs
  <2> QED BY <2>1, <2>2, ResultIs
<1>2. "lval" \in a /\ Compatible(a, b) /\ ANY \cap b # {}
  BY <1>1, HoldingChecks, CompatibleHolds
<1>3. a # VoidArrayType /\ Proper(a, s)
  BY <1>2 DEF VoidArrayType
<1>4. "void" \notin a /\ "null" \notin a
  BY <1>2, <1>3 DEF Proper
<1>5. PICK x \in Base : a \cap Base = {x}
  BY <1>3 DEF Proper, Single
<1>6. x \in ANY /\ x \in a \cap ANY /\ x # "array"
  BY <1>4, <1>5 DEF Base, ANY, PRIMITIVE, REFERENCE
<1>7. b # VoidArrayType
  <2> SUFFICES ASSUME b = VoidArrayType PROVE FALSE
    OBVIOUS
  <2>1. b \cap ANY = {"array"} /\ "null" \notin b
    BY DEF VoidArrayType, ANY, PRIMITIVE, REFERENCE
  <2>2. a \cap ANY # b \cap ANY
    BY <1>6, <2>1
  <2>3. b \cap REFERENCE = {"array"}
    BY DEF VoidArrayType, REFERENCE
  <2> QED BY <1>2, <1>4, <2>1, <2>2 DEF Compatible
<1>8. Proper(b, t)
  BY <1>7
<1>9. b \cap ANY \cap Base # {}
  <2>1. PICK y \in Base : b \cap Base = {y}
    BY <1>8 DEF Proper, Single
  <2>2. ANY = (Base \ {"void"}) \cup {"array"}
    BY DEF ANY, PRIMITIVE, REFERENCE, Base
  <2>3. y # "void"
    <3> SUFFICES ASSUME y = "void" PROVE FALSE
      OBVIOUS
    <3>1. "void" \in b /\ "array" \notin b
      BY <1>8, <2>1 DEF Proper
    <3> QED BY <1>2, <2>1, <2>2, <3>1
  <2> QED BY <2>1, <2>2, <2>3
<1>10. /\ ANY \subseteq Base \cup {"array"} /\ {"vreg"} \cap Base = {}
       /\ {"vreg"} \cap {"lval", "field"} = {} /\ "array" \notin {"vreg"}
  BY DEF ANY, PRIMITIVE, REFERENCE, Base
<1>11. Proper({"vreg"} \cup (b \cap ANY), t)
  BY <1>8, <1>9, <1>10, KeptSound
<1>12. (b \cap ANY) \cup {"vreg"} = {"vreg"} \cup (b \cap ANY)
  OBVIOUS
<1> QED BY <1>1, <1>11, <1>12

LEMMA SelectorSound ==
  ASSUME NEW a, NEW field, NEW t, Proper(field, t),
         attr_handle_field_selector(a, field, t).ok
  PROVE  LET r == attr_handle_field_selector(a, field, t) IN
         Proper(r.attributes, r.type_name)
<1> DEFINE r == attr_handle_field_selector(a, field, t)
           c1 == attr_check_required(a, {"struct"})
           c2 == attr_check_required(field, {"field"})
           A == {"vaddr", "lval"} \cup (field \cap ANY)
<1>1. r.attributes = A /\ r.type_name = t /\ c2.ok
  <2> DEFINE cs == All(<<c1, c2>>)
  <2>1. r = Result(A, t, cs)
    BY DEF attr_handle_field_selector
  <2> HIDE DEF c1, c2
  <2>2. cs.ok => c2.ok
    BY AllHold
  <2> HIDE DEF cs, A
  <2> QED BY <2>1, <2>2, ResultIs
<1>2. "field" \in field
  BY <1>1, HoldingChecks
<1>3. PICK x \in Base : field \cap Base = {x}
  BY DEF Proper, Single
<1>4. "void" \notin field
  BY <1>2 DEF Proper
<1>5. /\ ANY = (Base \ {"void"}) \cup {"array"}
      /\ {"vaddr", "lval"} \cap Base = {} /\ "array" \notin {"vaddr", "lval"}
  BY DEF ANY, PRIMITIVE, REFERENCE, Base
<1>6. field \cap ANY \cap Base # {}
  BY <1>3, <1>4, <1>5
<1>7. field \cap {"lval", "field"} # {}
  BY <1>2
<1> HIDE DEF r
<1>8. Proper(A, t)
  BY <1>5, <1>6, <1>7, KeptSound
<1> QED BY <1>1, <1>8 DEF r

LEMMA CallSound ==
  ASSUME NEW func, NEW t, Proper(func, t), NEW params, NEW args,
         attr_handle_call(func, t, params, args).ok
  PROVE  LET r == attr_handle_call(func, t, params, args) IN
         Proper(r.attributes, r.type_name)
<1> DEFINE r == attr_handle_call(func, t, params, args)
           A == (func \cup {"vreg"}) \ {"function"}
           c == All([i \in DOMAIN args |->
                       attr_compare_params(args[i], params[i])])
<1>1. r = Result(A, t, c)
  <2>1. CASE Len(args) # Len(params)
    BY <2>1, ResultIs DEF attr_handle_call, Complain
  <2>2. CASE Len(args) = Len(params)
    BY <2>2 DEF attr_handle_call
  <2> QED BY <2>1, <2>2
<1>2. /\ A \cap Base = func \cap Base
      /\ A \cap {"lval", "field"} = func \cap {"lval", "field"}
      /\ A \cap {"void", "null"} = func \cap {"void", "null"}
      /\ "struct" \in A <=> "struct" \in func
      /\ "array" \in A <=> "array" \in func
      /\ "void" \in A <=> "void" \in func
  BY DEF Base
<1> HIDE DEF A, c
<1>3. r.attributes = A /\ r.type_name = t
  BY <1>1, ResultIs
<1>4. Proper(A, t)
  BY <1>2 DEF Proper, Single
<1> HIDE DEF r
<1> QED BY <1>3, <1>4 DEF r

(* Those whose type is the same whatever their operands are. *)
LEMMA OperatorsSound ==
  ASSUME NEW op, NEW a, NEW b, NEW t, NEW token \in Constants, NEW u \in Unops
  PROVE  /\ Proper(attr_handle_binop(a, b).attributes, t)
         /\ Proper(attr_handle_unop(u, a).attributes, t)
         /\ Proper(attr_handle_comparison(op, a, b).attributes, t)
         /\ Proper(attr_handle_newstring(a).attributes, t)
         /\ Proper(attr_handle_constant(token).attributes, t)
<1>1. /\ {"vreg"} \cap Base = {} /\ {"const"} \cap Base = {}
      /\ {"const"} \cap {"lval", "field"} = {}
  BY DEF Base
<1> DEFINE Plain == {"int", "bool", "char", "string"}
<1>2. \A x \in Plain : x \in Base \ {"struct", "void"} /\ x # "null"
  BY DEF Base
<1>3. \A x \in Plain : Proper({"vreg"} \cup {x}, t)
  <2> HIDE DEF Plain
  <2> QED BY <1>1, <1>2, FixedSound
<1>4. \A x \in Plain :
        {x, "vreg"} = {"vreg"} \cup {x} /\ {"vreg", x} = {x, "vreg"}
  OBVIOUS
<1>5. \A x \in Plain : Proper({x, "vreg"}, t) /\ Proper({"vreg", x}, t)
  <2> HIDE DEF Plain
  <2> SUFFICES ASSUME NEW x \in Plain
               PROVE  Proper({x, "vreg"}, t) /\ Proper({"vreg", x}, t)
    OBVIOUS
  <2>1. Proper({"vreg"} \cup {x}, t)
    BY <1>3
  <2>2. {x, "vreg"} = {"vreg"} \cup {x} /\ {"vreg", x} = {"vreg"} \cup {x}
    BY <1>4
  <2> QED BY <2>1, <2>2
<1>6. Proper(attr_handle_binop(a, b).attributes, t)
  <2>1. attr_handle_binop(a, b).attributes = {"int", "vreg"}
    BY ResultIs DEF attr_handle_binop
  <2> QED BY <1>5, <2>1
<1>7. Proper(attr_handle_unop(u, a).attributes, t)
  <2>1. attr_handle_unop(u, a).attributes = {"vreg", unop_proptype(u)}
    BY ResultIs DEF attr_handle_unop
  <2>2. unop_proptype(u) \in Plain
    BY DEF unop_proptype, Unops
  <2> HIDE DEF Plain
  <2> QED BY <1>5, <2>1, <2>2
<1>8. Proper(attr_handle_comparison(op, a, b).attributes, t)
  <2>1. attr_handle_comparison(op, a, b).attributes = {"bool", "vreg"}
    BY ResultIs DEF attr_handle_comparison
  <2> QED BY <1>5, <2>1
<1>9. Proper(attr_handle_newstring(a).attributes, t)
  <2>1. attr_handle_newstring(a).attributes = {"string", "vreg"}
    BY ResultIs DEF attr_handle_newstring
  <2> QED BY <1>5, <2>1
<1>10. Proper(attr_handle_constant(token).attributes, t)
  <2> DEFINE x == constant_type(token)
  <2>1. attr_handle_constant(token).attributes = {x, "const"}
    BY ResultIs DEF attr_handle_constant
  <2>2. x \in Base \ {"struct", "void"}
    BY DEF constant_type, Constants, Base
  <2> HIDE DEF x
  <2>3. Proper({"const"} \cup {x}, t)
    BY <1>1, <2>2, FixedSound
  <2>4. {x, "const"} = {"const"} \cup {x}
    OBVIOUS
  <2> QED BY <2>1, <2>3, <2>4
<1> QED BY <1>6, <1>7, <1>8, <1>9, <1>10

(* Declared types. *)
LEMMA GeneratedSound ==
  ASSUME NEW base \in TypeName, NEW array \in BOOLEAN,
         NEW initial \in {{}, {"function"}, {"param"}, {"field"}},
         LegalType(base, array, initial), NEW more \in {{}, {"lval"}},
         "function" \in initial => more = {},
         NEW t, base = "TOK_TYPEID" => t # NULL
  PROVE  Proper(node_generate_attributes(base, array, initial) \cup more, t)
<1> DEFINE x == tok_basetype_to_attr(base)
           A == node_generate_attributes(base, array, initial) \cup more
<1>1. /\ x \in Base \ {"null"}
      /\ x = "struct" <=> base = "TOK_TYPEID"
      /\ x = "void" <=> base = "TOK_VOID"
  BY DEF tok_basetype_to_attr, TypeName, Base
<1> HIDE DEF x
<1>2. A = initial \cup {x} \cup (IF array THEN {"array"} ELSE {})
            \cup (IF {"function", "field"} \cap initial = {}
                  THEN {"variable"} ELSE {}) \cup more
  BY DEF node_generate_attributes, x
<1>3. /\ initial \cap Base = {} /\ more \cap Base = {}
      /\ {"array", "variable"} \cap Base = {}
      /\ "array" \notin initial /\ "array" \notin more
  BY DEF Base
<1> HIDE DEF A
<1>4. A \cap Base = {x}
  BY <1>1, <1>2, <1>3
<1>5. x = "void" => ~ array /\ "function" \in initial
  BY <1>1 DEF LegalType
<1>6. "array" \in A => array
  <2>1. x # "array"
    BY <1>1 DEF Base
  <2> QED BY <1>2, <1>3, <2>1
<1>7. "function" \in initial => A \cap {"lval", "field"} = {}
  <2>1. x \notin {"lval", "field"}
    BY <1>1 DEF Base
  <2> SUFFICES ASSUME "function" \in initial
               PROVE  A \cap {"lval", "field"} = {}
    OBVIOUS
  <2>2. more = {} /\ initial = {"function"}
    OBVIOUS
  <2> QED BY <1>2, <2>1, <2>2
<1>8. \A y \in Base : y \in A <=> y = x
  BY <1>4
<1>9. /\ "struct" \in A <=> x = "struct"
      /\ "void" \in A <=> x = "void"
      /\ "null" \notin A
  BY <1>1, <1>8 DEF Base
<1>10. Single(A)
  BY <1>1, <1>4 DEF Single
<1> QED BY <1>1, <1>5, <1>6, <1>7, <1>9, <1>10 DEF Proper, A

LEMMA NewSymbolSound ==
  ASSUME WellFormed(ast, Name), NEW m \in DOMAIN ast,
         NEW what \in {"TOK_DECLID", "TOK_FIELD"}, Declaration(ast, m, what),
         NEW initial \in {{}, {"function"}, {"param"}, {"field"}},
         IsLegal(m, initial)
  PROVE  Proper(NewSymbol(m, initial).attributes,
                NewSymbol(m, initial).type_name)
<1> DEFINE base == symbol(base_type(m))
           array == IsArray(m)
           gen == node_generate_attributes(base, array, initial)
           more == IF {"function", "field"} \cap initial = {}
                   THEN {"lval"} ELSE {}
           t == IF "struct" \in gen THEN lexinfo(base_type(m)) ELSE NULL
<1>1. /\ base \in TypeName /\ array \in BOOLEAN
      /\ base = "TOK_TYPEID" => lexinfo(base_type(m)) \in Name
  BY BaseType DEF IsArray
<1>2. initial \in SUBSET Roles
  BY DEF Roles
<1>3. /\ NewSymbol(m, initial).attributes = gen \cup more
      /\ NewSymbol(m, initial).type_name = t
  BY DEF NewSymbol
<1>4. "struct" \in gen <=> base = "TOK_TYPEID"
  BY <1>1, <1>2, GeneratedAttributes
<1>5. base = "TOK_TYPEID" => t # NULL
  <2> HIDE DEF gen, base
  <2> QED BY <1>1, <1>4, NullAssumption
<1>6. LegalType(base, array, initial)
  BY DEF IsLegal
<1>7. more \in {{}, {"lval"}} /\ ("function" \in initial => more = {})
  OBVIOUS
<1> HIDE DEF base, array, more, t
<1>8. Proper(gen \cup more, t)
  BY <1>1, <1>5, <1>6, <1>7, GeneratedSound
<1> QED BY <1>3, <1>8

-----------------------------------------------------------------------------
(* Symbols are what their declarations say.                                *)

SymbolOf(d, s) ==
  \E m \in DOMAIN ast :
    \E initial \in {{}, {"function"}, {"param"}, {"field"}} :
      \E what \in {"TOK_DECLID", "TOK_FIELD"} :
        /\ Declaration(ast, m, what) /\ d = declared(m) /\ IsLegal(m, initial)
        /\ s.attributes = NewSymbol(m, initial).attributes
        /\ s.type_name = NewSymbol(m, initial).type_name

SymbolsTrue == \A d \in DOMAIN info : SymbolOf(d, info[d])

LEMMA TrueIsProper ==
  ASSUME WellFormed(ast, Name), SymbolsTrue, NEW d \in DOMAIN info
  PROVE  Proper(info[d].attributes, info[d].type_name)
BY NewSymbolSound DEF SymbolsTrue, SymbolOf

(* What symbols that are made or changed are, and what is left as it was. *)
SameSymbol(J, d) ==
  /\ d \in DOMAIN info
  /\ J[d].attributes = info[d].attributes
  /\ J[d].type_name = info[d].type_name

SymbolsGrow(J) ==
  \A d \in DOMAIN J :
    SameSymbol(J, d) \/ (d \notin Declared /\ SymbolOf(d, J[d]))

LEMMA GrowByOne ==
  ASSUME NEW m \in DOMAIN ast, Declaration(ast, m, "TOK_DECLID"),
         NEW initial \in {{}, {"function"}, {"param"}}, IsLegal(m, initial),
         declared(m) \notin Declared, NEW J,
         \A x \in DOMAIN J : SameSymbol(J, x)
  PROVE  SymbolsGrow(Extend(J, declared(m), NewSymbol(m, initial)))
<1> DEFINE d == declared(m)
           s == NewSymbol(m, initial)
           K == Extend(J, d, s)
<1>1. K[d] = s /\ DOMAIN K = DOMAIN J \cup {d}
      /\ \A x \in DOMAIN J : x # d => K[x] = J[x]
  BY DEF Extend
<1>2. SymbolOf(d, s)
  <2> HIDE DEF s
  <2> QED BY DEF SymbolOf, s
<1> HIDE DEF d, s, K
<1>3. ASSUME NEW x \in DOMAIN K, x # d PROVE SameSymbol(K, x)
  BY <1>1, <1>3 DEF SameSymbol
<1>4. d \notin Declared
  BY DEF d
<1> QED BY <1>1, <1>2, <1>3, <1>4 DEF SymbolsGrow, K, d, s

LEMMA SameUpdates ==
  ASSUME InfoTyped, NEW f, NEW b
  PROVE  /\ \A x \in DOMAIN info : SameSymbol(info, x)
         /\ \A x \in DOMAIN info :
              SameSymbol([info EXCEPT ![f].params = Append(@, b)], x)
         /\ \A x \in DOMAIN info :
              SameSymbol([info EXCEPT ![f].params = <<>>,
                                      ![f].fnblock = NULL], x)
         /\ \A x \in DOMAIN info : SameSymbol([info EXCEPT ![f].fnblock = b], x)
<1>1. \A x \in DOMAIN info : info[x] \in Symbol
  BY DEF InfoTyped, Known
<1>2. ASSUME NEW x \in DOMAIN info, NEW s \in Symbol, NEW c
      PROVE  /\ [s EXCEPT !.params = c].attributes = s.attributes
             /\ [s EXCEPT !.params = c].type_name = s.type_name
             /\ [s EXCEPT !.fnblock = c].attributes = s.attributes
             /\ [s EXCEPT !.fnblock = c].type_name = s.type_name
  BY DEF Symbol
<1> QED BY <1>1, <1>2 DEF SameSymbol, Symbol

LEMMA SymbolsArise ==
  ASSUME TraversalInv, DataInv, Next
  PROVE  SymbolsGrow(info')
<1>1. InfoTyped /\ \A x \in DOMAIN info : SameSymbol(info, x)
  BY SameUpdates DEF DataInv
<1>2. ASSUME info' = info PROVE SymbolsGrow(info')
  BY <1>1, <1>2 DEF SymbolsGrow
<1>3. ASSUME \/ info' = info
             \/ \E f, b :
                  \/ info' = [info EXCEPT ![f].params = Append(@, b)]
                  \/ info' = [info EXCEPT ![f].params = <<>>,
                                         ![f].fnblock = NULL]
                  \/ info' = [info EXCEPT ![f].fnblock = b]
      PROVE  SymbolsGrow(info')
  <2>1. CASE info' = info
    BY <1>2, <2>1
  <2>2. ASSUME NEW f, NEW b, info' = [info EXCEPT ![f].params = Append(@, b)]
        PROVE  SymbolsGrow(info')
    BY <1>1, <2>2, SameUpdates DEF SymbolsGrow
  <2>3. ASSUME NEW f, info' = [info EXCEPT ![f].params = <<>>,
                                           ![f].fnblock = NULL]
        PROVE  SymbolsGrow(info')
    BY <1>1, <2>3, SameUpdates DEF SymbolsGrow
  <2>4. ASSUME NEW f, NEW b, info' = [info EXCEPT ![f].fnblock = b]
        PROVE  SymbolsGrow(info')
    BY <1>1, <2>4, SameUpdates DEF SymbolsGrow
  <2> QED BY <1>3, <2>1, <2>2, <2>3, <2>4
<1>4. CASE VisitDeclaration
  <2> DEFINE n == Next_node
  <2>1. /\ Running /\ HasNext /\ symbol(n) \in VariableTypes
    BY <1>4 DEF VisitDeclaration, Visiting
  <2>2. Declaration(ast, n, "TOK_DECLID") /\ n \in DOMAIN ast
    BY <2>1, NextDeclares, Goes
  <2>3. declared(n) \notin Declared
    BY <2>1, <2>2, NewDeclaration
  <2>4. \/ info' = info
        \/ /\ IsLegal(n, {})
           /\ info' = Extend(info, declared(n), NewSymbol(n, {}))
    BY <1>4 DEF VisitDeclaration, Symbolized
  <2> HIDE DEF n
  <2> QED BY <1>1, <1>2, <2>2, <2>3, <2>4, GrowByOne
<1>5. CASE DeclareParam
  <2> DEFINE n == Next_node
             f == GlobalSymbol(current_function)
             J == [info EXCEPT ![f].params = Append(@, declared(n))]
  <2>1. Running /\ HasNext /\ symbol(Caller.node) = "TOK_PARAMLIST"
    BY <1>5 DEF DeclareParam
  <2>2. Declaration(ast, n, "TOK_DECLID") /\ n \in DOMAIN ast
    BY <2>1, NextDeclares, Goes
  <2>3. declared(n) \notin Declared
    BY <2>1, <2>2, NewDeclaration
  <2>4. \/ info' = [info EXCEPT ![f].params = Append(@, NULL)]
        \/ /\ IsLegal(n, {"param"})
           /\ info' = Extend(J, declared(n), NewSymbol(n, {"param"}))
    BY <1>5 DEF DeclareParam, Symbolized
  <2>5. \A x \in DOMAIN J : SameSymbol(J, x)
    BY <1>1, SameUpdates
  <2> HIDE DEF n, f, J
  <2>6. CASE info' = [info EXCEPT ![f].params = Append(@, NULL)]
    BY <1>3, <2>6
  <2>7. CASE /\ IsLegal(n, {"param"})
             /\ info' = Extend(J, declared(n), NewSymbol(n, {"param"}))
    BY <2>2, <2>3, <2>5, <2>7, GrowByOne
  <2> QED BY <2>4, <2>6, <2>7
<1>6. CASE VisitFunction
  <2> DEFINE n == Next_node
             m == child(n, 0)
             prev == GlobalSymbol(lexinfo(declared(m)))
  <2>1. /\ Running /\ HasNext
        /\ symbol(Next_node) \in {"TOK_FUNCTION", "TOK_PROTOTYPE"}
    BY <1>6 DEF VisitFunction, Visiting
  <2>2. m \in DOMAIN ast /\ Declaration(ast, m, "TOK_DECLID")
    BY <2>1, Goes, FunctionDeclares
  <2>3. declared(m) \notin Declared
    BY <2>1, FunctionSymbol
  <2>4. \/ info' = info
        \/ info' = [info EXCEPT ![prev].params = <<>>, ![prev].fnblock = NULL]
        \/ /\ IsLegal(m, {"function"})
           /\ info' = Extend(info, declared(m), NewSymbol(m, {"function"}))
    <3>1. CASE info' = info
      BY <3>1
    <3>2. CASE /\ EnterFunction(n, prev)
               /\ ~ (symbol(n) = "TOK_PROTOTYPE" /\ prev # NULL)
               /\ IsLegal(m, {"function"})
      BY <3>2 DEF EnterFunction
    <3> QED BY <1>6, <3>1, <3>2 DEF VisitFunction, Redeclare, SkipFunction
  <2> HIDE DEF n, m, prev
  <2>5. CASE info' = info
    BY <1>2, <2>5
  <2>6. CASE info' = [info EXCEPT ![prev].params = <<>>, ![prev].fnblock = NULL]
    BY <1>3, <2>6
  <2>7. CASE /\ IsLegal(m, {"function"})
             /\ info' = Extend(info, declared(m), NewSymbol(m, {"function"}))
    BY <1>1, <2>2, <2>3, <2>7, GrowByOne
  <2> QED BY <2>4, <2>5, <2>6, <2>7
<1>7. CASE EndParams
  <2> QED BY <1>3, <1>7 DEF EndParams
<1>8. CASE VisitStruct
  <2> DEFINE n == Next_node
             fields == {declared(child(n, i)) : i \in 1..arity(n) - 1}
             sym(d) == NewSymbol(parent(d), {"field"})
             more == [d \in DOMAIN info \cup fields |->
                        IF d \in fields THEN sym(d) ELSE info[d]]
  <2>1. /\ WellFormed(ast, Name) /\ DOMAIN ast \subseteq Node
        /\ n \in DOMAIN ast /\ symbol(n) = "TOK_STRUCT" /\ Running
    BY <1>8, Goes, CallerIs DEF VisitStruct, Visiting
  <2>2. info' = info \/ (info' = more /\ BadFields(n) = {})
    BY <1>8 DEF VisitStruct
  <2>3. \A d \in fields : d \notin Declared
    <3> SUFFICES ASSUME NEW d \in fields, d \in Declared PROVE FALSE
      OBVIOUS
    <3>1. symbol(d) = "TOK_FIELD"
      BY <2>1, StructFields
    <3>2. symbol(d) = "TOK_DECLID"
      BY DEF TraversalInv, Walk, symbol
    <3> QED BY <3>1, <3>2
  <2>4. ASSUME BadFields(n) = {}, NEW d \in fields
        PROVE  SymbolOf(d, sym(d))
    <3>1. PICK i \in 1..arity(n) - 1 : d = declared(child(n, i))
      OBVIOUS
    <3>2. /\ parent(d) \in DOMAIN ast
          /\ Declaration(ast, parent(d), "TOK_FIELD")
      BY <2>1, StructFields
    <3>3. IsLegal(child(n, i), {"field"})
      BY <2>4 DEF BadFields
    <3>4. parent(d) = child(n, i)
      <4>1. i \in 0..arity(n) - 1 /\ arity(n) \in Nat
        <5>1. ast[n].children \in Seq(DOMAIN ast)
          BY <2>1, KidsFollow
        <5> QED BY <5>1 DEF arity, children
      <4>2. child(n, i) \in DOMAIN ast /\ child(n, i) = ast[n].children[i + 1]
        BY <2>1, <4>1, ChildIs
      <4>3. Declaration(ast, child(n, i), "TOK_FIELD")
        <5>1. Built(ast, n) /\ ast[n].symbol = "TOK_STRUCT"
          BY <2>1 DEF WellFormed, symbol
        <5>2. i + 1 \in 2..Len(ast[n].children)
          BY <4>1 DEF arity, children
        <5> QED BY <4>2, <5>1, <5>2 DEF Built
      <4>4. d \in Kids(ast, child(n, i))
        BY <2>1, <3>1, <4>2, <4>3, DeclaredIs, DeclarationDeclares
      <4> QED BY <2>1, <4>2, <4>4, ParentIs
    <3>5. d = declared(parent(d)) /\ IsLegal(parent(d), {"field"})
      BY <3>1, <3>3, <3>4
    <3> HIDE DEF fields, n
    <3> QED BY <3>2, <3>5 DEF SymbolOf
  <2>5. /\ DOMAIN more = DOMAIN info \cup fields
        /\ \A d \in DOMAIN more :
             more[d] = IF d \in fields THEN sym(d) ELSE info[d]
    OBVIOUS
  <2> HIDE DEF fields, sym, more, n
  <2>6. ASSUME BadFields(n) = {} PROVE SymbolsGrow(more)
    BY <2>3, <2>4, <2>5, <2>6 DEF SymbolsGrow, SameSymbol
  <2> QED BY <1>2, <2>2, <2>6
<1>9. CASE VisitVoid
  BY <1>2, <1>9 DEF VisitVoid
<1>10. CASE EndFunction
  BY <1>2, <1>10 DEF EndFunction
<1>11. CASE VisitNode
  BY <1>2, <1>11 DEF VisitNode
<1>12. CASE LeaveIdent
  BY <1>2, <1>12 DEF LeaveIdent
<1>13. CASE LeaveSelector
  BY <1>2, <1>13 DEF LeaveSelector
<1>14. CASE LeaveAllocator
  BY <1>2, <1>14 DEF LeaveAllocator
<1>15. CASE LeaveCall
  BY <1>2, <1>15 DEF LeaveCall
<1>16. CASE LeaveNode
  BY <1>2, <1>16 DEF LeaveNode
<1> QED BY <1>4, <1>5, <1>6, <1>7, <1>8, <1>9, <1>10, <1>11, <1>12, <1>13,
           <1>14, <1>15, <1>16 DEF Next

LEMMA SymbolsStep ==
  ASSUME TraversalInv, DataInv, Next, SymbolsTrue
  PROVE  /\ SymbolsTrue'
         /\ \A d \in Declared : SameSymbol(info', d)
<1>1. ast' = ast /\ SymbolsGrow(info')
  BY Moves, SymbolsArise
<1>2. \A d \in Declared : d \in DOMAIN info'
  BY InfoStep DEF DataInv, InfoTyped, Known
<1>3. ASSUME NEW d \in DOMAIN info' PROVE SymbolOf(d, info'[d])
  <2>1. CASE SameSymbol(info', d)
    BY <2>1 DEF SameSymbol, SymbolsTrue, SymbolOf
  <2> QED BY <1>1, <1>3, <2>1 DEF SymbolsGrow
<1>4. SymbolsTrue'
  <2>1. SymbolsTrue' = \A d \in DOMAIN info' : SymbolOf(d, info[d])'
    BY DEF SymbolsTrue
  <2>2. ASSUME NEW d \in DOMAIN info' PROVE SymbolOf(d, info[d])'
    BY <1>1, <1>3, <2>2
       DEF SymbolOf, Declaration, declared, IsArray, IsLegal, NewSymbol,
           base_type, symbol, lexinfo, child, children, Type
  <2> QED BY <2>1, <2>2
<1> QED BY <1>1, <1>2, <1>4 DEF SymbolsGrow

-----------------------------------------------------------------------------
(* What a step changes of what is known of nodes.                          *)

(* A declaration gets a symbol, or an identifier that is left is bound.    *)
LEMMA BindingChanges ==
  ASSUME TraversalInv, DataInv, Next
  PROVE  \/ symentry' = symentry
         \/ \E d \in Node : /\ symbol(d) = "TOK_DECLID"
                            /\ symentry' = [symentry EXCEPT ![d] = d]
         \/ /\ Leaves /\ symbol(Caller.node) = "TOK_IDENT"
            /\ symentry' = [symentry EXCEPT ![Caller.node] =
                              find_symbol(lexinfo(Caller.node))]
<1> DEFINE Goal == 
         \/ symentry' = symentry
         \/ \E d \in Node : /\ symbol(d) = "TOK_DECLID"
                            /\ symentry' = [symentry EXCEPT ![d] = d]
         \/ /\ Leaves /\ symbol(Caller.node) = "TOK_IDENT"
            /\ symentry' = [symentry EXCEPT ![Caller.node] =
                              find_symbol(lexinfo(Caller.node))]
<1> SUFFICES Goal
  OBVIOUS
<1>1. ASSUME symentry' = symentry PROVE Goal
  BY <1>1
<1>2. ASSUME NEW initial, Running, HasNext, Symbolize(Next_node, initial),
             \/ symbol(Caller.node) = "TOK_PARAMLIST"
             \/ symbol(Next_node) \in VariableTypes
      PROVE  Goal
  <2> DEFINE d == declared(Next_node)
  <2>1. d \in Node /\ symbol(d) = "TOK_DECLID"
    BY <1>2, NextDeclares, NewDeclaration
  <2>2. symentry' = symentry \/ symentry' = [symentry EXCEPT ![d] = d]
    BY <1>2, Symbolizes
  <2> HIDE DEF d
  <2> QED BY <2>1, <2>2
<1>3. CASE VisitDeclaration
  <2>1. /\ Running /\ HasNext /\ symbol(Next_node) \in VariableTypes
        /\ Symbolize(Next_node, {})
    BY <1>3 DEF VisitDeclaration, Visiting
  <2> HIDE DEF Goal
  <2> QED BY <1>2, <2>1
<1>4. CASE DeclareParam
  <2>1. /\ Running /\ HasNext /\ symbol(Caller.node) = "TOK_PARAMLIST"
        /\ Symbolize(Next_node, {"param"})
    BY <1>4 DEF DeclareParam
  <2> HIDE DEF Goal
  <2> QED BY <1>2, <2>1
<1>5. CASE VisitFunction
  <2> DEFINE d == declared(child(Next_node, 0))
             prev == GlobalSymbol(lexinfo(d))
  <2>1. /\ Running /\ HasNext
        /\ symbol(Next_node) \in {"TOK_FUNCTION", "TOK_PROTOTYPE"}
    BY <1>5 DEF VisitFunction, Visiting
  <2>2. UNCHANGED scopeVars \/ EnterFunction(Next_node, prev)
    BY <1>5 DEF VisitFunction, Redeclare, SkipFunction
  <2>3. CASE EnterFunction(Next_node, prev)
    <3>1. /\ d \in Node /\ lexinfo(d) \in Name /\ ScopesInv
          /\ BeginFunction(d, lexinfo(d))
      BY <2>1, <2>3, FunctionSymbol DEF EnterFunction, TraversalInv
    <3>2. symentry' = [symentry EXCEPT ![d] = d] \/ symentry' = symentry
      BY <3>1, Begins
    <3>3. symbol(d) = "TOK_DECLID"
      <4>1. /\ WellFormed(ast, Name) /\ Next_node \in DOMAIN ast
        BY <2>1, Goes
      <4>2. /\ child(Next_node, 0) \in DOMAIN ast
            /\ Declaration(ast, child(Next_node, 0), "TOK_DECLID")
        BY <2>1, <4>1, FunctionDeclares
      <4> QED BY <4>1, <4>2, DeclarationDeclares, DeclaredIs DEF symbol
    <3> HIDE DEF d
    <3> QED BY <3>1, <3>2, <3>3
  <2>4. CASE UNCHANGED scopeVars
    BY <2>4 DEF scopeVars
  <2> QED BY <2>2, <2>3, <2>4
<1>6. CASE LeaveIdent
  BY <1>6 DEF LeaveIdent, Returning, Return, Leaves, UseSymbol
<1>7. CASE VisitVoid
  BY <1>7 DEF VisitVoid, scopeVars
<1>8. CASE VisitStruct
  BY <1>8 DEF VisitStruct, scopeVars
<1>9. CASE EndParams
  BY <1>9 DEF EndParams, scopeVars
<1>10. CASE EndFunction
  BY <1>10 DEF EndFunction, LeaveBlock
<1>11. CASE VisitNode
  BY <1>11 DEF VisitNode, EnterBlock, scopeVars
<1>12. CASE LeaveSelector
  BY <1>12 DEF LeaveSelector, scopeVars
<1>13. CASE LeaveAllocator
  BY <1>13 DEF LeaveAllocator, scopeVars
<1>14. CASE LeaveCall
  BY <1>14 DEF LeaveCall, scopeVars
<1>15. CASE LeaveNode
  BY <1>15 DEF LeaveNode, LeaveBlock, scopeVars
<1> HIDE DEF Goal
<1> QED BY <1>3, <1>4, <1>5, <1>6, <1>7, <1>8, <1>9, <1>10, <1>11, <1>12,
           <1>13, <1>14, <1>15 DEF Next

(* So an identifier that is not being left, and a declaration that has a   *)
(* symbol, keep theirs.                                                    *)
LEMMA BindingStays ==
  ASSUME TraversalInv, DataInv, Next, NEW n \in Node
  PROVE  /\ symbol(n) = "TOK_IDENT" /\ ~ (Leaves /\ n = Caller.node)
              => symentry'[n] = symentry[n]
         /\ symbol(n) = "TOK_DECLID" /\ symentry[n] # NULL
              => symentry'[n] # NULL
<1>1. /\ symentry \in [Node -> Declared \cup {NULL}]
      /\ Declared \subseteq Node
  BY DEF DataInv, LinksTyped, InfoTyped, Known
<1>2. CASE symentry' = symentry
  BY <1>2
<1>3. ASSUME NEW d \in Node, symbol(d) = "TOK_DECLID",
             symentry' = [symentry EXCEPT ![d] = d]
      PROVE  /\ symbol(n) = "TOK_IDENT" => symentry'[n] = symentry[n]
             /\ symentry[n] # NULL => symentry'[n] # NULL
  BY <1>1, <1>3, NullAssumption
<1>4. CASE /\ Leaves /\ symbol(Caller.node) = "TOK_IDENT"
           /\ symentry' = [symentry EXCEPT ![Caller.node] =
                             find_symbol(lexinfo(Caller.node))]
  BY <1>1, <1>4
<1> QED BY <1>2, <1>3, <1>4, BindingChanges

(* A field that is known stays so. *)
LEMMA MemberStays ==
  ASSUME TraversalInv, DataInv, Next, NEW n \in Node, member[n] # NULL
  PROVE  member'[n] # NULL
<1>1. /\ member \in [Node -> DOMAIN info \cup {NULL}]
      /\ DOMAIN info \subseteq Node /\ InfoTyped /\ LinksTyped
  BY DEF DataInv, LinksTyped, InfoTyped, Known
<1>2. ASSUME member' = member PROVE member'[n] # NULL
  BY <1>2
<1>3. CASE VisitStruct
  <2> DEFINE fields == {declared(child(Next_node, i)) :
                          i \in 1..arity(Next_node) - 1}
  <2>1. \/ member' = member
        \/ member' = [u \in Node |-> IF u \in fields THEN u ELSE member[u]]
    BY <1>3 DEF VisitStruct
  <2> HIDE DEF fields
  <2> QED BY <1>1, <2>1, NullAssumption
<1>4. CASE LeaveSelector
  <2> DEFINE m == Caller.node
             t == type_name[child(m, 0)]
             u == child(m, 1)
             field == typeid_table[t][lexinfo(u)]
  <2>1. \/ member' = member
        \/ /\ t \in DOMAIN typeid_table /\ lexinfo(u) \in DOMAIN typeid_table[t]
           /\ member' = [member EXCEPT ![m] = field, ![u] = field]
    BY <1>4 DEF LeaveSelector
  <2>2. CASE member' = member
    BY <2>2
  <2>3. CASE /\ t \in DOMAIN typeid_table
             /\ lexinfo(u) \in DOMAIN typeid_table[t]
             /\ member' = [member EXCEPT ![m] = field, ![u] = field]
    <3>1. field \in DOMAIN info /\ field # NULL
      BY <1>1, <2>3, SelectedIsKnown, NullAssumption
    <3> HIDE DEF field, u, m
    <3> QED BY <1>1, <2>3, <3>1
  <2> QED BY <2>1, <2>2, <2>3
<1>5. CASE VisitDeclaration \/ VisitVoid \/ VisitFunction \/ DeclareParam
  BY <1>2, <1>5 DEF VisitDeclaration, VisitVoid, VisitFunction, DeclareParam
<1>6. CASE EndParams \/ EndFunction \/ VisitNode \/ LeaveIdent
  BY <1>2, <1>6 DEF EndParams, EndFunction, VisitNode, LeaveIdent
<1>7. CASE LeaveAllocator \/ LeaveCall \/ LeaveNode
  BY <1>2, <1>7 DEF LeaveAllocator, LeaveCall, LeaveNode
<1> QED BY <1>3, <1>4, <1>5, <1>6, <1>7 DEF Next

(* An expression that is not being left keeps the name of its type. *)
LEMMA StaysNamed ==
  ASSUME TraversalInv, DataInv, Next,
         NEW n \in DOMAIN ast, ast[n].symbol \in Expression,
         ~ (Leaves /\ n = Caller.node)
  PROVE  type_name'[n] = type_name[n]
<1>1. /\ symbol(n) \in Expression
      /\ type_name \in [Node -> Name \cup {NULL}]
      /\ n \in Node
  BY Tree DEF symbol, DataInv, NodesTyped, TraversalInv
<1>2. ASSUME type_name' = type_name PROVE type_name'[n] = type_name[n]
  BY <1>2
<1>3. ASSUME NEW a, Leaves, type_name' = [type_name EXCEPT ![Caller.node] = a]
      PROVE  type_name'[n] = type_name[n]
  BY <1>1, <1>3
<1>4. ASSUME NEW d, NEW a, symbol(d) \in {"TOK_DECLID", "TOK_FIELD"},
             type_name' = [type_name EXCEPT ![d] = a]
      PROVE  type_name'[n] = type_name[n]
  <2>1. n # d
    BY <1>1, <1>4 DEF Expression, NoOperand, OneOperand, TwoOperands
  <2> QED BY <1>1, <1>4, <2>1
<1>5. CASE VisitDeclaration
  <2> DEFINE m == Next_node
             d == declared(m)
             a == NewSymbol(m, {}).type_name
  <2>1. /\ Running /\ HasNext /\ symbol(m) \in VariableTypes
        /\ \/ type_name' = type_name
           \/ type_name' = [type_name EXCEPT ![d] = a, ![m] = a]
    BY <1>5 DEF VisitDeclaration, Visiting
  <2>2. symbol(d) = "TOK_DECLID"
    BY <2>1, NextDeclares, NewDeclaration
  <2> HIDE DEF a, d, m
  <2>3. n # m /\ n # d
    BY <1>1, <2>1, <2>2 DEF VariableTypes, Expression, NoOperand, OneOperand,
                            TwoOperands
  <2> QED BY <1>1, <2>1, <2>3
<1>6. CASE VisitStruct
  <2> DEFINE m == Next_node
             fields == {declared(child(m, i)) : i \in 1..arity(m) - 1}
             sym(d) == NewSymbol(parent(d), {"field"})
  <2>1. /\ WellFormed(ast, Name) /\ m \in DOMAIN ast
        /\ symbol(m) = "TOK_STRUCT"
    BY <1>6, Goes DEF VisitStruct, Visiting
  <2>2. n \notin fields
    <3> SUFFICES ASSUME n \in fields PROVE FALSE
      OBVIOUS
    <3>1. symbol(n) = "TOK_FIELD"
      BY <2>1, StructFields
    <3> QED BY <1>1, <3>1 DEF Expression, NoOperand, OneOperand, TwoOperands
  <2>3. \/ type_name' = type_name
        \/ type_name' = [u \in Node |-> IF u \in fields
                                        THEN sym(u).type_name
                                        ELSE type_name[u]]
    BY <1>6 DEF VisitStruct
  <2> HIDE DEF fields, sym
  <2> QED BY <1>1, <2>2, <2>3
<1>7. CASE VisitFunction
  <2> DEFINE m == child(Next_node, 0)
             d == declared(m)
             a == NewSymbol(m, {"function"}).type_name
  <2>1. /\ Running /\ HasNext
        /\ symbol(Next_node) \in {"TOK_FUNCTION", "TOK_PROTOTYPE"}
    BY <1>7 DEF VisitFunction, Visiting
  <2>2. symbol(d) = "TOK_DECLID"
    <3>1. /\ WellFormed(ast, Name) /\ Next_node \in DOMAIN ast
      BY <2>1, Goes
    <3>2. m \in DOMAIN ast /\ Declaration(ast, m, "TOK_DECLID")
      BY <2>1, <3>1, FunctionDeclares
    <3> QED BY <3>1, <3>2, DeclarationDeclares, DeclaredIs DEF symbol
  <2>3. type_name' = type_name \/ type_name' = [type_name EXCEPT ![d] = a]
    BY <1>7 DEF VisitFunction, Redeclare, SkipFunction, EnterFunction
  <2> HIDE DEF a, d, m
  <2> QED BY <1>2, <1>4, <2>2, <2>3
<1>8. CASE DeclareParam
  <2> DEFINE d == declared(Next_node)
             a == NewSymbol(Next_node, {"param"}).type_name
  <2>1. Running /\ HasNext /\ symbol(Caller.node) = "TOK_PARAMLIST"
    BY <1>8 DEF DeclareParam
  <2>2. symbol(d) = "TOK_DECLID"
    BY <2>1, NextDeclares, NewDeclaration
  <2>3. type_name' = type_name \/ type_name' = [type_name EXCEPT ![d] = a]
    BY <1>8 DEF DeclareParam
  <2> HIDE DEF a, d
  <2> QED BY <1>2, <1>4, <2>2, <2>3
<1>9. CASE LeaveIdent
  BY <1>2, <1>3, <1>9 DEF LeaveIdent, Returning, Return, Leaves
<1>10. CASE LeaveSelector
  <2> DEFINE m == Caller.node
             u == child(m, 1)
  <2>1. Running /\ symbol(m) = "." /\ Leaves
    BY <1>10 DEF LeaveSelector, Returning, Return, Leaves
  <2>2. symbol(u) = "TOK_FIELD"
    <3>1. Built(ast, m) /\ ast[m].symbol = "."
      BY <2>1, CallerIs DEF WellFormed, symbol
    <3> QED BY <3>1 DEF Built, child, children, symbol
  <2>3. type_name' = type_name
        \/ \E a : type_name' = [type_name EXCEPT ![u] = a, ![m] = a]
    BY <1>10 DEF LeaveSelector
  <2> HIDE DEF u
  <2>4. n # u
    BY <1>1, <2>2 DEF Expression, NoOperand, OneOperand, TwoOperands
  <2> QED BY <1>1, <2>1, <2>3, <2>4
<1>11. CASE LeaveAllocator
  <2> DEFINE m == Caller.node
  <2>1. /\ Running /\ symbol(m) \in {"TOK_NEW", "TOK_NEWARRAY"} /\ Leaves
    BY <1>11 DEF LeaveAllocator, Returning, Return, Leaves
  <2>2. \E a, b : type_name' = [type_name EXCEPT ![child(m, 0)] = a, ![m] = b]
    BY <1>11 DEF LeaveAllocator
  <2>3. n # child(m, 0)
    BY <1>1, <2>1, CallerIs, ElementIsType
  <2> QED BY <1>1, <2>1, <2>2, <2>3
<1>12. CASE LeaveCall
  BY <1>2, <1>3, <1>12 DEF LeaveCall, Returning, Return, Leaves
<1>13. CASE LeaveNode
  BY <1>3, <1>13 DEF LeaveNode, Return, Leaves
<1>14. CASE VisitVoid \/ EndParams \/ EndFunction \/ VisitNode
  BY <1>2, <1>14 DEF VisitVoid, EndParams, EndFunction, VisitNode
<1> QED BY <1>5, <1>6, <1>7, <1>8, <1>9, <1>10, <1>11, <1>12, <1>13,
           <1>14 DEF Next

-----------------------------------------------------------------------------
(* What is right about a node that was gone over without an error.         *)

WellTyped(n) ==
  /\ symbol(n) = "TOK_IDENT" =>
       /\ symentry[n] # NULL
       /\ type_name[n] = info[symentry[n]].type_name
  /\ symbol(n) \in Expression \ {"TOK_IDENT"} =>
       IF VoidArray(n) THEN attributes[n] = VoidArrayType
       ELSE Proper(attributes[n], type_name[n])

(* Its names stand for symbols. *)
Ready(n) ==
  /\ symbol(n) = "." => member[child(n, 1)] # NULL
  /\ symbol(n) \in VariableTypes \cup {"TOK_VOID"} =>
       Declaration(ast, n, "TOK_DECLID") /\ symentry[declared(n)] # NULL
  /\ symbol(n) = "TOK_STRUCT" =>
       \A i \in 1..arity(n) - 1 : member[declared(child(n, i))] # NULL

LEMMA OperandTyped ==
  ASSUME TraversalInv, DataInv, SymbolsTrue, NEW n \in DOMAIN ast,
         symbol(n) \in Expression, WellTyped(n)
  PROVE  \/ Proper(get_node_attributes(n), type_name[n])
         \/ get_node_attributes(n) = VoidArrayType
<1>1. n \in Node /\ WellFormed(ast, Name)
  BY Tree DEF TraversalInv
<1>2. CASE symbol(n) = "TOK_IDENT"
  <2>1. /\ get_node_attributes(n) = info[symentry[n]].attributes
        /\ type_name[n] = info[symentry[n]].type_name /\ symentry[n] # NULL
    BY <1>2 DEF WellTyped, get_node_attributes, Entry
  <2>2. symentry[n] \in DOMAIN info
    BY <1>1, <2>1 DEF DataInv, LinksTyped, InfoTyped, Known
  <2>3. Proper(info[symentry[n]].attributes, info[symentry[n]].type_name)
    BY <1>1, <2>2, TrueIsProper
  <2> QED BY <2>1, <2>3
<1>3. CASE symbol(n) # "TOK_IDENT"
  <2>1. symbol(n) \notin {"TOK_IDENT", "TOK_DECLID", "TOK_FIELD"}
    BY <1>3 DEF Expression, NoOperand, OneOperand, TwoOperands
  <2>2. get_node_attributes(n) = attributes[n]
    BY <2>1 DEF get_node_attributes
  <2> QED BY <1>3, <2>2 DEF WellTyped
<1> QED BY <1>2, <1>3

LEMMA TypedStays ==
  ASSUME TraversalInv, DataInv, Next, SymbolsTrue,
         NEW n \in DOMAIN ast, WellTyped(n), ~ (Leaves /\ n = Caller.node)
  PROVE  WellTyped(n)'
<1>1. n \in Node /\ ast' = ast
  BY Tree, Moves DEF TraversalInv
<1>2. symbol(n)' = symbol(n) /\ VoidArray(n)' = VoidArray(n)
  BY <1>1 DEF symbol, VoidArray, child, children
<1>3. CASE symbol(n) = "TOK_IDENT"
  <2>1. symentry'[n] = symentry[n]
    BY <1>1, <1>3, BindingStays
  <2>2. ast[n].symbol \in Expression
    BY <1>3 DEF symbol, Expression, NoOperand
  <2>3. type_name'[n] = type_name[n]
    BY <2>2, StaysNamed
  <2>4. symentry[n] # NULL /\ type_name[n] = info[symentry[n]].type_name
    BY <1>3 DEF WellTyped
  <2>5. symentry[n] \in Declared
    BY <1>1, <2>4 DEF DataInv, LinksTyped
  <2>6. info'[symentry[n]].type_name = info[symentry[n]].type_name
    BY <2>5, SymbolsStep DEF SameSymbol
  <2>7. symentry'[n] # NULL /\ type_name'[n] = info'[symentry'[n]].type_name
    BY <2>1, <2>3, <2>4, <2>6
  <2> QED BY <1>2, <1>3, <2>7 DEF WellTyped
<1>4. CASE symbol(n) \in Expression \ {"TOK_IDENT"}
  <2>1. ast[n].symbol \in Expression
    BY <1>4 DEF symbol
  <2>2. type_name'[n] = type_name[n] /\ attributes'[n] = attributes[n]
    BY <2>1, StaysNamed, StaysTyped
  <2>3. IF VoidArray(n) THEN attributes[n] = VoidArrayType
        ELSE Proper(attributes[n], type_name[n])
    BY <1>4 DEF WellTyped
  <2>4. IF VoidArray(n)' THEN attributes'[n] = VoidArrayType
        ELSE Proper(attributes'[n], type_name'[n])
    BY <1>2, <2>2, <2>3
  <2>5. (symbol(n) # "TOK_IDENT")'
    BY <1>2, <1>4
  <2> QED BY <2>4, <2>5 DEF WellTyped
<1>5. CASE symbol(n) \notin Expression
  <2>1. symbol(n)' \notin Expression /\ "TOK_IDENT" \in Expression
    BY <1>2, <1>5 DEF Expression, NoOperand
  <2> QED BY <2>1 DEF WellTyped
<1> QED BY <1>3, <1>4, <1>5

LEMMA ReadyStays ==
  ASSUME TraversalInv, DataInv, Next, NEW n \in DOMAIN ast, Ready(n)
  PROVE  Ready(n)'
<1>1. /\ n \in Node /\ ast' = ast /\ WellFormed(ast, Name)
      /\ DOMAIN ast \subseteq Node
  BY Tree, Moves DEF TraversalInv
<1>2. ASSUME symbol(n) = "." PROVE member'[child(n, 1)] # NULL
  <2>1. child(n, 1) \in Node
    <3>1. Built(ast, n) /\ ast[n].symbol = "."
      BY <1>1, <1>2 DEF WellFormed, symbol
    <3>2. Len(ast[n].children) = 2 /\ ast[n].children \in Seq(DOMAIN ast)
      BY <1>1, <3>1, KidsFollow DEF Built
    <3> QED BY <1>1, <3>2 DEF child, children
  <2> QED BY <1>2, <2>1, MemberStays DEF Ready
<1>3. ASSUME symbol(n) \in VariableTypes \cup {"TOK_VOID"}
      PROVE  /\ Declaration(ast, n, "TOK_DECLID")
             /\ symentry'[declared(n)] # NULL
  <2>1. Declaration(ast, n, "TOK_DECLID") /\ symentry[declared(n)] # NULL
    BY <1>3 DEF Ready
  <2>2. declared(n) \in Node /\ symbol(declared(n)) = "TOK_DECLID"
    BY <1>1, <2>1, DeclaredIs, DeclarationDeclares DEF symbol
  <2> QED BY <2>1, <2>2, BindingStays
<1>4. ASSUME symbol(n) = "TOK_STRUCT", NEW i \in 1..arity(n) - 1
      PROVE  member'[declared(child(n, i))] # NULL
  <2> DEFINE d == declared(child(n, i))
  <2>1. d \in Node
    BY <1>1, <1>4, StructFields
  <2>2. member[d] # NULL
    BY <1>4 DEF Ready
  <2> HIDE DEF d
  <2>3. member'[d] # NULL
    BY <2>1, <2>2, MemberStays
  <2> QED BY <2>3 DEF d
<1>5. /\ symbol(n)' = symbol(n) /\ child(n, 1)' = child(n, 1)
      /\ declared(n)' = declared(n) /\ arity(n)' = arity(n)
      /\ Declaration(ast, n, "TOK_DECLID")' = Declaration(ast, n, "TOK_DECLID")
      /\ \A i : declared(child(n, i))' = declared(child(n, i))
  BY <1>1 DEF symbol, child, children, declared, IsArray, arity, Declaration,
              Type
<1> QED BY <1>2, <1>3, <1>4, <1>5 DEF Ready

(* What lies on the way of the node that is left is done. *)
LEMMA LeftIsMet ==
  ASSUME TraversalInv, Running, ~ HasNext, NEW S,
         Met(ast, calls, S \cup OnStack(calls)),
         NEW k \in 1..Len(Path(ast, Caller.node))
  PROVE  Path(ast, Caller.node)[k] \in S
<1> DEFINE n == Caller.node
           m == Len(calls)
           c == Path(ast, n)[k]
<1>1. /\ WellFormed(ast, Name) /\ calls \in Seq(Frames(ast)) /\ calls # <<>>
      /\ Caller = calls[m] /\ Caller \in Frames(ast) /\ n \in DOMAIN ast
  BY CallerIs
<1>2. m \in Nat \ {0} /\ m \in 1..m
  BY <1>1, FrontFacts
<1>3. Path(ast, n) \in Seq(DOMAIN ast) /\ n < c /\ c \in DOMAIN ast
  <2>1. n \in DOMAIN ast
    BY <1>1
  <2> DEFINE path == Path(ast, n)
  <2>2. path \in Seq(DOMAIN ast) /\ \A i \in 1..Len(path) : n < path[i]
    BY <1>1, <2>1, PathFollows
  <2>3. k \in 1..Len(path) /\ c = path[k]
    OBVIOUS
  <2> HIDE DEF path, c, n
  <2>4. n < c /\ c \in DOMAIN ast
    BY <2>2, <2>3
  <2> QED BY <2>2, <2>4 DEF path
<1>4. k < Caller.next
  <2>1. Caller.next \in Nat
    BY <1>1 DEF Frames
  <2>2. ~ (Caller.next <= Len(Path(ast, n)))
    BY VisitsArePath DEF HasNext
  <2> DEFINE l == Len(Path(ast, n))
  <2>3. l \in Nat /\ k \in 1..l
    BY <1>3
  <2>4. ~ (Caller.next <= l)
    BY <2>2
  <2> HIDE DEF l
  <2> QED BY <2>1, <2>3, <2>4
<1>5. c \in S \cup OnStack(calls)
  <2>1. calls[m].node = n /\ calls[m].next = Caller.next
    BY <1>1
  <2> HIDE DEF n, m
  <2>2. k \in 1..Len(Path(ast, calls[m].node)) /\ k < calls[m].next
    BY <1>4, <2>1 DEF n
  <2>3. Path(ast, calls[m].node)[k] \in S \cup OnStack(calls)
    BY <1>2, <2>2 DEF Met, m
  <2> QED BY <2>1, <2>3
<1>6. c \notin OnStack(calls)
  <2> SUFFICES ASSUME NEW i \in 1..m, c = calls[i].node PROVE FALSE
    BY DEF OnStack
  <2>1. c \in Nat /\ n \in Nat
    BY <1>1, <1>3, KidsFollow
  <2>2. i = m \/ i < m
    BY <1>2
  <2>3. CASE i = m
    BY <1>1, <1>3, <2>1, <2>3
  <2>4. CASE i < m
    <3>1. calls[i].node < calls[m].node
      BY <1>2, <2>4 DEF TraversalInv, Walk, Nested
    <3>2. c < n
      BY <1>1, <3>1
    <3> HIDE DEF c, n
    <3> QED BY <1>3, <2>1, <3>2
  <2> QED BY <2>2, <2>3, <2>4
<1> QED BY <1>5, <1>6

-----------------------------------------------------------------------------
(* What is left without an error is right.                                 *)

LEMMA AllocatedSound ==
  ASSUME WellFormed(ast, Name), NEW n \in DOMAIN ast,
         symbol(n) \in {"TOK_NEW", "TOK_NEWARRAY"}, NEW size
  PROVE  LET a == ElementType(n).attributes
             t == ElementType(n).type_name
         IN /\ symbol(n) = "TOK_NEW" =>
                 Proper(attr_handle_new(a, t).attributes, t)
            /\ symbol(n) = "TOK_NEWARRAY" =>
                 IF VoidArray(n)
                 THEN attr_handle_newarray(a, t, size).attributes
                        = VoidArrayType
                 ELSE Proper(attr_handle_newarray(a, t, size).attributes, t)
<1> DEFINE e == child(n, 0)
           a == ElementType(n).attributes
           t == ElementType(n).type_name
           gen == node_generate_attributes(symbol(e), FALSE, {})
<1>1. /\ symbol(e) \in TypeName
      /\ symbol(e) = "TOK_TYPEID" => lexinfo(e) \in Name
      /\ symbol(n) = "TOK_NEW" => symbol(e) = "TOK_TYPEID"
  <2>1. /\ Built(ast, n) /\ e = ast[n].children[1] /\ e \in DOMAIN ast
        /\ ast[n].symbol = symbol(n) /\ ast[e].symbol = symbol(e)
    <3>1. n \in DOMAIN ast /\ symbol(n) \in {"TOK_NEW", "TOK_NEWARRAY"}
      OBVIOUS
    <3>2. e \in DOMAIN ast
      BY <3>1, Operands
    <3> QED BY <3>2 DEF WellFormed, child, children, symbol
  <2>2. symbol(n) = "TOK_NEW" => symbol(e) = "TOK_TYPEID"
    BY <2>1 DEF Built
  <2>3. symbol(n) = "TOK_NEWARRAY" => symbol(e) \in TypeName
    BY <2>1 DEF Built, Type
  <2>4. symbol(e) = "TOK_TYPEID" => lexinfo(e) \in Name
    BY <2>1 DEF WellFormed, lexinfo, symbol
  <2> QED BY <2>2, <2>3, <2>4 DEF TypeName
<1>2. /\ a = IF symbol(e) = "TOK_VOID" THEN {} ELSE gen
      /\ t = IF symbol(e) = "TOK_TYPEID" THEN lexinfo(e) ELSE NULL
  BY DEF ElementType
<1> HIDE DEF gen, a, t
<1>3. symbol(e) # "TOK_VOID" => Proper(gen, t)
  <2> SUFFICES ASSUME symbol(e) # "TOK_VOID" PROVE Proper(gen, t)
    OBVIOUS
  <2> DEFINE x == tok_basetype_to_attr(symbol(e))
  <2>1. /\ x \in Base \ {"null", "void"}
        /\ x = "struct" <=> symbol(e) = "TOK_TYPEID"
    BY <1>1 DEF tok_basetype_to_attr, TypeName, Base
  <2>2. symbol(e) = "TOK_TYPEID" => t # NULL
    BY <1>1, <1>2, NullAssumption
  <2>3. gen = {x} \cup {"variable"}
    BY DEF gen, node_generate_attributes
  <2>4. "variable" \notin Base /\ "array" \notin Base
    BY DEF Base
  <2> HIDE DEF x
  <2>5. gen \cap Base = {x} /\ ("struct" \in gen <=> x = "struct")
        /\ "void" \notin gen /\ "null" \notin gen
    BY <2>1, <2>3, <2>4
  <2> QED BY <2>1, <2>2, <2>5 DEF Proper, Single
<1>4. ASSUME symbol(n) = "TOK_NEW"
      PROVE  Proper(attr_handle_new(a, t).attributes, t)
  <2>1. attr_handle_new(a, t).attributes = a \cup {"vreg"}
    BY ResultIs DEF attr_handle_new
  <2>2. Proper(a, t)
    BY <1>1, <1>2, <1>3, <1>4
  <2>3. /\ (a \cup {"vreg"}) \cap Base = a \cap Base
        /\ \A x \in {"struct", "array", "void", "null", "lval", "field"} :
             x \in a \cup {"vreg"} <=> x \in a
    BY DEF Base
  <2>4. Proper(a \cup {"vreg"}, t)
    BY <2>2, <2>3 DEF Proper, Single
  <2> QED BY <2>1, <2>4
<1>5. ASSUME symbol(n) = "TOK_NEWARRAY"
      PROVE  IF VoidArray(n)
             THEN attr_handle_newarray(a, t, size).attributes = VoidArrayType
             ELSE Proper(attr_handle_newarray(a, t, size).attributes, t)
  <2> DEFINE A == (a \cap BASE) \cup {"array", "vreg"}
  <2>1. attr_handle_newarray(a, t, size).attributes = A
    BY ResultIs DEF attr_handle_newarray
  <2>2. CASE symbol(e) = "TOK_VOID"
    BY <1>2, <1>5, <2>1, <2>2 DEF VoidArray, VoidArrayType
  <2>3. CASE symbol(e) # "TOK_VOID"
    <3>1. Proper(a, t) /\ ~ VoidArray(n)
      BY <1>2, <1>3, <2>3 DEF VoidArray
    <3>2. a \cap {"void", "null"} = {}
      <4>1. a \cap {"void", "null"}
              \subseteq {tok_basetype_to_attr(symbol(e))}
        BY <1>2, <2>3 DEF gen, node_generate_attributes
      <4>2. tok_basetype_to_attr(symbol(e)) \notin {"void", "null"}
        BY <1>1, <2>3 DEF tok_basetype_to_attr, TypeName
      <4> QED BY <4>1, <4>2
    <3>3. BASE = Base \ {"void", "null"} /\ "array" \notin Base
          /\ "vreg" \notin Base /\ "lval" \notin Base /\ "field" \notin Base
      BY DEF BASE, PRIMITIVE, Base
    <3>4. A \cap Base = a \cap Base /\ ("struct" \in A <=> "struct" \in a)
          /\ A \cap {"void", "null"} = {}
      BY <3>2, <3>3 DEF Base
    <3> HIDE DEF A
    <3>5. Proper(A, t)
      BY <3>1, <3>4 DEF Proper, Single
    <3> QED BY <2>1, <3>1, <3>5
  <2> QED BY <2>2, <2>3
<1> QED BY <1>4, <1>5 DEF a, t

(* The nodes that have no step of their own. *)
LEMMA ProcessSound ==
  ASSUME WellFormed(ast, Name), NEW n \in DOMAIN ast,
         symbol(n) \in Expression \ Separate,
         symbol(n) \in {"TOK_INDEX", "="} =>
           LET a(i) == get_node_attributes(child(n, i))
               t(i) == type_name[child(n, i)]
           IN \A i \in {0, 1} : Proper(a(i), t(i)) \/ a(i) = VoidArrayType,
         process_attributes(n).ok
  PROVE  Proper(process_attributes(n).attributes,
                process_attributes(n).type_name)
<1> DEFINE op == symbol(n)
           r == process_attributes(n)
           a == get_node_attributes(child(n, 0))
           b == get_node_attributes(child(n, 1))
           s == type_name[child(n, 0)]
           t == type_name[child(n, 1)]
<1> USE DEF process_attributes
<1>1. CASE op \in {"+", "-", "*", "/", "%"}
  <2>1. r = attr_handle_binop(a, b)
    BY <1>1
  <2> HIDE DEF r, a, b
  <2> QED BY <2>1, OperatorsSound DEF r, Constants, Unops
<1>2. CASE op \in Unops
  <2>1. r = attr_handle_unop(op, a)
    BY <1>2 DEF Unops
  <2> HIDE DEF r, a, op
  <2> QED BY <1>2, <2>1, OperatorsSound DEF r, Constants
<1>3. CASE op \in Comparisons
  <2>1. r = attr_handle_comparison(op, a, b)
    BY <1>3 DEF Comparisons
  <2> HIDE DEF r, a, b, op
  <2> QED BY <2>1, OperatorsSound DEF r, Constants, Unops
<1>4. CASE op = "TOK_NEWSTRING"
  <2>1. r = attr_handle_newstring(a)
    BY <1>4
  <2> HIDE DEF r, a
  <2> QED BY <2>1, OperatorsSound DEF r, Constants, Unops
<1>5. CASE op \in Constants
  <2>1. r = attr_handle_constant(op)
    BY <1>5 DEF Constants
  <2> HIDE DEF r, op
  <2> QED BY <1>5, <2>1, OperatorsSound DEF r, Unops
<1>6. CASE op = "TOK_INDEX"
  <2>1. r = attr_handle_index(a, s, b)
    BY <1>6
  <2>2. Proper(a, s) \/ a = VoidArrayType
    BY <1>6
  <2>3. r.ok
    OBVIOUS
  <2> HIDE DEF r, a, b, s
  <2> QED BY <2>1, <2>2, <2>3, IndexSound DEF r
<1>7. CASE op = "="
  <2>1. r = attr_handle_assignment(a, b, t)
    BY <1>7
  <2>2. /\ Proper(a, s) \/ a = VoidArrayType
        /\ Proper(b, t) \/ b = VoidArrayType
    BY <1>7
  <2>3. r.ok
    OBVIOUS
  <2> HIDE DEF r, a, b, s, t
  <2> QED BY <2>1, <2>2, <2>3, AssignmentSound DEF r
<1>8. \/ op \in {"+", "-", "*", "/", "%"} \/ op \in Unops \/ op \in Comparisons
      \/ op = "TOK_NEWSTRING" \/ op \in Constants \/ op \in {"TOK_INDEX", "="}
  <2>1. op \in Expression /\ op \notin Separate
    OBVIOUS
  <2> HIDE DEF op
  <2> QED BY <2>1 DEF Expression, NoOperand, OneOperand, TwoOperands, Separate,
                      Unops, Comparisons, Constants
<1> QED BY <1>1, <1>2, <1>3, <1>4, <1>5, <1>6, <1>7, <1>8

(* The children that lie on the way of a node. *)
LEMMA PathOperands ==
  ASSUME WellFormed(ast, Name), NEW n \in DOMAIN ast
  PROVE  /\ symbol(n) \in {"TOK_INDEX", "=", "TOK_CALL", "TOK_RETURN"} =>
              /\ Path(ast, n) = ast[n].children
              /\ 1 \in 1..Len(Path(ast, n))
              /\ Path(ast, n)[1] = child(n, 0)
              /\ symbol(child(n, 0)) \in Expression
              /\ child(n, 0) \in DOMAIN ast
         /\ symbol(n) \in {"TOK_INDEX", "="} =>
              /\ 2 \in 1..Len(Path(ast, n)) /\ Path(ast, n)[2] = child(n, 1)
              /\ symbol(child(n, 1)) \in Expression
              /\ child(n, 1) \in DOMAIN ast
<1> DEFINE s == ast[n].children
<1>1. Built(ast, n) /\ symbol(n) = ast[n].symbol /\ s \in Seq(DOMAIN ast)
  BY KidsFollow DEF WellFormed, symbol
<1>2. ASSUME symbol(n) \in {"TOK_INDEX", "=", "TOK_CALL", "TOK_RETURN"}
      PROVE  /\ Path(ast, n) = s /\ 1 \in 1..Len(s) /\ s[1] = child(n, 0)
             /\ symbol(child(n, 0)) \in Expression
  <2>1. Path(ast, n) = s
    BY <1>2 DEF Path, symbol
  <2>2. Len(s) > 0 /\ ast[s[1]].symbol \in Expression
    <3>1. CASE symbol(n) \in {"TOK_INDEX", "="}
      <4>1. Len(s) = 2 /\ \A i \in DOMAIN s : ast[s[i]].symbol \in Expression
        BY <1>1, <3>1 DEF Built, TwoOperands
      <4> HIDE DEF s
      <4> QED BY <1>1, <4>1
    <3>2. CASE symbol(n) = "TOK_CALL"
      BY <1>1, <3>2 DEF Built, Expression, NoOperand
    <3>3. CASE symbol(n) = "TOK_RETURN"
      BY <1>1, <3>3 DEF Built
    <3> QED BY <1>2, <3>1, <3>2, <3>3
  <2>3. 1 \in 1..Len(s)
    <3> HIDE DEF s
    <3> QED BY <1>1, <2>2
  <2> QED BY <2>1, <2>2, <2>3 DEF child, children, symbol
<1>3. ASSUME symbol(n) \in {"TOK_INDEX", "="}
      PROVE  /\ 2 \in 1..Len(s) /\ s[2] = child(n, 1)
             /\ symbol(child(n, 1)) \in Expression
  <2>1. Len(s) = 2 /\ \A i \in DOMAIN s : ast[s[i]].symbol \in Expression
    BY <1>1, <1>3 DEF Built, TwoOperands
  <2>2. 2 \in 1..Len(s) /\ ast[s[2]].symbol \in Expression
    <3> HIDE DEF s
    <3> QED BY <1>1, <2>1
  <2> QED BY <2>2 DEF child, children, symbol
<1>4. \A i \in 1..Len(s) : s[i] \in DOMAIN ast
  <2> HIDE DEF s
  <2> QED BY <1>1
<1> HIDE DEF s
<1> QED BY <1>2, <1>3, <1>4 DEF s

(* Nothing was reported. *)
Silently == semantic_errors = 0 /\ semantic_errors' = 0

LEMMA SilentSteps ==
  ASSUME DataInv, Silently
  PROVE  /\ ~ Report(1) /\ ~ Report(2)
         /\ \A c : Tell(c) => c.ok
         /\ \A said : ~ Count(1, said) /\ ~ Count(2, said)
<1>1. semantic_errors = 0 /\ semantic_errors' = 0
  BY DEF Silently
<1>2. \A said : ~ Count(1, said) /\ ~ Count(2, said)
  BY <1>1 DEF Count
<1> QED BY <1>1, <1>2 DEF Report, Tell, Count

LEMMA SelectorLeft ==
  ASSUME TraversalInv, DataInv, SymbolsTrue, LeaveSelector, Silently, NEW n,
         n = Caller.node
  PROVE  WellTyped(n)' /\ Ready(n)'
<1> DEFINE t == type_name[child(n, 0)]
           u == child(n, 1)
           known == /\ t \in DOMAIN typeid_table
                    /\ lexinfo(u) \in DOMAIN typeid_table[t]
           field == typeid_table[t][lexinfo(u)]
           a == get_node_attributes(child(n, 0))
           res == attr_handle_field_selector(a, info[field].attributes,
                                             info[field].type_name)
<1>1. /\ Running /\ symbol(n) = "." /\ WellFormed(ast, Name) /\ n \in Node
      /\ n \in DOMAIN ast /\ DOMAIN ast \subseteq Node /\ ast' = ast
  BY CallerIs DEF LeaveSelector, Returning
<1>2. known
  <2> SUFFICES ASSUME ~ known PROVE FALSE
    OBVIOUS
  <2>1. \E c : Count(IF c THEN 1 ELSE 2, TRUE)
    BY DEF LeaveSelector
  <2> QED BY <2>1, SilentSteps
<1>3. /\ Tell(res) /\ attributes' = [attributes EXCEPT ![n] = res.attributes]
      /\ type_name' = [type_name EXCEPT ![u] = res.type_name,
                                        ![n] = res.type_name]
      /\ member' = [member EXCEPT ![n] = field, ![u] = field]
  BY <1>2 DEF LeaveSelector
<1>4. field \in DOMAIN info /\ field # NULL
  BY <1>2, SelectedIsKnown, NullAssumption
     DEF DataInv, InfoTyped, Known
<1>5. u \in Node
  <2>1. Built(ast, n) /\ ast[n].symbol = "."
    BY <1>1 DEF WellFormed, symbol
  <2>2. Len(ast[n].children) = 2 /\ ast[n].children \in Seq(DOMAIN ast)
    BY <1>1, <2>1, KidsFollow DEF Built
  <2> QED BY <1>1, <2>2 DEF child, children
<1>6. Proper(info[field].attributes, info[field].type_name)
  BY <1>1, <1>4, TrueIsProper
<1> HIDE DEF t, field, a
<1>7. Proper(res.attributes, res.type_name)
  <2> DEFINE fa == info[field].attributes
             ft == info[field].type_name
  <2>1. res.ok
    BY <1>3, SilentSteps
  <2>2. res.type_name = ft
    BY ResultIs DEF attr_handle_field_selector
  <2> HIDE DEF fa, ft
  <2>3. Proper(fa, ft)
    BY <1>6 DEF fa, ft
  <2>4. res = attr_handle_field_selector(a, fa, ft)
    BY DEF fa, ft
  <2> HIDE DEF res
  <2> QED BY <2>1, <2>3, <2>4, SelectorSound
<1> HIDE DEF res
<1>8. attributes'[n] = res.attributes /\ type_name'[n] = res.type_name
  BY <1>1, <1>3, <1>5 DEF DataInv, NodesTyped
<1>9. member'[u] # NULL
  BY <1>1, <1>3, <1>4, <1>5 DEF DataInv, LinksTyped
<1>10. symbol(n)' = "." /\ child(n, 1)' = u /\ ~ VoidArray(n)'
  BY <1>1 DEF symbol, child, children, VoidArray
<1>11. "." \notin VariableTypes
  BY DEF VariableTypes
<1> HIDE DEF u
<1> QED BY <1>7, <1>8, <1>9, <1>10, <1>11 DEF WellTyped, Ready

LEMMA IdentLeft ==
  ASSUME TraversalInv, DataInv, LeaveIdent, Silently, NEW n, n = Caller.node
  PROVE  WellTyped(n)' /\ Ready(n)'
<1> DEFINE d == find_symbol(lexinfo(n))
<1>1. /\ Running /\ symbol(n) = "TOK_IDENT" /\ n \in Node /\ ast' = ast
      /\ symentry' = [symentry EXCEPT ![n] = d] /\ info' = info
      /\ d = NULL => Report(1)
      /\ d # NULL => type_name' = [type_name EXCEPT ![n] = info[d].type_name]
  BY CallerIs DEF LeaveIdent, Returning, UseSymbol
<1>2. d # NULL
  BY <1>1, SilentSteps
<1> HIDE DEF d
<1>3. symentry'[n] = d /\ type_name'[n] = info[d].type_name
  BY <1>1, <1>2 DEF DataInv, NodesTyped, LinksTyped
<1>4. symbol(n)' = "TOK_IDENT"
  BY <1>1 DEF symbol
<1> QED BY <1>1, <1>2, <1>3, <1>4 DEF WellTyped, Ready, VariableTypes

LEMMA AllocatorLeft ==
  ASSUME TraversalInv, DataInv, LeaveAllocator, Silently, NEW n,
         n = Caller.node
  PROVE  WellTyped(n)' /\ Ready(n)'
<1> DEFINE e == ElementType(n)
           size == get_node_attributes(child(n, 1))
           new == attr_handle_new(e.attributes, e.type_name)
           array == attr_handle_newarray(e.attributes, e.type_name, size)
           res == IF symbol(n) = "TOK_NEW" THEN new ELSE array
<1>1. /\ Running /\ symbol(n) \in {"TOK_NEW", "TOK_NEWARRAY"}
      /\ WellFormed(ast, Name) /\ n \in Node
      /\ n \in DOMAIN ast /\ DOMAIN ast \subseteq Node /\ ast' = ast
      /\ attributes' = [attributes EXCEPT ![child(n, 0)] = e.attributes,
                                          ![n] = res.attributes]
      /\ type_name' = [type_name EXCEPT ![child(n, 0)] = e.type_name,
                                        ![n] = res.type_name]
  BY CallerIs DEF LeaveAllocator, Returning
<1>2. IF VoidArray(n) THEN res.attributes = VoidArrayType
      ELSE Proper(res.attributes, res.type_name)
  <2> DEFINE a == e.attributes
             t == e.type_name
  <2>1. /\ symbol(n) = "TOK_NEW" => Proper(new.attributes, t)
        /\ symbol(n) = "TOK_NEWARRAY" =>
             IF VoidArray(n) THEN array.attributes = VoidArrayType
             ELSE Proper(array.attributes, t)
    BY <1>1, AllocatedSound
  <2>2. new.type_name = t /\ array.type_name = t
    BY ResultIs DEF attr_handle_new, attr_handle_newarray
  <2>3. VoidArray(n) => symbol(n) = "TOK_NEWARRAY"
    BY DEF VoidArray
  <2> HIDE DEF new, array
  <2> QED BY <1>1, <2>1, <2>2, <2>3
<1> HIDE DEF e, res
<1>3. attributes'[n] = res.attributes /\ type_name'[n] = res.type_name
  BY <1>1 DEF DataInv, NodesTyped
<1>4. symbol(n)' = symbol(n) /\ VoidArray(n)' = VoidArray(n)
  BY <1>1 DEF symbol, child, children, VoidArray
<1>5. symbol(n) \notin VariableTypes \cup {"TOK_IDENT", ".", "TOK_STRUCT",
                                      "TOK_VOID"}
  BY <1>1 DEF VariableTypes
<1> QED BY <1>2, <1>3, <1>4, <1>5 DEF WellTyped, Ready

(* What it calls is bound, if what lies on its way is right. *)
LEMMA CallLeft ==
  ASSUME TraversalInv, DataInv, CrashInv, SymbolsTrue, LeaveCall, Silently,
         NEW n, n = Caller.node,
         WellTyped(child(n, 0))
  PROVE  WellTyped(n)' /\ Ready(n)'
<1> DEFINE f == symentry[child(n, 0)]
           res == CallResult(n)
<1>1. /\ Running /\ symbol(n) = "TOK_CALL" /\ WellFormed(ast, Name)
      /\ n \in Node /\ n \in DOMAIN ast /\ DOMAIN ast \subseteq Node
      /\ ast' = ast
  BY CallerIs DEF LeaveCall, Returning
<1>2. child(n, 0) \in Node /\ symbol(child(n, 0)) = "TOK_IDENT"
  <2>1. child(n, 0) \in DOMAIN ast
    BY <1>1, Operands
  <2>2. Built(ast, n) /\ ast[n].symbol = "TOK_CALL"
    BY <1>1 DEF WellFormed, symbol
  <2>3. ast[ast[n].children[1]].symbol = "TOK_IDENT"
    BY <2>2 DEF Built
  <2> QED BY <1>1, <2>1, <2>3 DEF symbol, child, children
<1>3. f # NULL /\ f \in DOMAIN info
  <2>1. f # NULL
    BY <1>2 DEF WellTyped
  <2>2. f \in Declared \cup {NULL} /\ Declared \subseteq DOMAIN info
    BY <1>2 DEF DataInv, LinksTyped, InfoTyped, Known
  <2> QED BY <2>1, <2>2
<1>4. ~ CallBroken(n)
  BY <1>2, <1>3, BrokenHasNull DEF DataInv, CrashInv, Silently
<1>5. /\ Tell(res)
      /\ attributes' = [attributes EXCEPT ![n] = res.attributes]
      /\ type_name' = [type_name EXCEPT ![n] = res.type_name]
  BY <1>3, <1>4 DEF LeaveCall, CallResult, CallParams, CallArgs, CallBroken
<1>6. Proper(res.attributes, res.type_name)
  <2> DEFINE fa == info[f].attributes
             ft == info[f].type_name
             params == CallParams(n)
             args == CallArgs(n)
  <2>1. Proper(fa, ft)
    BY <1>1, <1>3, TrueIsProper
  <2>2. res = attr_handle_call(fa, ft, params, args)
    BY DEF CallResult
  <2>3. res.ok
    BY <1>5, SilentSteps
  <2> HIDE DEF fa, ft, params, args, res
  <2> QED BY <2>1, <2>2, <2>3, CallSound
<1> HIDE DEF res
<1>7. attributes'[n] = res.attributes /\ type_name'[n] = res.type_name
  BY <1>1, <1>5 DEF DataInv, NodesTyped
<1>8. symbol(n)' = "TOK_CALL" /\ ~ VoidArray(n)'
  BY <1>1 DEF symbol, VoidArray
<1>9. "TOK_CALL" \notin VariableTypes
  BY DEF VariableTypes
<1> QED BY <1>6, <1>7, <1>8, <1>9 DEF WellTyped, Ready

LEMMA NodeLeft ==
  ASSUME TraversalInv, DataInv, SymbolsTrue, LeaveNode, Silently,
         NEW n, n = Caller.node,
         \A k \in 1..Len(Path(ast, n)) : WellTyped(Path(ast, n)[k])
  PROVE  WellTyped(n)' /\ Ready(n)'
<1> DEFINE res == process_attributes(n)
<1>1. /\ Running /\ WellFormed(ast, Name) /\ n \in Node /\ n \in DOMAIN ast
      /\ DOMAIN ast \subseteq Node /\ ast' = ast /\ TraversalInv
      /\ symbol(n) \notin Unstacked
  <2>1. Running
    BY DEF LeaveNode
  <2>2. calls \in Seq(Frames(ast)) /\ calls # <<>> /\ Caller = calls[Len(calls)]
    BY <2>1, CallerIs
  <2>3. Len(calls) \in 1..Len(calls)
    BY <2>2, FrontFacts
  <2>4. ast[calls[Len(calls)].node].symbol \notin Unstacked
    BY <2>3 DEF TraversalInv, Walk
  <2> QED BY <2>1, <2>2, <2>4, CallerIs DEF LeaveNode, symbol
<1>2. /\ symbol(n) \notin Separate /\ Tell(res)
      /\ attributes' = [attributes EXCEPT ![n] = res.attributes]
      /\ type_name' = [type_name EXCEPT ![n] = res.type_name]
  BY DEF LeaveNode, Separate
<1>3. symbol(n) \in Expression => Proper(res.attributes, res.type_name)
  <2> SUFFICES ASSUME symbol(n) \in Expression
               PROVE  Proper(res.attributes, res.type_name)
    OBVIOUS
  <2> DEFINE a(i) == get_node_attributes(child(n, i))
             t(i) == type_name[child(n, i)]
  <2>1. ASSUME symbol(n) \in {"TOK_INDEX", "="}
        PROVE  \A i \in {0, 1} : Proper(a(i), t(i)) \/ a(i) = VoidArrayType
    <3>1. /\ child(n, 0) \in DOMAIN ast /\ symbol(child(n, 0)) \in Expression
          /\ child(n, 1) \in DOMAIN ast /\ symbol(child(n, 1)) \in Expression
          /\ WellTyped(child(n, 0)) /\ WellTyped(child(n, 1))
      BY <1>1, <2>1, PathOperands
    <3>2. Proper(a(0), t(0)) \/ a(0) = VoidArrayType
      BY <3>1, OperandTyped
    <3>3. Proper(a(1), t(1)) \/ a(1) = VoidArrayType
      BY <3>1, OperandTyped
    <3> HIDE DEF a, t
    <3> QED BY <3>2, <3>3
  <2>2. res.ok
    BY <1>2, SilentSteps
  <2> QED BY <1>1, <1>2, <2>1, <2>2, ProcessSound
<1> HIDE DEF res
<1>4. attributes'[n] = res.attributes /\ type_name'[n] = res.type_name
  BY <1>1, <1>2 DEF DataInv, NodesTyped
<1>5. symbol(n)' = symbol(n) /\ ~ VoidArray(n)'
  BY <1>1, <1>2 DEF symbol, VoidArray, Separate
<1>6. symbol(n) \notin VariableTypes \cup {"TOK_IDENT", ".", "TOK_STRUCT",
                                      "TOK_VOID"}
  BY <1>1, <1>2 DEF Unstacked, Special, Separate
<1> QED BY <1>3, <1>4, <1>5, <1>6 DEF WellTyped, Ready

LEMMA LeftIsRight ==
  ASSUME TraversalInv, DataInv, CrashInv, SymbolsTrue, Next, Leaves, Silently,
         NEW S, \A m \in S : WellTyped(m),
         Met(ast, calls, S \cup OnStack(calls)),
         NEW m, m = Caller.node
  PROVE  WellTyped(m)' /\ Ready(m)'
<1>1. /\ Running /\ ~ HasNext /\ WellFormed(ast, Name) /\ m \in DOMAIN ast
      /\ ast' = ast
  BY Moves, CallerIs DEF Leaves
<1>2. \A k \in 1..Len(Path(ast, m)) : WellTyped(Path(ast, m)[k])
  BY <1>1, LeftIsMet
<1>3. CASE LeaveIdent
  BY <1>3, IdentLeft
<1>4. CASE LeaveSelector
  BY <1>4, SelectorLeft
<1>5. CASE LeaveAllocator
  BY <1>5, AllocatorLeft
<1>6. CASE LeaveCall
  <2>1. symbol(m) = "TOK_CALL"
    BY <1>6 DEF LeaveCall, Returning
  <2>2. WellTyped(child(m, 0))
    BY <1>1, <1>2, <2>1, PathOperands
  <2> QED BY <1>6, <2>2, CallLeft
<1>7. CASE LeaveNode
  BY <1>2, <1>7, NodeLeft
<1>8. CASE EndParams \/ EndFunction
  <2>1. symbol(m) \in {"TOK_PARAMLIST", "TOK_FUNCTION", "TOK_PROTOTYPE"}
    BY <1>8 DEF EndParams, EndFunction, Returning
  <2>2. symbol(m)' = symbol(m)
    BY <1>1 DEF symbol
  <2>3. symbol(m) \notin Expression \cup VariableTypes
                           \cup {"TOK_IDENT", ".", "TOK_STRUCT", "TOK_VOID"}
    BY <2>1 DEF Expression, NoOperand, OneOperand, TwoOperands,
                VariableTypes
  <2> QED BY <2>2, <2>3 DEF WellTyped, Ready
<1>9. ASSUME VisitDeclaration \/ VisitVoid \/ VisitStruct \/ VisitFunction
       PROVE  FALSE
  BY <1>1, <1>9 DEF VisitDeclaration, VisitVoid, VisitStruct, VisitFunction,
                     Visiting
<1>10. ASSUME DeclareParam \/ VisitNode PROVE FALSE
  BY <1>1, <1>10 DEF DeclareParam, VisitNode
<1> QED BY <1>3, <1>4, <1>5, <1>6, <1>7, <1>8, <1>9, <1>10 DEF Next

-----------------------------------------------------------------------------
(* What is passed over without an error is right.                          *)

LEMMA DeclarationPassed ==
  ASSUME TraversalInv, DataInv, VisitDeclaration \/ DeclareParam, Silently,
         ast' = ast, NEW m, m = Next_node
  PROVE  Ready(m)' /\ symbol(m) # "TOK_FUNCTION"
<1> DEFINE d == declared(m)
<1>1. /\ Running /\ HasNext
      /\ \/ symbol(Caller.node) = "TOK_PARAMLIST"
         \/ symbol(Next_node) \in VariableTypes
      /\ \E initial : /\ Symbolize(m, initial)
                      /\ Symbolized(m, initial) \/ Report(1)
  BY DEF VisitDeclaration, DeclareParam, Visiting
<1>2. Declaration(ast, m, "TOK_DECLID")
  BY <1>1, NextDeclares
<1>3. d \in Node
  BY <1>1, <1>2, NewDeclaration
<1>4. symentry' = [symentry EXCEPT ![d] = d]
  BY <1>1, SilentSteps, Symbolizes
<1>5. symentry'[d] # NULL
  <2> HIDE DEF d
  <2> QED BY <1>3, <1>4, NullAssumption DEF DataInv, LinksTyped
<1>6. /\ symbol(m)' = symbol(m) /\ declared(m)' = d
      /\ Declaration(ast, m, "TOK_DECLID")'
  BY <1>2 DEF symbol, declared, IsArray, child, children, Declaration, Type
<1>7. symbol(m) \notin {".", "TOK_STRUCT", "TOK_FUNCTION"}
  BY <1>2 DEF Declaration, symbol, TypeName
<1> HIDE DEF d
<1> QED BY <1>5, <1>6, <1>7 DEF Ready

LEMMA StructPassed ==
  ASSUME TraversalInv, DataInv, VisitStruct, Silently, ast' = ast,
         NEW m, m = Next_node
  PROVE  Ready(m)'
<1> DEFINE fields == {declared(child(m, i)) : i \in 1..arity(m) - 1}
<1>1. Running /\ HasNext /\ symbol(m) = "TOK_STRUCT"
  BY DEF VisitStruct, Visiting
<1>2. /\ WellFormed(ast, Name) /\ DOMAIN ast \subseteq Node
      /\ m \in DOMAIN ast
  BY <1>1, CallerIs, Goes
<1>3. fields \subseteq Node
  BY <1>1, <1>2, StructFields
<1>4. member' = [u \in Node |-> IF u \in fields THEN u ELSE member[u]]
  BY SilentSteps DEF VisitStruct
<1>5. \A i \in 1..arity(m) - 1 : declared(child(m, i)) \in fields
  OBVIOUS
<1>6. \A d \in fields : member'[d] # NULL
  <2> HIDE DEF fields
  <2> QED BY <1>3, <1>4, NullAssumption
<1>7. /\ symbol(m)' = "TOK_STRUCT" /\ arity(m)' = arity(m)
      /\ \A i : declared(child(m, i))' = declared(child(m, i))
  BY <1>1 DEF symbol, declared, IsArray, child, children, arity
<1>8. "TOK_STRUCT" \notin VariableTypes
  BY DEF VariableTypes
<1> HIDE DEF fields
<1> QED BY <1>5, <1>6, <1>7, <1>8 DEF Ready

LEMMA PassedIsRight ==
  ASSUME TraversalInv, DataInv, Next, Passes, Silently, NEW m, m = Next_node
  PROVE  WellTyped(m)' /\ Ready(m)' /\ symbol(m) # "TOK_FUNCTION"
<1>1. /\ Running /\ HasNext /\ ast' = ast /\ calls' = Advanced
      /\ Advanced \in Seq(Frames(ast))
      /\ symbol(m) \in PassedOver /\ m \in DOMAIN ast
  BY Moves, Goes DEF Passes
<1>2. symbol(m)' = symbol(m)
  BY <1>1 DEF symbol
<1>3. WellTyped(m)'
  <2>1. symbol(m) \notin Expression /\ symbol(m) # "TOK_IDENT"
    BY <1>1 DEF PassedOver, VariableTypes, TypeName, Callables, Expression,
                NoOperand, OneOperand, TwoOperands
  <2> QED BY <1>2, <2>1 DEF WellTyped
<1>4. CASE VisitDeclaration \/ DeclareParam
  BY <1>1, <1>3, <1>4, DeclarationPassed
<1>5. CASE VisitVoid
  BY <1>5, SilentSteps DEF VisitVoid
<1>6. CASE VisitStruct
  BY <1>1, <1>3, <1>6, StructPassed DEF VisitStruct, Visiting
<1>7. CASE VisitFunction
  <2>1. symbol(m) \in {"TOK_FUNCTION", "TOK_PROTOTYPE"}
    BY <1>7 DEF VisitFunction, Visiting
  <2>2. Ready(m)'
    BY <1>2, <2>1 DEF Ready, VariableTypes
  <2>3. ASSUME symbol(m) = "TOK_FUNCTION" PROVE FALSE
    <3>1. \E prev : EnterFunction(m, prev)
      BY <1>7, <2>3, SilentSteps DEF VisitFunction, SkipFunction
    <3> DEFINE f == [node |-> m, next |-> 2]
               h == Frame(child(m, 1))
    <3>2. Advanced = Advanced \o <<f, h>>
      BY <1>1, <3>1 DEF EnterFunction, Call
    <3>3. child(m, 1) \in DOMAIN ast
      BY <1>1, <2>3, CallerIs, FunctionDeclares
    <3>4. f \in Frames(ast) /\ h \in Frames(ast)
      BY <1>1, <3>3 DEF Frame, Frames
    <3> DEFINE cs == Advanced
    <3> HIDE DEF f, h, cs
    <3>5. cs \in Seq(Frames(ast)) /\ cs = cs \o <<f, h>>
      BY <1>1, <3>2 DEF cs
    <3>6. Len(cs \o <<f, h>>) = Len(cs) + 2 /\ Len(cs) \in Nat
      BY <3>4, <3>5
    <3> QED BY <3>5, <3>6
  <2> QED BY <1>3, <2>2, <2>3
<1>8. ASSUME VisitNode PROVE FALSE
  BY <1>1, <1>8 DEF VisitNode, PassedOver, Special, VariableTypes, TypeName,
                    Callables
<1>9. ASSUME EndParams \/ EndFunction \/ LeaveIdent \/ LeaveSelector
             \/ LeaveAllocator \/ LeaveCall \/ LeaveNode
      PROVE  FALSE
  BY <1>1, <1>9 DEF EndParams, EndFunction, LeaveIdent, LeaveSelector,
                    LeaveAllocator, LeaveCall, LeaveNode, Returning
<1> QED BY <1>4, <1>5, <1>6, <1>7, <1>8, <1>9 DEF Next

(* A function that is entered gets a symbol, or the name has one from an   *)
(* earlier declaration.                                                    *)
FunctionReady(f) ==
  symbol(f) = "TOK_FUNCTION" =>
    LET d == declared(child(f, 0)) IN
    \/ symentry[d] # NULL
    \/ \E g \in Declared : /\ g < d
                           /\ symbols[g] = [lexinfo  |-> lexinfo(d),
                                            block_nr |-> 0]

LEMMA SymbolsKept ==
  ASSUME [ScopesNext]_scopeVars, NEW g \in Declared
  PROVE  g \in Declared' /\ symbols'[g] = symbols[g]
<1>1. ASSUME NEW d \in Node \ Declared, NEW n, NEW level, Insert(d, n, level)
      PROVE  g \in Declared' /\ symbols'[g] = symbols[g]
  BY <1>1 DEF Insert, Extend, Declared
<1>2. CASE UNCHANGED symbols
  BY <1>2 DEF Declared
<1> QED BY <1>1, <1>2
  DEF ScopesNext, EnterBlock, LeaveBlock, DeclareNothing, DeclareLocal,
      BeginFunction, UseSymbol, scopeVars

LEMMA BeginsReady ==
  ASSUME TraversalInv, DataInv, Next, Begins_function, NEW m, m = Next_node
  PROVE  FunctionReady(m)'
<1> DEFINE d == declared(child(m, 0))
           name == lexinfo(d)
           prev == GlobalSymbol(name)
<1>1. /\ Running /\ HasNext /\ ast' = ast /\ ScopesInv
      /\ symbol(m) \in {"TOK_FUNCTION", "TOK_PROTOTYPE"}
      /\ EnterFunction(m, prev)
  BY Moves DEF Begins_function, Callables, TraversalInv
<1>2. /\ WellFormed(ast, Name) /\ m \in DOMAIN ast /\ m \in Nat
      /\ \A g \in Declared : g < m
  BY <1>1, CallerIs, Goes
<1>3. d \in Node /\ name \in Name
  BY <1>1, FunctionSymbol
<1>4. d \in Nat /\ m < d
  <2> DEFINE c == child(m, 0)
  <2>1. /\ c \in Kids(ast, m) /\ d \in Kids(ast, c) /\ c \in DOMAIN ast
    BY <1>1, <1>2, FunctionDeclares
  <2> HIDE DEF c, d
  <2>2. m < c /\ c < d /\ c \in Nat /\ d \in Nat
    BY <1>2, <2>1, KidsType
  <2> QED BY <1>2, <2>2
<1>5. BeginFunction(d, name)
  BY <1>1 DEF EnterFunction
<1>6. CASE prev = NULL
  <2> HIDE DEF name
  <2>1. symentry' = [symentry EXCEPT ![d] = d]
    BY <1>1, <1>3, <1>5, <1>6, Begins
  <2> HIDE DEF d
  <2>2. symentry'[d] # NULL
    BY <1>3, <2>1, NullAssumption DEF DataInv, LinksTyped
  <2>3. declared(child(m, 0))' = d
    BY <1>1 DEF d, declared, IsArray, symbol, child, children
  <2> QED BY <2>2, <2>3 DEF FunctionReady
<1>7. CASE prev # NULL
  <2>1. name \in DOMAIN TableAt(1)
    BY <1>7 DEF GlobalSymbol, find_symbol_in_table
  <2>2. symbols' = symbols
    <3>1. Insert(d, name, 1)
      BY <1>5 DEF BeginFunction
    <3> QED BY <2>1, <3>1 DEF Insert
  <2>3. /\ prev \in Declared
        /\ symbols[prev] = [lexinfo |-> name, block_nr |-> 0]
    <3> HIDE DEF name
    <3>1. prev = TableAt(1)[name]
      BY <1>1, <2>1, GlobalIsDeclared
    <3>2. /\ Stacks(symbol_stack, block_num_stack, next_block)
          /\ Sound(symbol_stack, block_num_stack, symbols)
      BY <1>1 DEF ScopesInv, Good
    <3>3. block_num_stack[1] = 0 /\ 1 \in 1..Len(symbol_stack)
      BY <3>2 DEF Stacks
    <3>4. TableAt(1) = TableIn(symbol_stack, 1)
      BY DEF TableAt, TableIn
    <3> QED BY <2>1, <3>1, <3>2, <3>3, <3>4 DEF Sound, Declared
  <2> HIDE DEF prev
  <2>4. prev < d /\ prev \in Declared'
    <3>1. prev < m /\ prev \in Nat
      <4>1. prev \in DOMAIN ast
        BY <2>3 DEF TraversalInv, Walk
      <4> QED BY <1>2, <2>3, <4>1, KidsFollow
    <3> HIDE DEF d
    <3>2. prev < d
      BY <1>2, <1>4, <3>1
    <3> QED BY <2>2, <2>3, <3>2 DEF Declared
  <2>5. /\ declared(child(m, 0))' = d
        /\ lexinfo(declared(child(m, 0)))' = name
    BY <1>1 DEF declared, IsArray, symbol, child, children, lexinfo
  <2> HIDE DEF d, name
  <2>6. symbols'[prev] = [lexinfo |-> name, block_nr |-> 0]
    BY <2>2, <2>3
  <2> QED BY <2>4, <2>5, <2>6 DEF FunctionReady
<1> QED BY <1>6, <1>7

LEMMA FunctionStaysReady ==
  ASSUME TraversalInv, DataInv, Next, NEW f \in DOMAIN ast, FunctionReady(f)
  PROVE  FunctionReady(f)'
<1> DEFINE d == declared(child(f, 0))
<1>1. ast' = ast /\ [ScopesNext]_scopeVars /\ WellFormed(ast, Name)
      /\ DOMAIN ast \subseteq Node
  BY Moves, TraversalStep, Tree DEF TraversalInv
<1>2. /\ symbol(f)' = symbol(f)
      /\ lexinfo(declared(child(f, 0)))' = lexinfo(d)
      /\ declared(child(f, 0))' = d
  BY <1>1 DEF symbol, lexinfo, child, children, declared, IsArray
<1>3. ASSUME symbol(f) = "TOK_FUNCTION"
      PROVE  symentry[d] # NULL => symentry'[d] # NULL
  <2>1. d \in DOMAIN ast /\ Declaration(ast, child(f, 0), "TOK_DECLID")
        /\ child(f, 0) \in DOMAIN ast
    BY <1>1, <1>3, FunctionDeclares
  <2>2. symbol(d) = "TOK_DECLID"
    BY <1>1, <2>1, DeclaredIs, DeclarationDeclares DEF symbol
  <2> HIDE DEF d
  <2> QED BY <1>1, <2>1, <2>2, BindingStays
<1> HIDE DEF d
<1>4. ASSUME symbol(f) = "TOK_FUNCTION"
      PROVE  \/ symentry[d] # NULL
             \/ \E g \in Declared : /\ g < d
                                    /\ symbols[g] = [lexinfo  |-> lexinfo(d),
                                                     block_nr |-> 0]
  BY <1>4 DEF FunctionReady, d
<1>5. \A g \in Declared : g \in Declared' /\ symbols'[g] = symbols[g]
  BY <1>1, SymbolsKept
<1> QED BY <1>2, <1>3, <1>4, <1>5 DEF FunctionReady

-----------------------------------------------------------------------------
(* What a step makes of the frames and of what they went over.             *)

LEMMA MetNext ==
  ASSUME TraversalInv, Next, NEW S, Met(ast, calls, S \cup OnStack(calls)),
         NEW v, v = Next_node, NEW c, c = Caller.node
  PROVE  /\ Passes => /\ Met(ast, calls', S \cup {v} \cup OnStack(calls'))
                      /\ OnStack(calls') = OnStack(calls)
         /\ Enters => /\ Met(ast, calls', S \cup OnStack(calls'))
                      /\ OnStack(calls') = OnStack(calls) \cup {v}
         /\ Begins_function =>
              /\ Met(ast, calls', S \cup OnStack(calls'))
              /\ OnStack(calls') = OnStack(calls) \cup {v, child(v, 1)}
         /\ Leaves => /\ Met(ast, calls', S \cup {c} \cup OnStack(calls'))
                      /\ OnStack(calls) = OnStack(calls') \cup {c}
<1>1. /\ Running /\ WellFormed(ast, Name) /\ calls \in Seq(Frames(ast))
      /\ calls # <<>>
  BY Moves, CallerIs
<1>2. HasNext => v \in DOMAIN ast
  BY <1>1, Goes
<1>3. CASE Passes
  <2>1. HasNext /\ calls' = Advanced
    BY <1>3 DEF Passes
  <2> DEFINE set == S \cup {v} \cup OnStack(calls)
  <2>2. Met(ast, calls, set) /\ v \in set
    BY MetWidens
  <2> HIDE DEF set
  <2>3. Met(ast, Advanced, set) /\ OnStack(Advanced) = OnStack(calls)
    BY <1>1, <2>1, <2>2, AdvancedMeets
  <2>4. set = S \cup {v} \cup OnStack(calls')
    BY <2>1, <2>3 DEF set
  <2>5. ~ Enters /\ ~ Begins_function /\ ~ Leaves
    <3>1. ~ Leaves /\ ~ Enters
      BY <1>3 DEF Leaves, Passes, Enters, PassedOver, Special, VariableTypes,
                  TypeName, Callables
    <3>2. ASSUME Begins_function PROVE FALSE
      <4> DEFINE cs == Advanced
                 f == [node |-> v, next |-> 2]
                 g == Frame(child(v, 1))
                 fs == Append(cs, f)
      <4>1. /\ cs = Append(fs, g) /\ cs \in Seq(Frames(ast))
            /\ symbol(v) \in Callables
        BY <1>1, <2>1, <3>2, Goes DEF Begins_function
      <4>2. child(v, 1) \in DOMAIN ast
        BY <1>1, <1>2, <2>1, <4>1, FunctionDeclares DEF Callables
      <4>3. f \in Frames(ast) /\ g \in Frames(ast)
        BY <1>2, <2>1, <4>2 DEF Frame, Frames
      <4> HIDE DEF cs, f, g, fs
      <4>4. fs \in Seq(Frames(ast)) /\ Len(fs) = Len(cs) + 1 /\ Len(cs) \in Nat
        BY <4>1, <4>3 DEF fs
      <4>5. Len(cs) = Len(fs) + 1
        BY <4>1, <4>3, <4>4
      <4> QED BY <4>4, <4>5
    <3> QED BY <3>1, <3>2
  <2> QED BY <2>1, <2>3, <2>4, <2>5
<1>4. CASE Enters
  <2>1. HasNext /\ calls' = Append(Advanced, Frame(v)) /\ v \in DOMAIN ast
    BY <1>2, <1>4 DEF Enters
  <2> DEFINE set == S \cup OnStack(calls) \cup {v}
  <2>2. Met(ast, calls, set) /\ v \in set
    BY MetWidens
  <2> HIDE DEF set
  <2>3. /\ Met(ast, Advanced, set) /\ OnStack(Advanced) = OnStack(calls)
        /\ Advanced \in Seq(Frames(ast))
    BY <1>1, <2>1, <2>2, AdvancedMeets
  <2>4. /\ Frame(v) \in Frames(ast) /\ Frame(v).node = v /\ Frame(v).next = 1
    BY <2>1 DEF Frame, Frames
  <2>5. Path(ast, v) \in Seq(DOMAIN ast)
    BY <1>1, <2>1, PathFollows
  <2>6. \A k \in 1..Len(Path(ast, v)) : ~ (k < 1)
    BY <2>5
  <2>7. /\ Met(ast, Append(Advanced, Frame(v)), set)
        /\ OnStack(Append(Advanced, Frame(v))) = OnStack(Advanced) \cup {v}
    BY <2>3, <2>4, <2>6, MetPushed
  <2>8. set = S \cup OnStack(calls')
    BY <2>1, <2>3, <2>7 DEF set
  <2>9. ~ Passes /\ ~ Begins_function /\ ~ Leaves
    BY <1>4 DEF Leaves, Passes, Enters, Begins_function, PassedOver, Special,
                VariableTypes, TypeName, Callables
  <2> QED BY <2>1, <2>3, <2>7, <2>8, <2>9
<1>5. CASE Begins_function
  <2> DEFINE f == [node |-> v, next |-> 2]
             pl == child(v, 1)
             g == Frame(pl)
             set == S \cup OnStack(calls) \cup {v, pl}
  <2>1. /\ HasNext /\ symbol(v) \in Callables
        /\ calls' = Append(Append(Advanced, f), g)
    BY <1>5 DEF Begins_function
  <2>2. v \in DOMAIN ast
    BY <1>2, <2>1
  <2>3. pl \in DOMAIN ast
    BY <1>1, <2>1, <2>2, FunctionDeclares DEF Callables
  <2>4. Met(ast, calls, set) /\ v \in set /\ pl \in set
    BY MetWidens
  <2> HIDE DEF set
  <2>5. /\ Met(ast, Advanced, set) /\ OnStack(Advanced) = OnStack(calls)
        /\ Advanced \in Seq(Frames(ast))
    BY <1>1, <2>1, <2>4, AdvancedMeets
  <2>6. /\ f \in Frames(ast) /\ f.node = v /\ f.next = 2
        /\ g \in Frames(ast) /\ g.node = pl /\ g.next = 1
    BY <2>2, <2>3 DEF Frame, Frames
  <2> HIDE DEF f, g
  <2>7. Path(ast, v)[1] = pl
    <3>1. CASE symbol(v) = "TOK_PROTOTYPE"
      BY <3>1 DEF Path, symbol, child, children
    <3>2. CASE symbol(v) = "TOK_FUNCTION"
      <4> DEFINE b == ast[Body(ast, v)].children
      <4>1. Path(ast, v) = <<pl>> \o b
        BY <3>2 DEF Path, symbol, child, children
      <4>2. b \in Seq(DOMAIN ast)
        <5>1. Body(ast, v) \in DOMAIN ast
          BY <1>1, <2>2, <3>2, BodyIsKid DEF symbol
        <5> QED BY <1>1, <5>1, KidsFollow
      <4> HIDE DEF b, pl
      <4>3. /\ <<pl>> \in Seq({pl} \cup DOMAIN ast)
            /\ b \in Seq({pl} \cup DOMAIN ast)
        BY <4>2
      <4>4. (<<pl>> \o b)[1] = pl
        BY <4>3
      <4> QED BY <4>1, <4>4
    <3> QED BY <2>1, <3>1, <3>2 DEF Callables
  <2>8. \A k \in 1..Len(Path(ast, v)) : k < 2 => Path(ast, v)[k] \in set
    <3>1. Path(ast, v) \in Seq(DOMAIN ast)
      BY <1>1, <2>2, PathFollows
    <3>2. \A k \in 1..Len(Path(ast, v)) : k < 2 => k = 1
      BY <3>1
    <3> HIDE DEF pl
    <3> QED BY <2>4, <2>7, <3>2
  <2>9. \A k \in 1..Len(Path(ast, pl)) : ~ (k < 1)
    <3> HIDE DEF pl
    <3>1. Path(ast, pl) \in Seq(DOMAIN ast)
      BY <1>1, <2>3, PathFollows
    <3> QED BY <3>1
  <2> HIDE DEF pl
  <2>10. /\ \A k \in 1..Len(Path(ast, f.node)) :
              k < f.next => Path(ast, f.node)[k] \in set
         /\ \A k \in 1..Len(Path(ast, g.node)) :
              k < g.next => Path(ast, g.node)[k] \in set
    BY <2>6, <2>8, <2>9
  <2>11. /\ Met(ast, Append(Append(Advanced, f), g), set)
         /\ OnStack(Append(Append(Advanced, f), g))
              = OnStack(Advanced) \cup {v, pl}
    BY <2>5, <2>6, <2>10, MetPushedTwice
  <2>12. set = S \cup OnStack(calls')
    BY <2>1, <2>5, <2>11 DEF set
  <2>13. ~ Enters /\ ~ Leaves
    BY <2>1 DEF Leaves, Enters, Special, Callables
  <2> QED BY <1>3, <2>1, <2>5, <2>11, <2>12, <2>13 DEF pl
<1>6. CASE Leaves
  <2>1. calls' = Front(calls) /\ c = Last(calls).node
    BY <1>6 DEF Leaves, Caller
  <2>2. OnStack(calls) = OnStack(calls') \cup {c}
    BY <1>1, <2>1, MetPopped
  <2> DEFINE set == S \cup {c} \cup OnStack(calls')
  <2>3. Met(ast, calls, set)
    BY <2>2, MetWidens
  <2> HIDE DEF set
  <2>4. Met(ast, calls', set)
    BY <1>1, <2>1, <2>3, MetPopped
  <2>5. ~ Passes /\ ~ Enters /\ ~ Begins_function
    BY <1>6 DEF Leaves, Passes, Enters, Begins_function
  <2> QED BY <2>2, <2>4, <2>5 DEF set
<1> QED BY <1>3, <1>4, <1>5, <1>6

-----------------------------------------------------------------------------
(* The nodes that the pass is done with.                                   *)

(* All in the set is right, and so is the way from each of them; the       *)
(* frames went over nothing else, but for what they have entered.          *)
Covered(S) ==
  /\ \A n \in S : WellTyped(n) /\ Ready(n)
  /\ \A n \in S \cup OnStack(calls) : FunctionReady(n)
  /\ Met(ast, calls, S \cup OnStack(calls))
  /\ \A n \in S : symbol(n) \notin PassedOver \ {"TOK_FUNCTION"} =>
       \A k \in 1..Len(Path(ast, n)) : Path(ast, n)[k] \in S
  /\ calls = <<>> => 1 \in S

CoverInv ==
  /\ SymbolsTrue
  /\ semantic_errors = 0 => \E S \in SUBSET DOMAIN ast : Covered(S)

LEMMA OnStackIn ==
  ASSUME TraversalInv
  PROVE  OnStack(calls) \subseteq DOMAIN ast
<1>1. calls \in Seq(Frames(ast))
  BY DEF TraversalInv, Walk
<1>2. \A i \in 1..Len(calls) : calls[i] \in Frames(ast)
  BY <1>1
<1> QED BY <1>2 DEF OnStack, Frames

(* What is passed over or left joins the set. *)
LEMMA CoveredStep ==
  ASSUME TraversalInv, DataInv, CrashInv, SymbolsTrue, Shaped(ast, calls),
         Next, Silently, NEW S \in SUBSET DOMAIN ast, Covered(S),
         NEW v, v = Next_node, NEW c, c = Caller.node
  PROVE  /\ Passes => v \in DOMAIN ast /\ Covered(S \cup {v})'
         /\ Enters \/ Begins_function => Covered(S)'
         /\ Leaves => c \in DOMAIN ast /\ Covered(S \cup {c})'
<1> DEFINE way(n) == \A k \in 1..Len(Path(ast, n)) : Path(ast, n)[k] \in S
<1>1. /\ Running /\ ast' = ast /\ WellFormed(ast, Name)
      /\ calls \in Seq(Frames(ast)) /\ calls # <<>>
      /\ Passes \/ Enters \/ Begins_function \/ Leaves
  BY Moves, CallerIs
<1>2. /\ \A n \in S : WellTyped(n) /\ Ready(n)
      /\ \A n \in S \cup OnStack(calls) : FunctionReady(n)
      /\ Met(ast, calls, S \cup OnStack(calls))
      /\ \A n \in S : symbol(n) \notin PassedOver \ {"TOK_FUNCTION"} => way(n)
  BY DEF Covered
<1>3. /\ OnStack(calls) \subseteq DOMAIN ast
      /\ \A n \in S \cup OnStack(calls) : FunctionReady(n)'
  BY <1>2, OnStackIn, FunctionStaysReady
<1>4. \A n \in S : Ready(n)' /\ (~ (Leaves /\ n = Caller.node) => WellTyped(n)')
  BY <1>2, TypedStays, ReadyStays
<1>5. \A n : symbol(n)' = symbol(n)
  BY <1>1 DEF symbol
<1>6. ASSUME NEW T, S \subseteq T,
             \A n \in T : WellTyped(n)' /\ Ready(n)',
             \A n \in T \cup OnStack(calls') : FunctionReady(n)',
             Met(ast, calls', T \cup OnStack(calls')),
             \A n \in T \ S :
               symbol(n) \notin PassedOver \ {"TOK_FUNCTION"} => way(n),
             calls' = <<>> => 1 \in T
      PROVE  Covered(T)'
  <2>1. \A n \in T : symbol(n) \notin PassedOver \ {"TOK_FUNCTION"} =>
          \A k \in 1..Len(Path(ast, n)) : Path(ast, n)[k] \in T
    BY <1>2, <1>6
  <2> QED BY <1>1, <1>5, <1>6, <2>1 DEF Covered, OnStack
<1> HIDE DEF way
<1>7. ASSUME Passes PROVE v \in DOMAIN ast /\ Covered(S \cup {v})'
  <2>2. HasNext /\ symbol(v) \in PassedOver /\ v \in DOMAIN ast
        /\ calls' = Advanced
    BY <1>1, <1>7, Goes DEF Passes
  <2>3. WellTyped(v)' /\ Ready(v)' /\ symbol(v) # "TOK_FUNCTION"
    BY <1>7, PassedIsRight
  <2>4. /\ Met(ast, calls', S \cup {v} \cup OnStack(calls'))
        /\ OnStack(calls') = OnStack(calls)
    BY <1>2, <1>7, MetNext
  <2>5. FunctionReady(v)'
    BY <1>5, <2>3 DEF FunctionReady
  <2>6. calls' # <<>>
    <3>1. Len(Advanced) = Len(calls) /\ Len(calls) # 0
      BY <1>1, <2>2, AdvancedIs
    <3> QED BY <2>2, <3>1
  <2> DEFINE T == S \cup {v}
  <2>7. ~ Leaves
    BY <2>2 DEF Leaves
  <2>8. T \in SUBSET DOMAIN ast /\ Covered(T)'
    <3>1. \A n \in T : WellTyped(n)' /\ Ready(n)'
      BY <1>4, <2>3, <2>7
    <3>2. \A n \in T \cup OnStack(calls') : FunctionReady(n)'
      BY <1>3, <2>4, <2>5
    <3>3. /\ Met(ast, calls', T \cup OnStack(calls'))
          /\ \A n \in T \ S : symbol(n) \in PassedOver \ {"TOK_FUNCTION"}
      BY <2>2, <2>3, <2>4
    <3> HIDE DEF T
    <3>4. Covered(T)'
      BY <1>6, <2>6, <3>1, <3>2, <3>3 DEF T
    <3> QED BY <2>2, <3>4 DEF T
  <2> QED BY <2>2, <2>8
<1>8. ASSUME Enters PROVE Covered(S)'
  <2>2. HasNext /\ calls' = Append(Advanced, Frame(v))
        /\ symbol(v) # "TOK_FUNCTION" /\ Advanced \in Seq(Frames(ast))
        /\ v \in DOMAIN ast
    BY <1>1, <1>8, Goes DEF Enters, Special
  <2>3. /\ Met(ast, calls', S \cup OnStack(calls'))
        /\ OnStack(calls') = OnStack(calls) \cup {v}
    BY <1>2, <1>8, MetNext
  <2>4. FunctionReady(v)'
    BY <1>5, <2>2 DEF FunctionReady
  <2>5. calls' # <<>>
    <3>1. Frame(v) \in Frames(ast)
      BY <2>2 DEF Frame, Frames
    <3> QED BY <2>2, <3>1
  <2>6. ~ Leaves
    BY <2>2 DEF Leaves
  <2>7. \A n \in S \cup OnStack(calls') : FunctionReady(n)'
    BY <1>3, <2>3, <2>4
  <2> QED BY <1>4, <1>6, <2>3, <2>5, <2>6, <2>7
<1>9. ASSUME Begins_function PROVE Covered(S)'
  <2> DEFINE l == child(v, 1)
  <2>2. /\ HasNext /\ Advanced \in Seq(Frames(ast)) /\ v \in DOMAIN ast
        /\ calls' = Append(Append(Advanced, [node |-> v, next |-> 2]),
                           Frame(l))
        /\ symbol(v) \in Callables
    BY <1>1, <1>9, Goes DEF Begins_function
  <2>3. /\ Met(ast, calls', S \cup OnStack(calls'))
        /\ OnStack(calls') = OnStack(calls) \cup {v, l}
    BY <1>2, <1>9, MetNext
  <2>4. l \in DOMAIN ast /\ symbol(l) = "TOK_PARAMLIST"
    BY <1>1, <2>2, FunctionDeclares DEF Callables
  <2>5. FunctionReady(v)'
    BY <1>9, BeginsReady
  <2>6. calls' # <<>>
    <3> DEFINE f == [node |-> v, next |-> 2]
               g == Frame(l)
    <3>1. f \in Frames(ast) /\ g \in Frames(ast)
      BY <2>2, <2>4 DEF Frame, Frames
    <3> HIDE DEF f, g
    <3>2. Append(Advanced, f) \in Seq(Frames(ast))
      BY <2>2, <3>1
    <3> QED BY <2>2, <3>1, <3>2 DEF f, g
  <2>7. ~ Leaves
    BY <2>2 DEF Leaves
  <2>8. \A n \in S \cup OnStack(calls') : FunctionReady(n)'
    <3>1. l' = l
      BY <1>1 DEF child, children
    <3>2. PICK e : e = l
      OBVIOUS
    <3>3. FunctionReady(e)'
      <4>1. symbol(e)' # "TOK_FUNCTION"
        BY <1>5, <2>4, <3>2
      <4> QED BY <4>1 DEF FunctionReady
    <3>4. OnStack(calls') = OnStack(calls) \cup {v, e}
      BY <2>3, <3>2
    <3> QED BY <1>3, <2>5, <3>3, <3>4
  <2> QED BY <1>4, <1>6, <2>3, <2>6, <2>7, <2>8
<1>10. ASSUME Leaves PROVE c \in DOMAIN ast /\ Covered(S \cup {c})'
  <2>2. /\ Met(ast, calls', S \cup {c} \cup OnStack(calls'))
        /\ OnStack(calls) = OnStack(calls') \cup {c}
    BY <1>2, <1>10, MetNext
  <2>3. WellTyped(c)' /\ Ready(c)' /\ c \in DOMAIN ast
    BY <1>1, <1>2, <1>10, LeftIsRight, CallerIs
  <2>4. way(c)
    BY <1>1, <1>2, <1>10, LeftIsMet DEF Leaves, way
  <2>5. calls' = <<>> => c = 1
    <3>1. calls' = Front(calls) /\ calls[1].node = 1
      BY <1>1, <1>10 DEF Leaves, Shaped
    <3>2. /\ Len(calls') = Len(calls) - 1 /\ Len(calls) \in Nat
          /\ Caller = calls[Len(calls)]
      BY <1>1, <3>1, FrontFacts, CallerIs
    <3> SUFFICES ASSUME calls' = <<>> PROVE c = 1
      OBVIOUS
    <3>3. Len(calls) = 1
      BY <3>2
    <3> QED BY <3>1, <3>2, <3>3
  <2> DEFINE T == S \cup {c}
  <2>6. \A n \in T : WellTyped(n)' /\ Ready(n)'
    BY <1>4, <2>3
  <2>7. \A n \in T \cup OnStack(calls') : FunctionReady(n)'
    BY <1>3, <2>2
  <2>8. T \in SUBSET DOMAIN ast /\ S \subseteq T /\ (calls' = <<>> => 1 \in T)
        /\ Met(ast, calls', T \cup OnStack(calls')) /\ \A n \in T \ S : n = c
    BY <2>2, <2>3, <2>5
  <2> HIDE DEF T
  <2>9. Covered(T)'
    BY <1>6, <2>4, <2>6, <2>7, <2>8
  <2>10. Covered(S \cup {c})'
    BY <2>9 DEF T
  <2> QED BY <2>3, <2>10
<1> QED BY <1>7, <1>8, <1>9, <1>10

LEMMA CoverStep ==
  TraversalInv /\ DataInv /\ CrashInv /\ DefinitionInv /\ CoverInv
    /\ [Next]_vars => CoverInv'
<1> SUFFICES ASSUME TraversalInv, DataInv, CrashInv, DefinitionInv, CoverInv,
                    [Next]_vars
             PROVE  CoverInv'
  OBVIOUS
<1>1. CASE Next
  <2>1. SymbolsTrue'
    BY <1>1, SymbolsStep DEF CoverInv
  <2>2. ast' = ast
    BY <1>1, Moves
  <2>3. ASSUME semantic_errors' = 0
        PROVE  \E T \in SUBSET DOMAIN ast : Covered(T)'
    <3>1. semantic_errors = 0
      <4>1. /\ semantic_errors \in Nat
            /\ semantic_errors' >= semantic_errors
        BY <1>1, StepCounts DEF Counting, DataInv, CountsTyped
      <4> QED BY <2>3, <4>1
    <3>2. PICK S \in SUBSET DOMAIN ast : Covered(S)
      BY <3>1 DEF CoverInv
    <3>3. SymbolsTrue /\ Shaped(ast, calls) /\ Silently
      BY <2>3, <3>1 DEF CoverInv, DefinitionInv, Silently
    <3>4. PICK v, c : v = Next_node /\ c = Caller.node
      OBVIOUS
    <3>5. Passes \/ Enters \/ Begins_function \/ Leaves
      BY <1>1, Moves
    <3>6. CASE Passes
      <4> DEFINE T == S \cup {v}
      <4>1. T \in SUBSET DOMAIN ast /\ Covered(T)'
        BY <1>1, <3>2, <3>3, <3>4, <3>6, CoveredStep
      <4> QED BY <4>1
    <3>7. CASE Enters \/ Begins_function
      <4>1. Covered(S)'
        BY <1>1, <3>2, <3>3, <3>4, <3>7, CoveredStep
      <4> QED BY <4>1
    <3>8. CASE Leaves
      <4> DEFINE T == S \cup {c}
      <4>1. T \in SUBSET DOMAIN ast /\ Covered(T)'
        BY <1>1, <3>2, <3>3, <3>4, <3>8, CoveredStep
      <4> QED BY <4>1
    <3> QED BY <3>5, <3>6, <3>7, <3>8
  <2> QED BY <2>1, <2>2, <2>3 DEF CoverInv
<1>2. CASE UNCHANGED vars
  <2>1. /\ ast' = ast /\ calls' = calls /\ attributes' = attributes
        /\ type_name' = type_name /\ info' = info /\ member' = member
        /\ semantic_errors' = semantic_errors /\ symentry' = symentry
        /\ symbols' = symbols
    BY <1>2 DEF vars, semVars, scopeVars
  <2>2. SymbolsTrue' = SymbolsTrue
    BY <2>1 DEF SymbolsTrue, SymbolOf, Declaration, declared, IsArray, IsLegal,
                NewSymbol, base_type, symbol, lexinfo, child, children, Type
  <2>3. ASSUME NEW n
        PROVE  /\ WellTyped(n)' = WellTyped(n) /\ Ready(n)' = Ready(n)
               /\ FunctionReady(n)' = FunctionReady(n)
    <3>1. WellTyped(n)' = WellTyped(n)
      BY <2>1 DEF WellTyped, VoidArray, symbol, child, children
    <3>2. Ready(n)' = Ready(n)
      BY <2>1 DEF Ready, Declaration, Type, declared, IsArray, symbol, child,
                  children, arity
    <3>3. FunctionReady(n)' = FunctionReady(n)
      BY <2>1 DEF FunctionReady, declared, IsArray, symbol, child, children,
                  lexinfo, Declared
    <3> QED BY <3>1, <3>2, <3>3
  <2>4. ASSUME NEW S, Covered(S) PROVE Covered(S)'
    <3> QED BY <2>1, <2>3, <2>4 DEF Covered, symbol
  <2> QED BY <2>1, <2>2, <2>4 DEF CoverInv
<1> QED BY <1>1, <1>2

LEMMA CoverInit == Init => CoverInv
<1> SUFFICES ASSUME Init PROVE CoverInv
  OBVIOUS
<1>1. /\ calls = <<Frame(1)>> /\ WellFormed(ast, Name) /\ DOMAIN info = {}
  BY Tree DEF Init
<1>2. SymbolsTrue
  BY <1>1 DEF SymbolsTrue
<1>3. /\ Len(calls) = 1 /\ calls[1].node = 1 /\ calls[1].next = 1
      /\ calls # <<>> /\ OnStack(calls) = {1}
  BY <1>1 DEF Frame, OnStack
<1>4. 1 \in DOMAIN ast /\ ast[1].symbol = "TOK_ROOT"
  BY <1>1 DEF WellFormed
<1>5. Met(ast, calls, {} \cup OnStack(calls))
  <2>1. Path(ast, 1) \in Seq(DOMAIN ast)
    BY <1>1, <1>4, PathFollows
  <2>2. \A k \in 1..Len(Path(ast, 1)) : ~ (k < 1)
    BY <2>1
  <2>3. \A i \in 1..Len(calls) : i = 1
    BY <1>3
  <2> QED BY <1>3, <2>2, <2>3 DEF Met
<1>6. FunctionReady(1)
  BY <1>4 DEF FunctionReady, symbol
<1>7. Covered({})
  BY <1>3, <1>5, <1>6 DEF Covered
<1> QED BY <1>2, <1>7 DEF CoverInv

(* Until the first error, the pass has a set of nodes that it went over,   *)
(* with all that is on their way, and in it every expression has its type, *)
(* every declaration and field its symbol.                                 *)
THEOREM CoverCorrect ==
  Spec => [](TraversalInv /\ DataInv /\ CrashInv /\ DefinitionInv /\ CoverInv)
<1> DEFINE Inv == TraversalInv /\ DataInv /\ CrashInv /\ DefinitionInv
                    /\ CoverInv
<1>1. Init => Inv
  BY TraversalInit, DataInit, CrashInit, DefinitionInit, CoverInit
<1>2. Inv /\ [Next]_vars => Inv'
  BY TraversalStep, DataStep, CrashStep, DefinitionStep, CoverStep
<1> QED BY <1>1, <1>2, PTL DEF Spec

-----------------------------------------------------------------------------
(* Which nodes those are.                                                  *)

(* What dfs_traverse comes to. *)
Upper == Statement \cup Callables \cup {"TOK_STRUCT"}

(* They are met on the way from a statement or the root, or are bodies. *)
LEMMA UpperParent ==
  ASSUME NEW p, NEW names, WellFormed(p, names),
         NEW m \in DOMAIN p, NEW n \in Kids(p, m), p[n].symbol \in Upper
  PROVE  \/ IsBody(p, m, n)
         \/ /\ p[m].symbol \in Statement \cup {"TOK_ROOT"}
            /\ \E k \in 1..Len(Path(p, m)) : n = Path(p, m)[k]
<1> DEFINE s == p[m].symbol
           kids == p[m].children
           Goal == \/ IsBody(p, m, n)
                   \/ /\ s \in Statement \cup {"TOK_ROOT"}
                      /\ \E k \in 1..Len(Path(p, m)) : n = Path(p, m)[k]
<1> SUFFICES Goal
  OBVIOUS
<1>1. Built(p, m) /\ kids \in Seq(DOMAIN p)
  BY KidsFollow DEF WellFormed
<1>2. PICK i \in 1..Len(kids) : n = kids[i]
  BY DEF Kids, Range
<1>3. \A x : \/ Declaration(p, x, "TOK_DECLID")
             \/ Declaration(p, x, "TOK_FIELD") \/ Type(p, x)
             => p[x].symbol \notin Upper
  BY DEF Declaration, Type, Upper, TypeName, Statement, Expression, NoOperand,
         OneOperand, TwoOperands, Callables
<1>4. /\ Len(kids) = 1 => i = 1
      /\ Len(kids) = 2 => i = 1 \/ i = 2
      /\ Len(kids) = 3 => i = 1 \/ i = 2 \/ i = 3
  <2>1. Len(kids) \in Nat
    BY <1>1
  <2> HIDE DEF kids
  <2> QED BY <2>1, SmallIndex
<1>5. {"TOK_PARAMLIST", "TOK_TYPEID", "TOK_DECLID", "TOK_FIELD"} \cap Upper = {}
  BY DEF Upper, Statement, Expression, NoOperand, OneOperand, TwoOperands,
         Callables
<1>6. CASE s \in Callables
  <2>1. /\ Len(kids) = IF s = "TOK_FUNCTION" THEN 3 ELSE 2
        /\ Declaration(p, kids[1], "TOK_DECLID")
        /\ p[kids[2]].symbol = "TOK_PARAMLIST"
    BY <1>1, <1>6 DEF Built, Callables
  <2>2. i # 1 /\ i # 2
    BY <1>2, <1>3, <1>5, <2>1
  <2>3. i = 3 /\ s = "TOK_FUNCTION"
    BY <1>4, <1>6, <2>1, <2>2 DEF Callables
  <2> QED BY <1>2, <2>3 DEF IsBody, Body
<1>7. CASE s = "TOK_PARAMLIST"
  <2>1. \A j \in DOMAIN kids : Declaration(p, kids[j], "TOK_DECLID")
    BY <1>1, <1>7 DEF Built
  <2> QED BY <1>1, <1>2, <1>3, <2>1
<1>8. CASE s = "TOK_STRUCT"
  <2>1. /\ p[kids[1]].symbol = "TOK_TYPEID"
        /\ \A j \in 2..Len(kids) : Declaration(p, kids[j], "TOK_FIELD")
    BY <1>1, <1>8 DEF Built
  <2>2. i = 1 \/ i \in 2..Len(kids)
    <3>1. Len(kids) \in Nat
      BY <1>1
    <3> HIDE DEF kids
    <3> QED BY <3>1
  <2> QED BY <1>2, <1>3, <1>5, <2>1, <2>2
<1>9. CASE s \in TypeName \cup {"TOK_ARRAY"}
  <2>1. \/ Type(p, m) \/ Declaration(p, m, "TOK_DECLID")
        \/ Declaration(p, m, "TOK_FIELD")
    BY <1>1, <1>9 DEF Built
  <2>2. ~ Type(p, m)
    BY <1>2 DEF Type
  <2>3. PICK what \in {"TOK_DECLID", "TOK_FIELD"} : Declaration(p, m, what)
    BY <2>1, <2>2
  <2>4. \/ Len(kids) = 1 /\ p[kids[1]].symbol = what
        \/ Len(kids) = 2 /\ Type(p, kids[1]) /\ p[kids[2]].symbol = what
    BY <2>3 DEF Declaration
  <2> QED BY <1>2, <1>3, <1>4, <1>5, <2>4
<1>10. CASE s \in {"TOK_DECLID", "TOK_FIELD"}
  <2>1. kids = <<>>
    BY <1>1, <1>10 DEF Built
  <2> HIDE DEF kids
  <2> QED BY <1>2, <2>1
<1>11. CASE s = "TOK_NEW"
  <2>1. Len(kids) = 1 /\ p[kids[1]].symbol = "TOK_TYPEID"
    BY <1>1, <1>11 DEF Built
  <2> QED BY <1>2, <1>4, <1>5, <2>1
<1>12. CASE s = "TOK_NEWARRAY"
  <2>1. Len(kids) = 2 /\ Type(p, kids[1])
    BY <1>1, <1>12 DEF Built
  <2>2. i = 2
    BY <1>2, <1>3, <1>4, <2>1
  <2>3. Path(p, m) = <<kids[2]>>
    BY <1>12 DEF Path
  <2>4. Len(Path(p, m)) = 1 /\ Path(p, m)[1] = n
    BY <1>2, <2>2, <2>3
  <2> QED BY <1>12, <2>4 DEF Statement, Expression
<1>13. CASE s \in (Statement \cup {"TOK_ROOT"}) \ {"TOK_NEW", "TOK_NEWARRAY"}
  <2>1. s \notin Callables
    BY <1>13 DEF Statement, Expression, NoOperand, OneOperand, TwoOperands,
                 Callables
  <2>2. Path(p, m) = kids
    BY <1>13, <2>1 DEF Path, Callables
  <2> HIDE DEF kids
  <2> QED BY <1>2, <1>13, <2>2
<1>14. \/ s \in Callables \/ s \in TypeName \cup {"TOK_ARRAY"}
       \/ s \in {"TOK_DECLID", "TOK_FIELD"}
       \/ s \in {"TOK_PARAMLIST", "TOK_STRUCT", "TOK_NEW", "TOK_NEWARRAY"}
       \/ s \in (Statement \cup {"TOK_ROOT"}) \ {"TOK_NEW", "TOK_NEWARRAY"}
  <2>1. s \in Token
    BY <1>1 DEF Built
  <2> HIDE DEF s
  <2> QED BY <2>1 DEF Token, Callables
<1> HIDE DEF s, Goal
<1> QED BY <1>6, <1>7, <1>8, <1>9, <1>10, <1>11, <1>12, <1>13, <1>14

LEMMA Least ==
  ASSUME NEW T \in SUBSET Nat, T # {}
  PROVE  \E x \in T : \A y \in T : x <= y
<1> DEFINE R == OpToRel(<, Nat)
<1>1. IsWellFoundedOn(R, Nat)
  BY NatLessThanWellFounded
<1>2. PICK x \in T : \A y \in T : ~ (<<y, x>> \in R)
  <2> HIDE DEF R
  <2> QED BY <1>1, WFMin
<1>3. \A y \in T : x <= y
  <2> SUFFICES ASSUME NEW y \in T PROVE x <= y
    OBVIOUS
  <2>1. ~ (y < x)
    BY <1>2 DEF OpToRel
  <2> QED BY <2>1
<1> QED BY <1>3

(* Whatever dfs_traverse comes to is in a set that has the root and all    *)
(* that is on the way of its members.                                      *)
LEMMA AllReached ==
  ASSUME NEW p, NEW names, WellFormed(p, names), NEW S, 1 \in S,
         \A n \in S : p[n].symbol \notin PassedOver \ {"TOK_FUNCTION"} =>
           \A k \in 1..Len(Path(p, n)) : Path(p, n)[k] \in S,
         NEW n \in DOMAIN p, p[n].symbol \in Upper,
         \A f \in DOMAIN p : ~ IsBody(p, f, n)
  PROVE  n \in S
<1> DEFINE T == {x \in DOMAIN p : /\ p[x].symbol \in Upper
                                  /\ \A f \in DOMAIN p : ~ IsBody(p, f, x)
                                  /\ x \notin S}
<1> SUFFICES ASSUME T # {} PROVE FALSE
  OBVIOUS
<1>1. T \in SUBSET Nat /\ DOMAIN p \subseteq Nat
  BY DEF WellFormed
<1>2. PICK x \in T : \A y \in T : x <= y
  <2> HIDE DEF T
  <2> QED BY <1>1, Least
<1>3. PICK m \in DOMAIN p : x \in Kids(p, m)
  <2>1. x \in DOMAIN p \ {1}
    BY <1>2
  <2>2. x \in UNION {Range(p[m].children) : m \in DOMAIN p}
    BY <2>1 DEF WellFormed
  <2> QED BY <2>2 DEF Kids
<1>4. /\ p[m].symbol \in Statement \cup {"TOK_ROOT"}
      /\ \E k \in 1..Len(Path(p, m)) : x = Path(p, m)[k]
  BY <1>2, <1>3, UpperParent
<1>5. m < x /\ m \in Nat /\ x \in Nat
  BY <1>3, KidsType
<1>6. p[m].symbol \notin PassedOver
  BY <1>4 DEF PassedOver, VariableTypes, TypeName, Callables, Statement,
              Expression, NoOperand, OneOperand, TwoOperands
<1>7. m \in S => x \in S
  BY <1>4, <1>6
<1>8. CASE \A f \in DOMAIN p : ~ IsBody(p, f, m)
  <2>1. m = 1 \/ p[m].symbol \in Upper
    BY <1>4, OnlyRoot DEF Upper
  <2>2. m \in S
    <3>1. m \notin T
      BY <1>2, <1>5
    <3> QED BY <1>8, <2>1, <3>1
  <2> QED BY <1>2, <1>7, <2>2
<1>9. ASSUME NEW f \in DOMAIN p, IsBody(p, f, m) PROVE FALSE
  <2>1. p[f].symbol = "TOK_FUNCTION" /\ m = Body(p, f)
    BY <1>9 DEF IsBody
  <2>2. f < m /\ f \in Nat
    BY <2>1, BodyIsKid, KidsType
  <2>3. \A g \in DOMAIN p : ~ IsBody(p, g, f)
    BY <2>1, BodyIsKid DEF IsBody
  <2>4. f \in S
    <3>1. f \notin T
      BY <1>2, <1>5, <2>2
    <3>2. p[f].symbol \in Upper
      BY <2>1 DEF Upper, Callables
    <3> QED BY <2>3, <3>1, <3>2
  <2> DEFINE list == p[f].children[2]
             b == p[m].children
  <2>5. Path(p, f) = <<list>> \o b
    BY <2>1 DEF Path
  <2>6. PICK k \in 1..Len(b) : x = b[k]
    BY <1>3 DEF Kids, Range
  <2>7. b \in Seq(DOMAIN p)
    BY KidsFollow
  <2> HIDE DEF list, b
  <2>8. k + 1 \in 1..Len(<<list>> \o b) /\ (<<list>> \o b)[k + 1] = x
    <3>1. /\ <<list>> \in Seq({list} \cup DOMAIN p)
          /\ b \in Seq({list} \cup DOMAIN p)
      BY <2>7
    <3> QED BY <2>6, <3>1
  <2>9. p[f].symbol \notin PassedOver \ {"TOK_FUNCTION"}
    BY <2>1
  <2> QED BY <1>2, <2>4, <2>5, <2>8, <2>9
<1> QED BY <1>8, <1>9

-----------------------------------------------------------------------------
(* What is accepted.                                                       *)

(* At the end of the traversal the pass went over all of the program. *)
LEMMA CoveredIsAll ==
  ASSUME TraversalInv, calls = <<>>, NEW S \in SUBSET DOMAIN ast, Covered(S),
         NEW n \in DOMAIN ast, symbol(n) \in Upper,
         \A f \in DOMAIN ast : ~ IsBody(ast, f, n)
  PROVE  n \in S
<1>1. WellFormed(ast, Name)
  BY Tree DEF TraversalInv
<1>2. 1 \in S
  BY DEF Covered
<1>3. \A m \in S : ast[m].symbol \notin PassedOver \ {"TOK_FUNCTION"} =>
        \A k \in 1..Len(Path(ast, m)) : Path(ast, m)[k] \in S
  BY DEF Covered, symbol
<1> QED BY <1>1, <1>2, <1>3, AllReached DEF symbol

LEMMA AllCovered ==
  ASSUME TraversalInv, CoverInv, Accepted
  PROVE  \E S \in SUBSET DOMAIN ast :
           /\ Covered(S)
           /\ \A n \in DOMAIN ast :
                /\ symbol(n) \in Upper
                /\ \A f \in DOMAIN ast : ~ IsBody(ast, f, n)
                => n \in S
<1>1. PICK S \in SUBSET DOMAIN ast : Covered(S)
  BY DEF CoverInv, Accepted
<1> QED BY <1>1, CoveredIsAll DEF Accepted, Analysed

LEMMA NoBody ==
  ASSUME WellFormed(ast, Name), NEW n \in DOMAIN ast, symbol(n) # "TOK_BLOCK"
  PROVE  \A f \in DOMAIN ast : ~ IsBody(ast, f, n)
BY BodyIsKid DEF IsBody, symbol

LEMMA AcceptedTyped ==
  ASSUME TraversalInv, DataInv, CoverInv, Accepted,
         NEW n \in DOMAIN ast, symbol(n) \in Values
  PROVE  LET a == get_node_attributes(n) IN
         /\ VoidArray(n) \/ Cardinality(a \cap Base) = 1
         /\ "struct" \in a => type_name[n] # NULL
<1>1. WellFormed(ast, Name)
  BY Tree DEF TraversalInv
<1>2. symbol(n) \in Expression /\ symbol(n) \in Upper /\ symbol(n) # "TOK_BLOCK"
  BY DEF Values, Expression, NoOperand, OneOperand, TwoOperands, Upper,
         Statement
<1>3. WellTyped(n)
  BY <1>1, <1>2, AllCovered, NoBody DEF Covered
<1>4. SymbolsTrue
  BY DEF CoverInv
<1> DEFINE a == get_node_attributes(n)
<1>5. Proper(a, type_name[n]) \/ (a = VoidArrayType /\ VoidArray(n))
  <2>1. CASE symbol(n) = "TOK_IDENT" \/ ~ VoidArray(n)
    <3>1. CASE symbol(n) = "TOK_IDENT"
      <4>1. /\ a = info[symentry[n]].attributes
            /\ type_name[n] = info[symentry[n]].type_name /\ symentry[n] # NULL
        BY <1>3, <3>1 DEF WellTyped, get_node_attributes, Entry
      <4>2. symentry[n] \in DOMAIN info
        BY <4>1, Tree DEF TraversalInv, DataInv, LinksTyped, InfoTyped, Known
      <4>3. Proper(info[symentry[n]].attributes, info[symentry[n]].type_name)
        BY <1>1, <1>4, <4>2, TrueIsProper
      <4> QED BY <4>1, <4>3
    <3>2. CASE symbol(n) # "TOK_IDENT" /\ ~ VoidArray(n)
      <4>1. symbol(n) \notin {"TOK_IDENT", "TOK_DECLID", "TOK_FIELD"}
        BY <1>2, <3>2 DEF Expression, NoOperand, OneOperand, TwoOperands
      <4>2. a = attributes[n]
        BY <4>1 DEF get_node_attributes
      <4> QED BY <1>2, <1>3, <3>2, <4>2 DEF WellTyped
    <3> QED BY <2>1, <3>1, <3>2
  <2>2. CASE VoidArray(n)
    <3>1. symbol(n) = "TOK_NEWARRAY"
      BY <2>2 DEF VoidArray
    <3>2. a = attributes[n]
      BY <3>1 DEF get_node_attributes
    <3> QED BY <1>2, <1>3, <2>2, <3>1, <3>2 DEF WellTyped
  <2> QED BY <2>1, <2>2
<1> HIDE DEF a
<1>6. CASE Proper(a, type_name[n])
  BY <1>6, SingleIsOne DEF Proper, a
<1>7. CASE a = VoidArrayType /\ VoidArray(n)
  BY <1>7 DEF VoidArrayType, a
<1> QED BY <1>5, <1>6, <1>7

(* In a program that the pass accepts every expression has one base type,  *)
(* and a name if that is a structure: what the assertions of               *)
(* get_result_type_name (emit.cpp:84-101) rely on.  Only new void[n] has   *)
(* none.                                                                   *)
THEOREM AcceptedHaveOneType == Spec => []OneBaseType
<1>1. TraversalInv /\ DataInv /\ CoverInv => OneBaseType
  BY AcceptedTyped DEF OneBaseType, NodesWith
<1> QED BY <1>1, CoverCorrect, PTL

-----------------------------------------------------------------------------
(* Where names stand.                                                      *)

LEMMA ParentOf ==
  ASSUME WellFormed(ast, Name), NEW n \in DOMAIN ast, n # 1
  PROVE  /\ parent(n) \in DOMAIN ast /\ n \in Kids(ast, parent(n))
         /\ parent(n) \in Nat /\ n \in Nat /\ parent(n) < n
<1>1. n \in UNION {Range(ast[m].children) : m \in DOMAIN ast}
  BY DEF WellFormed
<1>2. PICK m \in DOMAIN ast : n \in Range(children(m))
  BY <1>1 DEF children
<1>3. parent(n) \in DOMAIN ast /\ n \in Range(children(parent(n)))
  BY <1>2 DEF parent
<1>4. n \in Kids(ast, parent(n))
  BY <1>3 DEF Kids, children
<1> QED BY <1>3, <1>4, KidsType

(* What every number on the way down to m is above of, if those between a  *)
(* number and what it is below of are not below of anything less.          *)
BelowOf(D, above, x) ==
  {m \in D : m <= x /\ \A k \in D : m < k /\ k <= x => above[k] >= m}

LEMMA BelowIs ==
  ASSUME NEW D \in SUBSET Nat, 1 \in D, \A x \in D : 1 <= x,
         NEW above, \A x \in D \ {1} : above[x] \in D /\ above[x] < x,
         \A x, k \in D \ {1} : above[x] < k /\ k < x => above[k] >= above[x],
         NEW x \in D
  PROVE  BelowOf(D, above, x)
           = {x} \cup IF x = 1 THEN {} ELSE BelowOf(D, above, above[x])
<1>1. \A y \in D : y \in Nat /\ (y # 1 => above[y] \in Nat)
  OBVIOUS
<1>2. x \in BelowOf(D, above, x)
  <2>1. \A k \in D : ~ (x < k /\ k <= x)
    BY <1>1
  <2> QED BY <1>1, <2>1 DEF BelowOf
<1>3. ASSUME x = 1, NEW m \in BelowOf(D, above, x) PROVE m = x
  BY <1>1, <1>3 DEF BelowOf
<1>4. ASSUME x # 1, NEW m \in BelowOf(D, above, x), m # x
      PROVE  m \in BelowOf(D, above, above[x])
  <2>1. /\ m \in D /\ m <= x /\ above[x] \in D /\ above[x] < x
        /\ \A k \in D : m < k /\ k <= x => above[k] >= m
    BY <1>4 DEF BelowOf
  <2>2. m < x /\ x <= x
    BY <1>1, <1>4, <2>1
  <2>3. m <= above[x]
    BY <1>1, <1>4, <2>1, <2>2
  <2>4. ASSUME NEW k \in D, m < k, k <= above[x] PROVE k <= x
    <3>1. k \in Nat /\ x \in Nat /\ above[x] \in Nat
      BY <1>1, <1>4
    <3> QED BY <2>1, <2>4, <3>1
  <2> QED BY <2>1, <2>3, <2>4 DEF BelowOf
<1>5. ASSUME x # 1, NEW m \in BelowOf(D, above, above[x])
      PROVE  m \in BelowOf(D, above, x)
  <2> DEFINE q == above[x]
  <2>1. /\ m \in D /\ m <= q /\ q \in D /\ q < x
        /\ \A k \in D : m < k /\ k <= q => above[k] >= m
    BY <1>5 DEF BelowOf
  <2>2. m <= x
    <3> HIDE DEF q
    <3> QED BY <1>1, <2>1
  <2>3. ASSUME NEW k \in D, m < k, k <= x PROVE above[k] >= m
    <3>1. k # 1
      BY <1>1, <2>1, <2>3
    <3>2. CASE k <= q
      BY <2>1, <2>3, <3>2
    <3>3. CASE k = x
      <4>1. above[k] = q
        BY <3>3
      <4> HIDE DEF q
      <4> QED BY <1>1, <2>1, <4>1
    <3>4. CASE q < k /\ k < x
      <4>1. above[k] >= q
        BY <1>5, <3>1, <3>4
      <4>2. above[k] \in Nat
        BY <1>1, <3>1
      <4> HIDE DEF q
      <4> QED BY <1>1, <2>1, <4>1, <4>2
    <3>5. k <= q \/ k = x \/ (q < k /\ k < x)
      <4> HIDE DEF q
      <4> QED BY <1>1, <2>1, <2>3
    <3> QED BY <3>2, <3>3, <3>4, <3>5
  <2> QED BY <2>1, <2>2, <2>3 DEF BelowOf
<1> QED BY <1>2, <1>3, <1>4, <1>5

(* The node and what is above it. *)
LEMMA AncestorsAre ==
  ASSUME WellFormed(ast, Name), NEW n \in DOMAIN ast
  PROVE  Ancestors(n)
           = {n} \cup IF n = 1 THEN {} ELSE Ancestors(parent(n))
<1> DEFINE D == DOMAIN ast
           above == [x \in D |-> parent(x)]
           up == [x \in D |-> BelowOf(D, above, x)]
<1>1. D \subseteq Nat /\ 1 \in D /\ \A x \in D : 1 <= x
  BY DEF WellFormed
<1>2. \A x \in D \ {1} : /\ parent(x) \in D /\ x \in Kids(ast, parent(x))
                         /\ parent(x) < x /\ parent(x) \in Nat
  BY ParentOf
<1>3. ASSUME NEW x \in D \ {1}, NEW k \in D \ {1}, parent(x) < k, k < x
      PROVE  parent(k) >= parent(x)
  <2>1. /\ parent(x) \in D /\ x \in Kids(ast, parent(x)) /\ parent(x) \in Nat
        /\ parent(k) \in D /\ k \in Kids(ast, parent(k)) /\ parent(k) \in Nat
    BY <1>2
  <2>2. ASSUME parent(k) < parent(x) PROVE FALSE
    <3>1. x < k
      BY <1>3, <2>1, <2>2, KidsNest
    <3> QED BY <1>1, <1>3, <3>1
  <2> QED BY <2>1, <2>2
<1>4. \A x \in D : BelowOf(D, above, x)
                     = {x} \cup IF x = 1 THEN {}
                                ELSE BelowOf(D, above, parent(x))
  <2>1. \A x \in D : above[x] = parent(x)
    OBVIOUS
  <2> HIDE DEF D, above
  <2>2. /\ \A x \in D \ {1} : above[x] \in D /\ above[x] < x
        /\ \A x, k \in D \ {1} : above[x] < k /\ k < x => above[k] >= above[x]
    BY <1>2, <1>3, <2>1
  <2> QED BY <1>1, <2>1, <2>2, BelowIs
<1>5. up = [x \in D |-> {x} \cup IF x = 1 THEN {} ELSE up[parent(x)]]
  <2> HIDE DEF D, above
  <2> QED BY <1>2, <1>4
<1> DEFINE A == CHOOSE f : f = [x \in D |-> {x} \cup IF x = 1 THEN {}
                                                  ELSE f[parent(x)]]
<1>6. A = [x \in D |-> {x} \cup IF x = 1 THEN {} ELSE A[parent(x)]]
  <2> HIDE DEF up, D
  <2> QED BY <1>5
<1>7. \A x : Ancestors(x) = A[x]
  BY DEF Ancestors
<1> HIDE DEF A, D
<1>8. A[n] = {n} \cup IF n = 1 THEN {} ELSE A[parent(n)]
  BY <1>6 DEF D
<1> QED BY <1>7, <1>8

(* A declared name, or that of a selected field. *)
LEMMA NameParent ==
  ASSUME NEW p, NEW names, WellFormed(p, names),
         NEW m \in DOMAIN p, NEW n \in Kids(p, m),
         p[n].symbol \in {"TOK_DECLID", "TOK_FIELD"}
  PROVE  \/ /\ p[m].symbol = "." /\ p[n].symbol = "TOK_FIELD"
            /\ n = p[m].children[2]
         \/ Declaration(p, m, p[n].symbol) /\ n = DeclaredBy(p, m)
<1> DEFINE s == p[m].symbol
           kids == p[m].children
           Goal == \/ /\ s = "." /\ p[n].symbol = "TOK_FIELD"
                      /\ n = kids[2]
                   \/ Declaration(p, m, p[n].symbol) /\ n = DeclaredBy(p, m)
<1> SUFFICES Goal
  OBVIOUS
<1>1. Built(p, m) /\ kids \in Seq(DOMAIN p)
  BY KidsFollow DEF WellFormed
<1>2. PICK i \in 1..Len(kids) : n = kids[i]
  BY DEF Kids, Range
<1>3. \A x : \/ Declaration(p, x, "TOK_DECLID")
             \/ Declaration(p, x, "TOK_FIELD") \/ Type(p, x)
             => p[x].symbol \notin {"TOK_DECLID", "TOK_FIELD"}
  BY DEF Declaration, Type, TypeName
<1>4. /\ Len(kids) = 1 => i = 1
      /\ Len(kids) = 2 => i = 1 \/ i = 2
      /\ Len(kids) = 3 => i = 1 \/ i = 2 \/ i = 3
  <2>1. Len(kids) \in Nat
    BY <1>1
  <2> HIDE DEF kids
  <2> QED BY <2>1, SmallIndex
<1>5. {"TOK_DECLID", "TOK_FIELD"} \cap Statement = {}
  BY DEF Statement, Expression, NoOperand, OneOperand, TwoOperands
<1>6. CASE s \in Callables
  <2>1. /\ Len(kids) = IF s = "TOK_FUNCTION" THEN 3 ELSE 2
        /\ Declaration(p, kids[1], "TOK_DECLID")
        /\ p[kids[2]].symbol = "TOK_PARAMLIST"
        /\ s = "TOK_FUNCTION" => p[kids[3]].symbol = "TOK_BLOCK"
    BY <1>1, <1>6 DEF Built, Callables
  <2> QED BY <1>2, <1>3, <1>4, <2>1
<1>7. CASE s = "TOK_PARAMLIST"
  <2>1. \A j \in DOMAIN kids : Declaration(p, kids[j], "TOK_DECLID")
    BY <1>1, <1>7 DEF Built
  <2> QED BY <1>1, <1>2, <1>3, <2>1
<1>8. CASE s = "TOK_STRUCT"
  <2>1. /\ p[kids[1]].symbol = "TOK_TYPEID"
        /\ \A j \in 2..Len(kids) : Declaration(p, kids[j], "TOK_FIELD")
    BY <1>1, <1>8 DEF Built
  <2>2. i = 1 \/ i \in 2..Len(kids)
    <3>1. Len(kids) \in Nat
      BY <1>1
    <3> HIDE DEF kids
    <3> QED BY <3>1
  <2> QED BY <1>2, <1>3, <2>1, <2>2
<1>9. CASE s \in TypeName \cup {"TOK_ARRAY"}
  <2>1. \/ Type(p, m) \/ Declaration(p, m, "TOK_DECLID")
        \/ Declaration(p, m, "TOK_FIELD")
    BY <1>1, <1>9 DEF Built
  <2>2. ~ Type(p, m)
    BY <1>2 DEF Type
  <2>3. PICK what \in {"TOK_DECLID", "TOK_FIELD"} : Declaration(p, m, what)
    BY <2>1, <2>2
  <2>4. \/ /\ s # "TOK_ARRAY"
           /\ Len(kids) = 1 /\ p[kids[1]].symbol = what
        \/ /\ s = "TOK_ARRAY"
           /\ Len(kids) = 2 /\ Type(p, kids[1]) /\ p[kids[2]].symbol = what
    BY <2>3 DEF Declaration, TypeName
  <2>5. p[n].symbol = what /\ n = DeclaredBy(p, m)
    BY <1>2, <1>3, <1>4, <2>4 DEF DeclaredBy
  <2> QED BY <2>3, <2>5
<1>10. CASE s \in {"TOK_DECLID", "TOK_FIELD"}
  <2>1. kids = <<>>
    BY <1>1, <1>10 DEF Built
  <2> HIDE DEF kids
  <2> QED BY <1>2, <2>1
<1>11. CASE s = "TOK_NEW"
  <2>1. Len(kids) = 1 /\ p[kids[1]].symbol = "TOK_TYPEID"
    BY <1>1, <1>11 DEF Built
  <2> QED BY <1>2, <1>4, <2>1
<1>12. CASE s = "TOK_NEWARRAY"
  <2>1. Len(kids) = 2 /\ Type(p, kids[1]) /\ p[kids[2]].symbol \in Statement
    BY <1>1, <1>12 DEF Built, Statement
  <2> QED BY <1>2, <1>3, <1>4, <1>5, <2>1
<1>13. CASE s = "TOK_VARDECL"
  <2>1. /\ Len(kids) = 2 /\ Declaration(p, kids[1], "TOK_DECLID")
        /\ p[kids[2]].symbol \in Statement
    BY <1>1, <1>13 DEF Built, Statement
  <2> QED BY <1>2, <1>3, <1>4, <1>5, <2>1
<1>14. CASE s = "."
  <2>1. /\ Len(kids) = 2 /\ p[kids[1]].symbol \in Statement
        /\ p[kids[2]].symbol = "TOK_FIELD"
    BY <1>1, <1>14 DEF Built, Statement
  <2> QED BY <1>2, <1>4, <1>5, <1>14, <2>1
<1>15. CASE s \in (Statement \cup {"TOK_ROOT"})
                    \ {"TOK_NEW", "TOK_NEWARRAY", "TOK_VARDECL", "."}
  <2>1. p[n].symbol \in Statement \cup {"TOK_FUNCTION", "TOK_PROTOTYPE",
                                        "TOK_STRUCT"}
    <3>1. CASE s \in {"TOK_ROOT", "TOK_BLOCK"}
      <4>1. \A j \in DOMAIN kids :
              p[kids[j]].symbol
                \in Statement \cup {"TOK_FUNCTION", "TOK_PROTOTYPE",
                                    "TOK_STRUCT"}
        BY <1>1, <3>1 DEF Built
      <4> QED BY <1>1, <1>2, <4>1
    <3>2. CASE s \in {"TOK_WHILE", "TOK_IF"}
      BY <1>1, <1>2, <1>4, <3>2 DEF Built, Statement
    <3>3. CASE s = "TOK_IFELSE"
      BY <1>1, <1>2, <1>4, <3>3 DEF Built, Statement
    <3>4. CASE s \in OneOperand \cup {"TOK_RETURN"}
      BY <1>1, <1>2, <1>4, <3>4 DEF Built, Statement
    <3>5. CASE s \in TwoOperands \cup {"TOK_CALL"}
      <4>1. \A j \in DOMAIN kids : p[kids[j]].symbol \in Expression
        BY <1>1, <3>5 DEF Built
      <4>2. i \in DOMAIN kids
        BY <1>1, <1>2
      <4>3. Expression \subseteq Statement
        BY DEF Statement
      <4> HIDE DEF kids, s
      <4> QED BY <1>2, <4>1, <4>2, <4>3
    <3>6. CASE s \in NoOperand \cup {";", "TOK_RETURNVOID"}
      <4>1. kids = <<>>
        BY <1>1, <3>6 DEF Built
      <4> HIDE DEF kids
      <4> QED BY <1>2, <4>1
    <3> QED BY <1>15, <3>1, <3>2, <3>3, <3>4, <3>5, <3>6
            DEF Statement, Expression
  <2> QED BY <1>5, <2>1
<1>16. \/ s \in Callables \/ s \in TypeName \cup {"TOK_ARRAY"}
       \/ s \in {"TOK_DECLID", "TOK_FIELD"}
       \/ s \in {"TOK_PARAMLIST", "TOK_STRUCT", "TOK_NEW", "TOK_NEWARRAY",
                 "TOK_VARDECL", "."}
       \/ s \in (Statement \cup {"TOK_ROOT"})
                  \ {"TOK_NEW", "TOK_NEWARRAY", "TOK_VARDECL", "."}
  <2>1. s \in Token
    BY <1>1 DEF Built
  <2> HIDE DEF s
  <2> QED BY <2>1 DEF Token, Callables
<1> HIDE DEF s, Goal
<1> QED BY <1>6, <1>7, <1>8, <1>9, <1>10, <1>11, <1>12, <1>13, <1>14, <1>15,
           <1>16

(* A declaration: of a field, a parameter, a function or a variable. *)
LEMMA DeclarationParent ==
  ASSUME NEW p, NEW names, WellFormed(p, names),
         NEW g \in DOMAIN p, NEW m \in Kids(p, g),
         NEW what \in {"TOK_DECLID", "TOK_FIELD"}, Declaration(p, m, what)
  PROVE  \/ /\ what = "TOK_FIELD" /\ p[g].symbol = "TOK_STRUCT"
            /\ \E i \in 2..Len(p[g].children) : m = p[g].children[i]
         \/ what = "TOK_DECLID" /\ p[g].symbol = "TOK_PARAMLIST"
         \/ /\ what = "TOK_DECLID"
            /\ p[g].symbol \in Callables \cup {"TOK_VARDECL"}
            /\ m = p[g].children[1]
<1> DEFINE s == p[g].symbol
           kids == p[g].children
           Goal == \/ /\ what = "TOK_FIELD" /\ s = "TOK_STRUCT"
                      /\ \E i \in 2..Len(kids) : m = kids[i]
                   \/ what = "TOK_DECLID" /\ s = "TOK_PARAMLIST"
                   \/ /\ what = "TOK_DECLID"
                      /\ s \in Callables \cup {"TOK_VARDECL"}
                      /\ m = kids[1]
<1> SUFFICES Goal
  OBVIOUS
<1>1. Built(p, g) /\ kids \in Seq(DOMAIN p)
  BY KidsFollow DEF WellFormed
<1>2. PICK i \in 1..Len(kids) : m = kids[i]
  BY DEF Kids, Range
<1>3. /\ p[m].symbol \in TypeName \cup {"TOK_ARRAY"}
      /\ ~ Type(p, m)
      /\ \A w \in {"TOK_DECLID", "TOK_FIELD"} :
           Declaration(p, m, w) => w = what
  <2>1. \/ /\ p[m].symbol \in TypeName /\ Len(p[m].children) = 1
           /\ p[p[m].children[1]].symbol = what
        \/ /\ p[m].symbol = "TOK_ARRAY" /\ Len(p[m].children) = 2
           /\ p[p[m].children[2]].symbol = what
    BY DEF Declaration
  <2>2. p[m].children # <<>>
    BY <2>1
  <2>3. "TOK_ARRAY" \notin TypeName
    BY DEF TypeName
  <2> QED BY <2>1, <2>2, <2>3 DEF Type, Declaration
<1>4. /\ Len(kids) = 1 => i = 1
      /\ Len(kids) = 2 => i = 1 \/ i = 2
      /\ Len(kids) = 3 => i = 1 \/ i = 2 \/ i = 3
  <2>1. Len(kids) \in Nat
    BY <1>1
  <2> HIDE DEF kids
  <2> QED BY <2>1, SmallIndex
<1>5. (TypeName \cup {"TOK_ARRAY"})
         \cap (Statement \cup {"TOK_FUNCTION", "TOK_PROTOTYPE", "TOK_STRUCT",
                               "TOK_PARAMLIST", "TOK_DECLID", "TOK_FIELD"})
         = {}
  BY DEF TypeName, Statement, Expression, NoOperand, OneOperand, TwoOperands
<1>6. CASE s \in Callables
  <2>1. /\ Len(kids) = IF s = "TOK_FUNCTION" THEN 3 ELSE 2
        /\ Declaration(p, kids[1], "TOK_DECLID")
        /\ p[kids[2]].symbol = "TOK_PARAMLIST"
        /\ s = "TOK_FUNCTION" => p[kids[3]].symbol \in Statement
    BY <1>1, <1>6 DEF Built, Callables, Statement
  <2>2. i = 1
    BY <1>2, <1>3, <1>4, <1>5, <2>1
  <2> QED BY <1>2, <1>3, <1>6, <2>1, <2>2
<1>7. CASE s = "TOK_PARAMLIST"
  <2>1. \A j \in DOMAIN kids : Declaration(p, kids[j], "TOK_DECLID")
    BY <1>1, <1>7 DEF Built
  <2> QED BY <1>1, <1>2, <1>3, <1>7, <2>1
<1>8. CASE s = "TOK_STRUCT"
  <2>1. /\ Type(p, kids[1])
        /\ \A j \in 2..Len(kids) : Declaration(p, kids[j], "TOK_FIELD")
    BY <1>1, <1>8 DEF Built
  <2>2. i = 1 \/ i \in 2..Len(kids)
    <3>1. Len(kids) \in Nat
      BY <1>1
    <3> HIDE DEF kids
    <3> QED BY <3>1
  <2>3. i \in 2..Len(kids)
    BY <1>2, <1>3, <2>1, <2>2
  <2> QED BY <1>2, <1>3, <1>8, <2>1, <2>3
<1>9. CASE s \in TypeName \cup {"TOK_ARRAY"}
  <2>1. \/ Type(p, g) \/ Declaration(p, g, "TOK_DECLID")
        \/ Declaration(p, g, "TOK_FIELD")
    BY <1>1, <1>9 DEF Built
  <2>2. ~ Type(p, g)
    BY <1>2 DEF Type
  <2>3. PICK w \in {"TOK_DECLID", "TOK_FIELD"} : Declaration(p, g, w)
    BY <2>1, <2>2
  <2>4. \/ Len(kids) = 1 /\ p[kids[1]].symbol = w
        \/ Len(kids) = 2 /\ Type(p, kids[1]) /\ p[kids[2]].symbol = w
    BY <2>3 DEF Declaration
  <2> QED BY <1>2, <1>3, <1>4, <1>5, <2>4
<1>10. CASE s \in {"TOK_DECLID", "TOK_FIELD"}
  <2>1. kids = <<>>
    BY <1>1, <1>10 DEF Built
  <2> HIDE DEF kids
  <2> QED BY <1>2, <2>1
<1>11. CASE s \in {"TOK_NEW", "TOK_NEWARRAY"}
  <2>1. \/ Len(kids) = 1 /\ Type(p, kids[1])
        \/ Len(kids) = 2 /\ Type(p, kids[1]) /\ p[kids[2]].symbol \in Statement
    BY <1>1, <1>11 DEF Built, Statement
  <2> QED BY <1>2, <1>3, <1>4, <1>5, <2>1
<1>13. CASE s = "TOK_VARDECL"
  <2>1. /\ Len(kids) = 2 /\ Declaration(p, kids[1], "TOK_DECLID")
        /\ p[kids[2]].symbol \in Statement
    BY <1>1, <1>13 DEF Built, Statement
  <2> QED BY <1>2, <1>3, <1>4, <1>5, <1>13, <2>1
<1>15. CASE s \in (Statement \cup {"TOK_ROOT"})
                    \ {"TOK_NEW", "TOK_NEWARRAY", "TOK_VARDECL"}
  <2>1. p[m].symbol \in Statement \cup {"TOK_FUNCTION", "TOK_PROTOTYPE",
                                        "TOK_STRUCT", "TOK_FIELD"}
    <3>1. CASE s \in {"TOK_ROOT", "TOK_BLOCK"}
      <4>1. \A j \in DOMAIN kids :
              p[kids[j]].symbol
                \in Statement \cup {"TOK_FUNCTION", "TOK_PROTOTYPE",
                                    "TOK_STRUCT"}
        BY <1>1, <3>1 DEF Built
      <4> QED BY <1>1, <1>2, <4>1
    <3>2. CASE s \in {"TOK_WHILE", "TOK_IF", "."}
      BY <1>1, <1>2, <1>4, <3>2 DEF Built, Statement
    <3>3. CASE s = "TOK_IFELSE"
      BY <1>1, <1>2, <1>4, <3>3 DEF Built, Statement
    <3>4. CASE s \in OneOperand \cup {"TOK_RETURN"}
      BY <1>1, <1>2, <1>4, <3>4 DEF Built, Statement
    <3>5. CASE s \in TwoOperands \cup {"TOK_CALL"}
      <4>1. \A j \in DOMAIN kids : p[kids[j]].symbol \in Expression
        BY <1>1, <3>5 DEF Built
      <4>2. i \in DOMAIN kids
        BY <1>1, <1>2
      <4>3. Expression \subseteq Statement
        BY DEF Statement
      <4> HIDE DEF kids, s
      <4> QED BY <1>2, <4>1, <4>2, <4>3
    <3>6. CASE s \in NoOperand \cup {";", "TOK_RETURNVOID"}
      <4>1. kids = <<>>
        BY <1>1, <3>6 DEF Built
      <4> HIDE DEF kids
      <4> QED BY <1>2, <4>1
    <3> QED BY <1>15, <3>1, <3>2, <3>3, <3>4, <3>5, <3>6
            DEF Statement, Expression
  <2> QED BY <1>3, <1>5, <2>1
<1>16. \/ s \in Callables \/ s \in TypeName \cup {"TOK_ARRAY"}
       \/ s \in {"TOK_DECLID", "TOK_FIELD"}
       \/ s \in {"TOK_PARAMLIST", "TOK_STRUCT", "TOK_NEW", "TOK_NEWARRAY",
                 "TOK_VARDECL"}
       \/ s \in (Statement \cup {"TOK_ROOT"})
                  \ {"TOK_NEW", "TOK_NEWARRAY", "TOK_VARDECL"}
  <2>1. s \in Token
    BY <1>1 DEF Built
  <2> HIDE DEF s
  <2> QED BY <2>1 DEF Token, Callables
<1> HIDE DEF s, Goal
<1> QED BY <1>6, <1>7, <1>8, <1>9, <1>10, <1>11, <1>13, <1>15, <1>16

(* What is above a node that the emitter mangles is no prototype. *)
LEMMA AboveMangled ==
  ASSUME WellFormed(ast, Name), NEW n \in DOMAIN ast, NEW m \in DOMAIN ast,
         n \in Kids(ast, m)
  PROVE  /\ Ancestors(n) = {n} \cup Ancestors(m)
         /\ m \in Ancestors(m) /\ m \in Ancestors(n)
<1>1. parent(n) = m /\ m < n /\ m \in Nat /\ n \in Nat
  BY ParentIs, KidsType
<1>2. n # 1
  BY <1>1 DEF WellFormed
<1>3. Ancestors(n) = {n} \cup Ancestors(m)
  BY <1>1, <1>2, AncestorsAre
<1>4. m \in Ancestors(m)
  BY AncestorsAre
<1> QED BY <1>3, <1>4

(* A declaration that was gone over has a symbol. *)
LEMMA DeclaredReady ==
  ASSUME NEW m \in DOMAIN ast, Declaration(ast, m, "TOK_DECLID"), Ready(m)
  PROVE  symentry[declared(m)] # NULL
BY DEF Declaration, Ready, symbol, TypeName, VariableTypes

(* Every name that the emitter mangles stands for a symbol, except that of *)
(* a function that was declared before.                                    *)
LEMMA AcceptedBound ==
  ASSUME TraversalInv, CoverInv, Accepted, NEW n \in Mangled
  PROVE  Entry(n) # NULL \/ DefinesDeclared(n)
<1>1. WellFormed(ast, Name) /\ n \in DOMAIN ast
  BY Tree DEF TraversalInv, Mangled, NodesWith
<1>2. PICK S \in SUBSET DOMAIN ast :
        /\ Covered(S)
        /\ \A x \in DOMAIN ast :
             symbol(x) \in Upper /\ (\A f \in DOMAIN ast : ~ IsBody(ast, f, x))
               => x \in S
  BY AllCovered
<1>3. \A x \in DOMAIN ast : symbol(x) \in Upper \ {"TOK_BLOCK"} => x \in S
  BY <1>1, <1>2, NoBody
<1>4. \A x \in S : /\ WellTyped(x) /\ Ready(x) /\ FunctionReady(x)
                   /\ symbol(x) \notin PassedOver \ {"TOK_FUNCTION"} =>
                        \A k \in 1..Len(Path(ast, x)) : Path(ast, x)[k] \in S
  BY <1>2 DEF Covered
<1>5. CASE symbol(n) = "TOK_IDENT"
  <2>1. symbol(n) \in Upper \ {"TOK_BLOCK"}
    BY <1>5 DEF Upper, Statement, Expression, NoOperand
  <2>2. WellTyped(n)
    BY <1>1, <1>3, <1>4, <2>1
  <2> QED BY <1>5, <2>2 DEF WellTyped, Entry
<1>6. CASE symbol(n) \in {"TOK_DECLID", "TOK_FIELD"}
  <2>1. n # 1
    BY <1>1, <1>6 DEF WellFormed, symbol
  <2> DEFINE m == parent(n)
             g == parent(m)
  <2>2. m \in DOMAIN ast /\ n \in Kids(ast, m)
    BY <1>1, <2>1, ParentOf
  <2>3. \/ /\ symbol(m) = "." /\ symbol(n) = "TOK_FIELD" /\ n = child(m, 1)
        \/ /\ Declaration(ast, m, symbol(n)) /\ n = declared(m)
    BY <1>1, <1>6, <2>2, NameParent, DeclaredIs DEF symbol, child, children
  <2> HIDE DEF m
  <2>4. CASE /\ symbol(m) = "." /\ symbol(n) = "TOK_FIELD" /\ n = child(m, 1)
    <3>1. symbol(m) \in Upper \ {"TOK_BLOCK"}
      BY <2>4 DEF Upper, Statement, Expression
    <3>2. Ready(m)
      BY <1>3, <1>4, <2>2, <3>1
    <3> QED BY <2>4, <3>2 DEF Ready, Entry
  <2>5. CASE Declaration(ast, m, symbol(n)) /\ n = declared(m)
    <3>1. m # 1
      <4>1. symbol(m) # "TOK_ROOT"
        BY <2>5 DEF Declaration, symbol, TypeName
      <4> QED BY <1>1, <4>1 DEF WellFormed, symbol
    <3>2. g \in DOMAIN ast /\ m \in Kids(ast, g)
      BY <1>1, <2>2, <3>1, ParentOf
    <3> HIDE DEF g
    <3>3. \/ /\ symbol(n) = "TOK_FIELD" /\ symbol(g) = "TOK_STRUCT"
             /\ \E i \in 2..Len(ast[g].children) : m = ast[g].children[i]
          \/ symbol(n) = "TOK_DECLID" /\ symbol(g) = "TOK_PARAMLIST"
          \/ /\ symbol(n) = "TOK_DECLID"
             /\ symbol(g) \in Callables \cup {"TOK_VARDECL"}
             /\ m = ast[g].children[1]
      BY <1>1, <1>6, <2>5, <3>2, DeclarationParent DEF symbol
    <3>4. /\ Ancestors(n) = {n} \cup Ancestors(m)
          /\ Ancestors(m) = {m} \cup Ancestors(g) /\ g \in Ancestors(g)
      BY <1>1, <2>2, <3>2, AboveMangled
    <3>5. \A x \in Ancestors(n) : symbol(x) # "TOK_PROTOTYPE"
      BY DEF Mangled
    <3>6. CASE symbol(n) = "TOK_FIELD" /\ symbol(g) = "TOK_STRUCT"
      <4>1. PICK i \in 2..Len(ast[g].children) : m = ast[g].children[i]
        BY <3>3, <3>6
      <4>2. i - 1 \in 1..arity(g) - 1 /\ m = child(g, i - 1)
        <5>1. Len(ast[g].children) \in Nat
          BY <1>1, <3>2, KidsFollow
        <5>2. (i - 1) + 1 = i
          BY <4>1
        <5> QED BY <4>1, <5>1, <5>2 DEF arity, child, children
      <4>3. symbol(g) \in Upper \ {"TOK_BLOCK"}
        BY <3>6 DEF Upper
      <4>4. Ready(g)
        BY <1>3, <1>4, <3>2, <4>3
      <4>5. member[declared(m)] # NULL
        BY <3>6, <4>2, <4>4 DEF Ready
      <4> QED BY <2>5, <3>6, <4>5 DEF Entry
    <3>7. CASE symbol(n) = "TOK_DECLID" /\ symbol(g) = "TOK_PARAMLIST"
      <4> DEFINE f == parent(g)
      <4>1. f \in DOMAIN ast /\ g \in Kids(ast, f)
        BY <1>1, <3>2, <3>7, ParamlistParent
      <4> HIDE DEF f
      <4>2. symbol(f) \in Callables /\ g = ast[f].children[2]
        BY <1>1, <3>2, <3>7, <4>1, KidTokens DEF symbol
      <4>3. f \in Ancestors(n)
        BY <1>1, <3>2, <3>4, <4>1, AboveMangled
      <4>4. symbol(f) = "TOK_FUNCTION"
        BY <3>5, <4>2, <4>3 DEF Callables
      <4>5. f \in S
        BY <1>3, <4>1, <4>4 DEF Upper, Callables
      <4>6. 1 \in 1..Len(Path(ast, f)) /\ Path(ast, f)[1] = g
        <5> DEFINE b == ast[Body(ast, f)].children
        <5>1. Path(ast, f) = <<g>> \o b
          BY <4>2, <4>4 DEF Path, symbol
        <5>2. b \in Seq(DOMAIN ast)
          BY <1>1, <4>1, <4>4, BodyIsKid, KidsFollow DEF symbol
        <5> HIDE DEF b
        <5> QED BY <3>2, <5>1, <5>2
      <4>7. g \in S
        BY <1>4, <4>4, <4>5, <4>6
      <4>8. Path(ast, g) = ast[g].children
        BY <3>7 DEF Path, symbol
      <4>9. PICK k \in 1..Len(ast[g].children) : m = ast[g].children[k]
        BY <3>2 DEF Kids, Range
      <4>10. symbol(g) \notin PassedOver
        BY <3>7 DEF PassedOver, VariableTypes, TypeName, Callables
      <4>11. m \in S
        BY <1>4, <4>7, <4>8, <4>9, <4>10
      <4>12. symentry[declared(m)] # NULL
        BY <1>4, <2>2, <2>5, <3>7, <4>11, DeclaredReady
      <4> QED BY <2>5, <3>7, <4>12 DEF Entry
    <3>8. CASE symbol(n) = "TOK_DECLID" /\ symbol(g) = "TOK_VARDECL"
      <4>1. m = ast[g].children[1]
        BY <3>3, <3>8 DEF Callables
      <4>2. Path(ast, g) = ast[g].children /\ Len(ast[g].children) = 2
        BY <1>1, <3>2, <3>8 DEF Path, symbol, WellFormed, Built
      <4>3. symbol(g) \in Upper \ {"TOK_BLOCK"} /\ symbol(g) \notin PassedOver
        BY <3>8 DEF Upper, Statement, PassedOver, VariableTypes, TypeName,
                    Callables
      <4>4. g \in S
        BY <1>3, <3>2, <4>3
      <4>5. m \in S
        BY <1>4, <4>1, <4>2, <4>3, <4>4
      <4>6. symentry[declared(m)] # NULL
        BY <1>4, <2>2, <2>5, <3>8, <4>5, DeclaredReady
      <4> QED BY <2>5, <3>8, <4>6 DEF Entry
    <3>9. CASE symbol(n) = "TOK_DECLID" /\ symbol(g) \in Callables
      <4>1. g \in Ancestors(n)
        BY <3>4
      <4>2. symbol(g) = "TOK_FUNCTION"
        BY <3>5, <3>9, <4>1 DEF Callables
      <4>3. m = child(g, 0)
        BY <3>3, <3>9 DEF Callables, child, children
      <4>4. g \in S
        BY <1>3, <3>2, <4>2 DEF Upper, Callables
      <4>5. FunctionReady(g)
        BY <1>4, <4>4
      <4>6. n = declared(child(g, 0))
        BY <2>5, <4>3
      <4>7. \/ symentry[n] # NULL
            \/ \E d \in Declared :
                 d < n /\ symbols[d] = [lexinfo  |-> lexinfo(n),
                                        block_nr |-> 0]
        BY <4>2, <4>5, <4>6 DEF FunctionReady
      <4> QED BY <3>2, <3>9, <4>2, <4>6, <4>7
              DEF DefinesDeclared, NodesWith, Entry
    <3> QED BY <3>3, <3>6, <3>7, <3>8, <3>9
  <2> QED BY <2>3, <2>4, <2>5
<1> QED BY <1>5, <1>6 DEF Mangled, NodesWith

(* In an accepted program the assertion assert(node->symentry) of the      *)
(* emitter (emit.cpp:151) can fail for nothing but the name in a function  *)
(* definition whose name was declared before.                              *)
THEOREM OnlyRedefinitionsAreUnready == Spec => []OnlyRedefinitionsUnready
<1>1. TraversalInv /\ CoverInv => OnlyRedefinitionsUnready
  BY AcceptedBound DEF OnlyRedefinitionsUnready
<1> QED BY <1>1, CoverCorrect, PTL

-----------------------------------------------------------------------------
(* Where a frame stands. *)

(* A frame is for a node that the frame below it came to. *)
Rooted(p, cs) ==
  \A i \in 1..Len(cs) : i # 1 =>
    \E k \in 1..Len(Path(p, cs[i - 1].node)) :
      cs[i].node = Path(p, cs[i - 1].node)[k]

(* A function on the stack is the current one. *)
Calling(p, cs, cf) ==
  \A g \in OnStack(cs) : p[g].symbol \in Callables => cf = FunctionName(p, g)

(* No parameter is a global symbol. *)
NoGlobalParameter ==
  \A d \in Declared :
    symbols[d].block_nr = 0 => symbol(Prototype(d)) # "TOK_PARAMLIST"

(* The symbol that returns of function f are checked against has its type. *)
FunctionTyped(f) ==
  symbol(f) = "TOK_FUNCTION" =>
    LET name == FunctionName(ast, f) IN
    /\ name \in DOMAIN TableAt(1)
    /\ info[TableAt(1)[name]].attributes \cap ANY
         = NewSymbol(child(f, 0), {"function"}).attributes \cap ANY

FramesInv ==
  /\ Rooted(ast, calls)
  /\ Calling(ast, calls, current_function)
  /\ NoGlobalParameter

LEMMA ListFirst ==
  ASSUME WellFormed(ast, Name), NEW f \in DOMAIN ast, symbol(f) \in Callables
  PROVE  1 \in 1..Len(Path(ast, f)) /\ Path(ast, f)[1] = child(f, 1)
<1> DEFINE l == child(f, 1)
<1>1. CASE symbol(f) = "TOK_PROTOTYPE"
  BY <1>1 DEF Path, symbol, child, children
<1>2. CASE symbol(f) = "TOK_FUNCTION"
  <2> DEFINE b == ast[Body(ast, f)].children
  <2>1. Path(ast, f) = <<l>> \o b
    BY <1>2 DEF Path, symbol, child, children
  <2>2. b \in Seq(DOMAIN ast)
    <3>1. Body(ast, f) \in DOMAIN ast
      BY <1>2, BodyIsKid DEF symbol
    <3> QED BY <3>1, KidsFollow
  <2> HIDE DEF b, l
  <2>3. <<l>> \in Seq({l} \cup DOMAIN ast) /\ b \in Seq({l} \cup DOMAIN ast)
    BY <2>2
  <2>4. (<<l>> \o b)[1] = l /\ 1 \in 1..Len(<<l>> \o b)
    BY <2>3
  <2> QED BY <2>1, <2>4 DEF l
<1> QED BY <1>1, <1>2 DEF Callables

LEMMA RootedSame ==
  ASSUME NEW p, NEW cs, NEW as, Len(as) = Len(cs),
         \A i \in 1..Len(cs) : as[i].node = cs[i].node,
         Len(cs) \in Nat, Rooted(p, cs)
  PROVE  Rooted(p, as)
<1> SUFFICES ASSUME NEW i \in 1..Len(as), i # 1
             PROVE  \E k \in 1..Len(Path(p, as[i - 1].node)) :
                      as[i].node = Path(p, as[i - 1].node)[k]
  BY DEF Rooted
<1>1. i \in 1..Len(cs) /\ i - 1 \in 1..Len(cs)
  OBVIOUS
<1>2. as[i].node = cs[i].node /\ as[i - 1].node = cs[i - 1].node
  BY <1>1
<1> QED BY <1>1, <1>2 DEF Rooted

LEMMA RootedPushed ==
  ASSUME NEW p, NEW cs \in Seq(Frames(p)), Rooted(p, cs),
         NEW f \in Frames(p),
         \E k \in 1..Len(Path(p, cs[Len(cs)].node)) :
           f.node = Path(p, cs[Len(cs)].node)[k]
  PROVE  Rooted(p, Append(cs, f))
<1> DEFINE as == Append(cs, f)
<1>1. /\ Len(as) = Len(cs) + 1 /\ as[Len(cs) + 1] = f /\ Len(cs) \in Nat
      /\ \A i \in 1..Len(cs) : as[i] = cs[i]
  OBVIOUS
<1> HIDE DEF as
<1> SUFFICES ASSUME NEW i \in 1..Len(as), i # 1
             PROVE  \E k \in 1..Len(Path(p, as[i - 1].node)) :
                      as[i].node = Path(p, as[i - 1].node)[k]
  BY DEF Rooted, as
<1>2. i - 1 \in 1..Len(cs)
  BY <1>1
<1>3. CASE i \in 1..Len(cs)
  <2>1. as[i] = cs[i] /\ as[i - 1] = cs[i - 1]
    BY <1>1, <1>2, <1>3
  <2> QED BY <1>3, <2>1 DEF Rooted
<1>4. CASE i = Len(cs) + 1
  <2>1. as[i] = f /\ as[i - 1] = cs[Len(cs)]
    <3>1. i - 1 = Len(cs)
      BY <1>1, <1>4
    <3> QED BY <1>1, <1>2, <1>4, <3>1
  <2> QED BY <2>1
<1>5. i \in 1..Len(cs) \/ i = Len(cs) + 1
  BY <1>1
<1> QED BY <1>3, <1>4, <1>5

LEMMA RootedPopped ==
  ASSUME NEW p, NEW cs \in Seq(Frames(p)), cs # <<>>, Rooted(p, cs)
  PROVE  Rooted(p, Front(cs))
<1> DEFINE as == Front(cs)
<1>1. /\ Len(cs) \in Nat \ {0} /\ Len(as) = Len(cs) - 1
      /\ \A i \in 1..Len(cs) - 1 : as[i] = cs[i]
  BY FrontFacts
<1> HIDE DEF as
<1> SUFFICES ASSUME NEW i \in 1..Len(as), i # 1
             PROVE  \E k \in 1..Len(Path(p, as[i - 1].node)) :
                      as[i].node = Path(p, as[i - 1].node)[k]
  BY DEF Rooted, as
<1>2. i \in 1..Len(cs) - 1 /\ i - 1 \in 1..Len(cs) - 1 /\ i \in 1..Len(cs)
  BY <1>1
<1>3. as[i] = cs[i] /\ as[i - 1] = cs[i - 1]
  BY <1>1, <1>2
<1> QED BY <1>2, <1>3 DEF Rooted

LEMMA RootedStep ==
  ASSUME TraversalInv, Next, Rooted(ast, calls)
  PROVE  Rooted(ast, calls')
<1>1. /\ Running /\ WellFormed(ast, Name) /\ calls \in Seq(Frames(ast))
      /\ calls # <<>> /\ Caller = calls[Len(calls)]
      /\ Passes \/ Enters \/ Begins_function \/ Leaves
  BY Moves, CallerIs
<1>2. ASSUME HasNext
      PROVE  /\ Rooted(ast, Advanced) /\ Next_node \in DOMAIN ast
             /\ Advanced \in Seq(Frames(ast))
             /\ \E k \in 1..Len(Path(ast, Advanced[Len(Advanced)].node)) :
                  Next_node = Path(ast, Advanced[Len(Advanced)].node)[k]
  <2>1. /\ Len(Advanced) = Len(calls) /\ Len(calls) \in Nat \ {0}
        /\ \A i \in 1..Len(calls) : Advanced[i].node = calls[i].node
    BY <1>1, <1>2, AdvancedIs
  <2>2. Len(calls) \in 1..Len(calls)
    BY <2>1
  <2> QED BY <1>1, <1>2, <2>1, <2>2, RootedSame, Goes
<1>3. CASE Passes
  BY <1>2, <1>3 DEF Passes
<1>4. CASE Enters
  <2>1. HasNext /\ calls' = Append(Advanced, Frame(Next_node))
    BY <1>4 DEF Enters
  <2>2. Frame(Next_node) \in Frames(ast) /\ Frame(Next_node).node = Next_node
    BY <1>2, <2>1 DEF Frame, Frames
  <2> QED BY <1>2, <2>1, <2>2, RootedPushed
<1>5. CASE Begins_function
  <2> DEFINE f == [node |-> Next_node, next |-> 2]
             l == child(Next_node, 1)
             g == Frame(l)
             as == Append(Advanced, f)
  <2>1. /\ HasNext /\ calls' = Append(as, g) /\ symbol(Next_node) \in Callables
    BY <1>5 DEF Begins_function
  <2>2. f \in Frames(ast) /\ f.node = Next_node
    BY <1>2, <2>1 DEF Frames
  <2>3. l \in DOMAIN ast
    BY <1>1, <1>2, <2>1, FunctionDeclares DEF Callables
  <2>4. g \in Frames(ast) /\ g.node = l
    BY <2>3 DEF Frame, Frames
  <2>5. \E k \in 1..Len(Path(ast, Next_node)) : l = Path(ast, Next_node)[k]
    BY <1>1, <1>2, <2>1, ListFirst
  <2> HIDE DEF f, g, l
  <2>6. Rooted(ast, as) /\ as \in Seq(Frames(ast)) /\ as[Len(as)] = f
    BY <1>2, <2>1, <2>2, RootedPushed
  <2> HIDE DEF as
  <2> QED BY <2>1, <2>2, <2>4, <2>5, <2>6, RootedPushed
<1>6. CASE Leaves
  BY <1>1, <1>6, RootedPopped DEF Leaves
<1> QED BY <1>1, <1>3, <1>4, <1>5, <1>6

(* A function is the second frame. *)
LEMMA CallablesSecond ==
  ASSUME NEW p, NEW names, WellFormed(p, names), NEW cs \in Seq(Frames(p)),
         Nested(p, cs), Rooted(p, cs), Shaped(p, cs),
         NEW i \in 1..Len(cs), p[cs[i].node].symbol \in Callables
  PROVE  i = 2
<1>1. /\ cs[1].node = 1 /\ p[1].symbol = "TOK_ROOT" /\ Len(cs) \in Nat
      /\ 1 \in DOMAIN p
  BY DEF Shaped, WellFormed
<1>2. i # 1
  BY <1>1 DEF Callables
<1> DEFINE n == cs[i].node
           m == cs[i - 1].node
<1>3. /\ i - 1 \in 1..Len(cs) /\ n \in DOMAIN p /\ m \in DOMAIN p
      /\ \E k \in 1..Len(Path(p, m)) : n = Path(p, m)[k]
  <2>1. i - 1 \in 1..Len(cs)
    BY <1>1, <1>2
  <2>2. cs[i] \in Frames(p) /\ cs[i - 1] \in Frames(p)
    BY <2>1
  <2> QED BY <1>2, <2>1, <2>2 DEF Rooted, Frames
<1>4. \/ n \in Kids(p, m)
      \/ /\ p[m].symbol = "TOK_FUNCTION" /\ Body(p, m) \in Kids(p, m)
         /\ n \in Kids(p, Body(p, m))
  BY <1>3, PathFollows
<1> HIDE DEF n
<1>5. m = 1
  <2> HIDE DEF m
  <2>1. CASE n \in Kids(p, m)
    BY <1>3, <2>1, FunctionsAtRoot DEF n
  <2>2. CASE p[m].symbol = "TOK_FUNCTION" /\ n \in Kids(p, Body(p, m))
    <3>1. Body(p, m) \in DOMAIN p /\ p[Body(p, m)].symbol = "TOK_BLOCK"
      BY <1>3, <2>2, BodyIsKid
    <3>2. Body(p, m) = 1
      BY <1>3, <2>2, <3>1, FunctionsAtRoot DEF n
    <3> QED BY <1>1, <3>1, <3>2
  <2> QED BY <1>4, <2>1, <2>2
<1>6. i - 1 = 1
  <2> SUFFICES ASSUME i - 1 # 1 PROVE FALSE
    OBVIOUS
  <2>1. 1 \in 1..Len(cs) /\ 1 < i - 1
    BY <1>1, <1>3
  <2>2. cs[1].node < cs[i - 1].node
    BY <1>3, <2>1 DEF Nested
  <2> QED BY <1>1, <1>5, <2>2
<1> QED BY <1>6

(* The current function changes where one is begun or left. *)
LEMMA CurrentFunction ==
  ASSUME TraversalInv, Next
  PROVE  \/ current_function' = current_function
         \/ Begins_function
         \/ Leaves /\ symbol(Caller.node) \in Callables
<1>1. CASE VisitFunction
  <2>1. /\ Running /\ HasNext /\ symbol(Next_node) \in Callables
        /\ symbol(Caller.node) # "TOK_PARAMLIST" /\ ast' = ast
    BY <1>1 DEF VisitFunction, Visiting, Callables
  <2> DEFINE prev == GlobalSymbol(lexinfo(declared(child(Next_node, 0))))
  <2>2. /\ current_function' = current_function /\ Call(<<>>)
        \/ EnterFunction(Next_node, prev)
    BY <1>1 DEF VisitFunction, Redeclare, SkipFunction
  <2>3. CASE EnterFunction(Next_node, prev)
    <3> DEFINE f == [node |-> Next_node, next |-> 2]
               g == Frame(child(Next_node, 1))
    <3>1. calls' = Advanced \o <<f, g>>
      BY <2>3 DEF EnterFunction, Call
    <3>2. /\ f \in Frames(ast) /\ g \in Frames(ast)
          /\ Advanced \in Seq(Frames(ast))
      BY <2>1, Goes, FunctionDeclares DEF Callables, Frame, Frames
    <3> HIDE DEF f, g
    <3>3. calls' = Append(Append(Advanced, f), g)
      BY <3>1, <3>2, AppendTwice
    <3> QED BY <1>1, <2>1, <2>3, <3>3 DEF Begins_function, f, g
  <2> QED BY <2>2, <2>3
<1>2. CASE EndFunction
  BY <1>2 DEF EndFunction, Returning, Return, Leaves, Callables
<1>3. CASE ~ VisitFunction /\ ~ EndFunction
  BY <1>3 DEF Next, VisitDeclaration, VisitVoid, VisitStruct, DeclareParam,
              EndParams, VisitNode, LeaveIdent, LeaveSelector,
              LeaveAllocator, LeaveCall, LeaveNode
<1> QED BY <1>1, <1>2, <1>3

(* What a step makes of the nodes on the stack. *)
LEMMA StackMoves ==
  ASSUME TraversalInv, Next,
         NEW v, v = Next_node, NEW c, c = Caller.node
  PROVE  /\ Passes => OnStack(calls') = OnStack(calls)
         /\ Enters => OnStack(calls') = OnStack(calls) \cup {v}
         /\ Begins_function =>
              OnStack(calls') = OnStack(calls) \cup {v, child(v, 1)}
         /\ Leaves => OnStack(calls) = OnStack(calls') \cup {c}
<1>1. Met(ast, calls, DOMAIN ast)
  <2>1. WellFormed(ast, Name) /\ calls \in Seq(Frames(ast))
    BY CallerIs, Moves
  <2> SUFFICES ASSUME NEW i \in 1..Len(calls),
                      NEW k \in 1..Len(Path(ast, calls[i].node))
               PROVE  Path(ast, calls[i].node)[k] \in DOMAIN ast
    BY DEF Met
  <2>2. calls[i].node \in DOMAIN ast
    <3>1. calls[i] \in Frames(ast)
      BY <2>1
    <3> QED BY <3>1 DEF Frames
  <2>3. Path(ast, calls[i].node) \in Seq(DOMAIN ast)
    BY <2>1, <2>2, PathFollows
  <2> QED BY <2>3
<1>2. Met(ast, calls, DOMAIN ast \cup OnStack(calls))
  BY <1>1, MetWidens
<1> QED BY <1>2, MetNext

LEMMA CallingStep ==
  ASSUME TraversalInv, Next, Shaped(ast, calls), Rooted(ast, calls),
         Calling(ast, calls, current_function)
  PROVE  Calling(ast, calls', current_function')
<1> DEFINE v == Next_node
           c == Caller.node
<1>1. /\ Running /\ WellFormed(ast, Name) /\ calls \in Seq(Frames(ast))
      /\ calls # <<>> /\ Caller = calls[Len(calls)] /\ Caller \in Frames(ast)
      /\ Passes \/ Enters \/ Begins_function \/ Leaves
      /\ Nested(ast, calls)
  BY Moves, CallerIs DEF TraversalInv, Walk
<1>2. /\ Passes => OnStack(calls') = OnStack(calls)
      /\ Enters => OnStack(calls') = OnStack(calls) \cup {v}
      /\ Begins_function =>
           OnStack(calls') = OnStack(calls) \cup {v, child(v, 1)}
      /\ Leaves => OnStack(calls) = OnStack(calls') \cup {c}
  BY StackMoves
<1>3. CASE Begins_function
  <2>1. /\ HasNext /\ symbol(v) \in Callables
        /\ current_function' = lexinfo(declared(child(v, 0)))
    BY <1>3 DEF Begins_function, EnterFunction
  <2>2. OnStack(calls) = {1} /\ v \in DOMAIN ast
    BY <1>1, <2>1, MetFromRoot, Goes
  <2>3. /\ symbol(child(v, 1)) = "TOK_PARAMLIST"
        /\ FunctionName(ast, v) = lexinfo(declared(child(v, 0)))
    BY <1>1, <2>1, <2>2, ListsDiffer DEF symbol
  <2>4. ast[1].symbol = "TOK_ROOT"
    BY <1>1 DEF WellFormed
  <2> QED BY <1>2, <1>3, <2>1, <2>2, <2>3, <2>4 DEF Calling, Callables, symbol
<1>4. CASE Leaves /\ symbol(c) \in Callables
  <2> SUFFICES ASSUME NEW i \in 1..Len(calls'),
                      ast[calls'[i].node].symbol \in Callables
               PROVE  FALSE
    BY DEF Calling, OnStack
  <2>1. Len(calls) \in Nat \ {0} /\ Len(calls) \in 1..Len(calls)
    BY <1>1
  <2>2. Len(calls) = 2
    BY <1>1, <1>4, <2>1, CallablesSecond DEF symbol
  <2>3. i = 1 /\ calls'[1] = calls[1]
    <3>1. /\ calls' = Front(calls) /\ Len(Front(calls)) = Len(calls) - 1
          /\ \A j \in 1..Len(calls) - 1 : Front(calls)[j] = calls[j]
      BY <1>1, <1>4, FrontFacts DEF Leaves
    <3>2. Len(calls') = 1 /\ calls'[1] = calls[1]
      BY <2>2, <3>1
    <3> QED BY <3>2
  <2>4. calls[1].node = 1 /\ ast[1].symbol = "TOK_ROOT"
    BY <1>1 DEF Shaped, WellFormed
  <2> QED BY <2>3, <2>4 DEF Callables
<1>5. CASE /\ ~ Begins_function /\ ~ (Leaves /\ symbol(c) \in Callables)
  <2>1. current_function' = current_function
    BY <1>5, CurrentFunction
  <2>2. \A g \in OnStack(calls') : ast[g].symbol \in Callables =>
          g \in OnStack(calls)
    <3>1. Enters => symbol(v) \notin Callables
      BY DEF Enters, Special, Callables
    <3> HIDE DEF v, c
    <3> QED BY <1>1, <1>2, <1>5, <3>1 DEF symbol
  <2> QED BY <2>1, <2>2 DEF Calling
<1> QED BY <1>3, <1>4, <1>5

(* What gets a symbol: a variable, a parameter or a function. *)
LEMMA DeclaredAnew ==
  ASSUME TraversalInv, Next, NEW d \in Declared', d \notin Declared
  PROVE  \/ VisitDeclaration /\ d = declared(Next_node)
         \/ /\ DeclareParam /\ d = declared(Next_node)
            /\ symbols'[d].block_nr = get_current_block
         \/ Begins_function /\ d = declared(child(Next_node, 0))
<1>1. ScopesInv /\ DOMAIN ast \subseteq Node /\ WellFormed(ast, Name)
  BY Moves, CallerIs
<1>2. CASE VisitDeclaration
  <2>1. Symbolize(Next_node, {})
    BY <1>2 DEF VisitDeclaration
  <2>2. Declared' = Declared \cup {declared(Next_node)} \/ Declared' = Declared
    BY <2>1, Symbolizes
  <2> QED BY <1>2, <2>2
<1>3. CASE DeclareParam
  <2> DEFINE e == declared(Next_node)
             b == get_current_block
  <2>1. Symbolize(Next_node, {"param"})
    BY <1>3 DEF DeclareParam
  <2>2. Symbolized(Next_node, {"param"})
    BY <2>1, Symbolizes
  <2>3. /\ symbols' = Extend(symbols, e, [lexinfo |-> lexinfo(e),
                                          block_nr |-> b])
        /\ Declared' = Declared \cup {e}
    BY <2>1, <2>2, Symbolizes
  <2>4. d = e
    BY <2>3
  <2> HIDE DEF b, e
  <2>5. symbols'[d] = [lexinfo |-> lexinfo(e), block_nr |-> b]
    BY <2>3, <2>4 DEF Extend
  <2>6. symbols'[d].block_nr = b
    BY <2>5
  <2> QED BY <1>3, <2>4, <2>6 DEF b, e
<1>4. CASE VisitFunction
  <2>1. /\ Running /\ HasNext /\ symbol(Next_node) \in Callables
        /\ symbol(Caller.node) # "TOK_PARAMLIST" /\ ast' = ast
    BY <1>4 DEF VisitFunction, Visiting, Callables
  <2> DEFINE e == declared(child(Next_node, 0))
             prev == GlobalSymbol(lexinfo(e))
  <2>2. symbols' = symbols \/ EnterFunction(Next_node, prev)
    BY <1>4 DEF VisitFunction, Redeclare, SkipFunction, scopeVars
  <2>3. CASE symbols' = symbols
    BY <2>3 DEF Declared
  <2>4. CASE EnterFunction(Next_node, prev)
    <3>1. e \in Node /\ lexinfo(e) \in Name /\ BeginFunction(e, lexinfo(e))
      BY <1>1, <2>1, <2>4, Goes, FunctionDeclares DEF EnterFunction, Callables
    <3>2. Declared' = Declared \cup {e} \/ Declared' = Declared
      BY <1>1, <3>1, Begins
    <3>3. d = e
      BY <3>2
    <3>4. Begins_function
      <4> DEFINE f == [node |-> Next_node, next |-> 2]
                 g == Frame(child(Next_node, 1))
      <4>1. calls' = Advanced \o <<f, g>>
        BY <2>4 DEF EnterFunction, Call
      <4>2. /\ f \in Frames(ast) /\ g \in Frames(ast)
            /\ Advanced \in Seq(Frames(ast))
        BY <2>1, Goes, FunctionDeclares DEF Callables, Frame, Frames
      <4> HIDE DEF f, g
      <4>3. calls' = Append(Append(Advanced, f), g)
        BY <4>1, <4>2, AppendTwice
      <4> QED BY <1>4, <2>1, <2>4, <4>3 DEF Begins_function, f, g
    <3> QED BY <3>3, <3>4
  <2> QED BY <2>2, <2>3, <2>4
<1>5. CASE LeaveIdent
  BY <1>5 DEF LeaveIdent, UseSymbol, Declared
<1>6. CASE EndFunction \/ VisitNode \/ LeaveNode
  BY <1>6 DEF EndFunction, VisitNode, LeaveNode, EnterBlock, LeaveBlock,
              scopeVars, Declared
<1>7. CASE \/ VisitVoid \/ VisitStruct \/ EndParams \/ LeaveSelector
           \/ LeaveAllocator \/ LeaveCall
  BY <1>7 DEF VisitVoid, VisitStruct, EndParams, LeaveSelector,
              LeaveAllocator, LeaveCall, scopeVars, Declared
<1> QED BY <1>2, <1>3, <1>4, <1>5, <1>6, <1>7 DEF Next

(* While parameters are looked at, a block is open. *)
LEMMA ListInBlock ==
  ASSUME TraversalInv, Running, Shaped(ast, calls), Rooted(ast, calls),
         symbol(Caller.node) = "TOK_PARAMLIST"
  PROVE  get_current_block # 0
<1> DEFINE k == Len(calls)
           n == calls[k].node
           m == calls[k - 1].node
<1>1. /\ WellFormed(ast, Name) /\ calls \in Seq(Frames(ast)) /\ calls # <<>>
      /\ Caller = calls[k] /\ n \in DOMAIN ast /\ k \in Nat \ {0}
      /\ symbol(n) = "TOK_PARAMLIST" /\ k \in 1..k
  BY CallerIs
<1>2. k # 1 /\ k - 1 \in 1..k
  <2>1. calls[1].node = 1 /\ symbol(1) = "TOK_ROOT"
    BY <1>1 DEF Shaped, WellFormed, symbol
  <2>2. k # 1
    BY <1>1, <2>1
  <2> HIDE DEF k
  <2> QED BY <1>1, <2>2
<1>3. m \in DOMAIN ast
  <2>1. calls[k - 1] \in Frames(ast)
    BY <1>1, <1>2
  <2> QED BY <2>1 DEF Frames
<1>4. \E i \in 1..Len(Path(ast, m)) : n = Path(ast, m)[i]
  BY <1>1, <1>2 DEF Rooted
<1>5. \/ n \in Kids(ast, m)
      \/ /\ ast[m].symbol = "TOK_FUNCTION" /\ Body(ast, m) \in Kids(ast, m)
         /\ n \in Kids(ast, Body(ast, m))
  BY <1>1, <1>3, <1>4, PathFollows
<1> HIDE DEF n, m
<1>6. symbol(m) \in Callables
  <2>1. CASE n \in Kids(ast, m)
    BY <1>1, <1>3, <2>1, KidTokens DEF symbol
  <2>2. CASE ast[m].symbol = "TOK_FUNCTION" /\ n \in Kids(ast, Body(ast, m))
    <3>1. Body(ast, m) \in DOMAIN ast /\ ast[Body(ast, m)].symbol = "TOK_BLOCK"
      BY <1>1, <1>3, <2>2, BodyIsKid
    <3>2. ast[Body(ast, m)].symbol \in Callables
      BY <1>1, <2>2, <3>1, KidTokens DEF symbol
    <3> QED BY <3>1, <3>2 DEF Callables
  <2> QED BY <1>5, <2>1, <2>2
<1>7. OpenFrames(ast, calls) # {}
  BY <1>2, <1>6 DEF OpenFrames, BlockTokens, Callables, symbol, m
<1>8. Open(ast, calls) \in Nat /\ Open(ast, calls) # 0
  BY <1>1, <1>7, OpenType, FS_EmptySet DEF Open
<1> DEFINE D == Len(block_num_stack)
<1>9. /\ D \in Nat /\ D > 1 /\ block_num_stack \in Seq(Nat)
      /\ block_num_stack[1] = 0 /\ Depth = D
      /\ \A i, j \in 1..Depth : i < j =>
           block_num_stack[i] < block_num_stack[j]
  <2>1. Depth = 1 + Open(ast, calls) /\ ScopesInv
    BY DEF TraversalInv
  <2>2. /\ Depth = D /\ block_num_stack \in Seq(Nat)
        /\ block_num_stack[1] = 0
        /\ \A i, j \in 1..Depth : i < j =>
             block_num_stack[i] < block_num_stack[j]
    BY <2>1 DEF ScopesInv, Good, Stacks, Depth
  <2> QED BY <1>8, <2>1, <2>2
<1>10. get_current_block = block_num_stack[D]
  BY <1>9 DEF get_current_block, Last
<1>11. block_num_stack[1] < block_num_stack[D]
  <2>1. 1 \in 1..D /\ D \in 1..D /\ 1 < D
    <3> HIDE DEF D
    <3> QED BY <1>9
  <2> QED BY <1>9, <2>1
<1> QED BY <1>9, <1>10, <1>11

LEMMA NoGlobalParameterStep ==
  ASSUME TraversalInv, Next, Shaped(ast, calls), Rooted(ast, calls),
         NoGlobalParameter
  PROVE  NoGlobalParameter'
<1>1. /\ Running /\ WellFormed(ast, Name) /\ ast' = ast /\ ScopesInv
      /\ DOMAIN ast \subseteq Node /\ [ScopesNext]_scopeVars
  BY Moves, CallerIs, TraversalStep
<1> SUFFICES ASSUME NEW d \in Declared', symbols'[d].block_nr = 0
             PROVE  symbol(Prototype(d)) # "TOK_PARAMLIST"
  BY <1>1 DEF NoGlobalParameter, Prototype, parent, symbol, children
<1>2. CASE d \in Declared
  BY <1>1, <1>2, SymbolsKept DEF NoGlobalParameter
<1>3. CASE VisitDeclaration /\ d = declared(Next_node)
  <2>1. /\ HasNext /\ symbol(Next_node) \in VariableTypes
        /\ symbol(Caller.node) # "TOK_PARAMLIST"
    BY <1>3 DEF VisitDeclaration, Visiting
  <2>2. Declaration(ast, Next_node, "TOK_DECLID") /\ Next_node \in DOMAIN ast
    BY <1>1, <2>1, NextDeclares, Goes
  <2>3. d \in Kids(ast, Next_node)
    BY <1>1, <1>3, <2>1, <2>2, NewDeclaration
  <2>4. parent(d) = Next_node
    BY <1>1, <2>2, <2>3, ParentIs
  <2>5. /\ Caller.node \in DOMAIN ast
        /\ \E i \in 1..Len(Path(ast, Caller.node)) :
             Next_node = Path(ast, Caller.node)[i]
    BY <1>1, <2>1, Goes
  <2>6. \/ Next_node \in Kids(ast, Caller.node)
        \/ /\ ast[Caller.node].symbol = "TOK_FUNCTION"
           /\ Body(ast, Caller.node) \in Kids(ast, Caller.node)
           /\ Next_node \in Kids(ast, Body(ast, Caller.node))
    BY <1>1, <2>5, PathFollows
  <2>7. symbol(parent(Next_node)) # "TOK_PARAMLIST"
    <3>1. CASE Next_node \in Kids(ast, Caller.node)
      BY <1>1, <2>1, <2>5, <3>1, ParentIs
    <3>2. CASE /\ ast[Caller.node].symbol = "TOK_FUNCTION"
               /\ Next_node \in Kids(ast, Body(ast, Caller.node))
      <4>1. /\ Body(ast, Caller.node) \in DOMAIN ast
            /\ ast[Body(ast, Caller.node)].symbol = "TOK_BLOCK"
        BY <1>1, <2>5, <3>2, BodyIsKid
      <4>2. parent(Next_node) = Body(ast, Caller.node)
        BY <1>1, <3>2, <4>1, ParentIs
      <4> QED BY <4>1, <4>2 DEF symbol
    <3> QED BY <2>6, <3>1, <3>2
  <2> QED BY <2>4, <2>7 DEF Prototype
<1>4. CASE DeclareParam /\ symbols'[d].block_nr = get_current_block
  <2>1. symbol(Caller.node) = "TOK_PARAMLIST"
    BY <1>4 DEF DeclareParam
  <2> QED BY <1>1, <1>4, <2>1, ListInBlock
<1>5. CASE Begins_function /\ d = declared(child(Next_node, 0))
  <2>1. HasNext /\ symbol(Next_node) \in Callables
    BY <1>5 DEF Begins_function
  <2>2. Next_node \in DOMAIN ast
    BY <1>1, <2>1, Goes
  <2>3. /\ child(Next_node, 0) \in Kids(ast, Next_node)
        /\ child(Next_node, 0) \in DOMAIN ast
        /\ d \in Kids(ast, child(Next_node, 0))
    BY <1>1, <1>5, <2>1, <2>2, FunctionDeclares DEF Callables
  <2>4. parent(d) = child(Next_node, 0) /\ parent(child(Next_node, 0))
                                             = Next_node
    BY <1>1, <2>2, <2>3, ParentIs
  <2> QED BY <2>1, <2>4 DEF Prototype, Callables
<1> QED BY <1>1, <1>2, <1>3, <1>4, <1>5, DeclaredAnew

LEMMA FramesStep ==
  ASSUME TraversalInv, Next, Shaped(ast, calls), FramesInv
  PROVE  FramesInv'
<1>1. ast' = ast
  BY Moves
<1>2. Rooted(ast, calls') /\ Calling(ast, calls', current_function')
  BY RootedStep, CallingStep DEF FramesInv
<1>3. NoGlobalParameter'
  BY NoGlobalParameterStep DEF FramesInv
<1> QED BY <1>1, <1>2, <1>3 DEF FramesInv

LEMMA FramesInit == Init => FramesInv
<1> SUFFICES ASSUME Init PROVE FramesInv
  OBVIOUS
<1>1. TraversalInv /\ calls = <<Frame(1)>>
  BY TraversalInit DEF Init
<1>2. WellFormed(ast, Name)
  BY <1>1, Tree DEF TraversalInv
<1>3. Len(calls) = 1 /\ calls[1].node = 1
  BY <1>1 DEF Frame
<1>4. ast[1].symbol = "TOK_ROOT"
  BY <1>2 DEF WellFormed
<1>5. Rooted(ast, calls)
  BY <1>3 DEF Rooted
<1>6. Calling(ast, calls, current_function)
  BY <1>3, <1>4 DEF Calling, OnStack, Callables
<1>7. NoGlobalParameter
  BY DEF Init, ScopesInit, NoGlobalParameter, Declared
<1> QED BY <1>5, <1>6, <1>7 DEF FramesInv

(* The function that a frame stands in is on the stack. *)
LEMMA StackedFunctions ==
  ASSUME WellFormed(ast, Name), calls \in Seq(Frames(ast)),
         Shaped(ast, calls), Rooted(ast, calls),
         NEW j \in 1..Len(calls),
         NEW h \in Ancestors(calls[j].node), symbol(h) = "TOK_FUNCTION"
  PROVE  h \in OnStack(calls)
<1> DEFINE T == {i \in 1..Len(calls) : h \in Ancestors(calls[i].node)}
<1> SUFFICES ASSUME h \notin OnStack(calls) PROVE FALSE
  OBVIOUS
<1>1. T \in SUBSET Nat /\ T # {}
  OBVIOUS
<1>2. PICK i \in T : \A k \in T : i <= k
  BY <1>1, Least
<1>3. i \in 1..Len(calls) /\ Len(calls) \in Nat
  OBVIOUS
<1> DEFINE n == calls[i].node
           m == calls[i - 1].node
<1>4. n \in DOMAIN ast /\ n \in OnStack(calls) /\ h \in Ancestors(n)
  <2>1. calls[i] \in Frames(ast)
    BY <1>3
  <2> QED BY <1>2, <2>1 DEF Frames, OnStack
<1>5. i # 1
  <2> SUFFICES ASSUME i = 1 PROVE FALSE
    OBVIOUS
  <2>1. n = 1
    BY <1>3 DEF Shaped
  <2>2. Ancestors(n) = {n}
    BY <1>4, <2>1, AncestorsAre
  <2> QED BY <1>4, <2>2
<1>6. i - 1 \in 1..Len(calls) /\ i - 1 < i
  BY <1>3, <1>5
<1>7. m \in DOMAIN ast
  <2>1. calls[i - 1] \in Frames(ast)
    BY <1>6
  <2> QED BY <2>1 DEF Frames
<1>8. \E k \in 1..Len(Path(ast, m)) : n = Path(ast, m)[k]
  BY <1>3, <1>5 DEF Rooted
<1>9. \/ n \in Kids(ast, m)
      \/ /\ ast[m].symbol = "TOK_FUNCTION" /\ Body(ast, m) \in Kids(ast, m)
         /\ n \in Kids(ast, Body(ast, m))
  BY <1>7, <1>8, PathFollows
<1> HIDE DEF n
<1>10. h \in Ancestors(m)
  <2> HIDE DEF m
  <2>1. CASE n \in Kids(ast, m)
    <3>1. Ancestors(n) = {n} \cup Ancestors(m)
      BY <1>4, <1>7, <2>1, AboveMangled
    <3> QED BY <1>4, <3>1
  <2>2. CASE /\ ast[m].symbol = "TOK_FUNCTION"
             /\ Body(ast, m) \in Kids(ast, m)
             /\ n \in Kids(ast, Body(ast, m))
    <3> DEFINE b == Body(ast, m)
    <3>1. b \in DOMAIN ast /\ ast[b].symbol = "TOK_BLOCK" /\ b \in Kids(ast, m)
      BY <1>7, <2>2, BodyIsKid
    <3> HIDE DEF b
    <3>2. Ancestors(n) = {n} \cup Ancestors(b)
      BY <1>4, <2>2, <3>1, AboveMangled DEF b
    <3>3. Ancestors(b) = {b} \cup Ancestors(m)
      BY <1>7, <3>1, AboveMangled
    <3>4. h # b
      BY <3>1 DEF symbol
    <3> QED BY <1>4, <3>2, <3>3, <3>4
  <2> QED BY <1>9, <2>1, <2>2
<1>11. i - 1 \in T
  BY <1>6, <1>10
<1> HIDE DEF T
<1>12. i <= i - 1
  BY <1>2, <1>11
<1> QED BY <1>3, <1>12

-----------------------------------------------------------------------------
(* The types of functions. *)

(* What is compared of a type: neither the role of its declaration nor     *)
(* whether something can be assigned to it.                                *)
LEMMA ComparedTypes ==
  ASSUME NEW m, NEW n, IsArray(m) <=> IsArray(n),
         symbol(base_type(m)) = symbol(base_type(n)),
         NEW i \in {{}, {"function"}, {"param"}, {"field"}},
         NEW j \in {{}, {"function"}, {"param"}, {"field"}}
  PROVE  NewSymbol(m, i).attributes \cap ANY
           = NewSymbol(n, j).attributes \cap ANY
<1> DEFINE x == tok_basetype_to_attr(symbol(base_type(m)))
           arr == IF IsArray(m) THEN {"array"} ELSE {}
           type == ({x} \cup arr) \cap ANY
<1>1. ASSUME NEW k, NEW w \in {{}, {"function"}, {"param"}, {"field"}},
             IsArray(k) <=> IsArray(m),
             symbol(base_type(k)) = symbol(base_type(m))
      PROVE  NewSymbol(k, w).attributes \cap ANY = type
  <2> DEFINE role == IF {"function", "field"} \cap w = {}
                     THEN {"variable"} ELSE {}
             more == IF {"function", "field"} \cap w = {}
                     THEN {"lval"} ELSE {}
             base == tok_basetype_to_attr(symbol(base_type(k)))
             brr == IF IsArray(k) THEN {"array"} ELSE {}
  <2>1. NewSymbol(k, w).attributes = (w \cup {base} \cup brr \cup role)
                                        \cup more
    BY DEF NewSymbol, node_generate_attributes
  <2>2. base = x /\ brr = arr
    BY <1>1
  <2>3. w \cap ANY = {} /\ role \cap ANY = {} /\ more \cap ANY = {}
    BY <1>1 DEF ANY, PRIMITIVE, REFERENCE
  <2> HIDE DEF base, brr, role, more, x, arr
  <2> QED BY <2>1, <2>2, <2>3
<1>2. /\ NewSymbol(m, i).attributes \cap ANY = type
      /\ NewSymbol(n, j).attributes \cap ANY = type
  <2> HIDE DEF type
  <2> QED BY <1>1
<1> QED BY <1>2

(* A global symbol is that of a function, a prototype or a variable, and   *)
(* was made of the first child of it.                                      *)
LEMMA GlobalDeclaration ==
  ASSUME TraversalInv, DataInv, SymbolsTrue, NoGlobalParameter,
         NEW name \in DOMAIN TableAt(1), NEW d, d = TableAt(1)[name],
         NEW f, f = Prototype(d)
  PROVE  /\ d \in Declared /\ f \in DOMAIN ast
         /\ symbol(f) \in Callables \cup {"TOK_VARDECL"}
         /\ child(f, 0) \in DOMAIN ast /\ child(f, 0) \in Kids(ast, f)
         /\ Declaration(ast, child(f, 0), "TOK_DECLID")
         /\ d = declared(child(f, 0))
         /\ \E initial \in {{}, {"function"}, {"param"}, {"field"}} :
              info[d].attributes = NewSymbol(child(f, 0), initial).attributes
<1>1. WellFormed(ast, Name) /\ ScopesInv
  BY Tree DEF TraversalInv
<1>2. /\ d \in Declared /\ symbols[d] = [lexinfo |-> name, block_nr |-> 0]
      /\ d \in DOMAIN info /\ d \in DOMAIN ast
      /\ symbol(d) = "TOK_DECLID"
  <2>1. /\ 1 \in 1..Len(symbol_stack) /\ block_num_stack[1] = 0
        /\ TableIn(symbol_stack, 1) = TableAt(1)
    <3>1. /\ Len(symbol_stack) > 0
          /\ symbol_stack \in Seq(Tables(Name) \cup {NULL})
          /\ block_num_stack[1] = 0
      BY <1>1 DEF ScopesInv, Good, Stacks
    <3> QED BY <3>1 DEF TableIn, TableAt
  <2>2. d \in Declared /\ symbols[d] = [lexinfo |-> name, block_nr |-> 0]
    BY <1>1, <2>1 DEF ScopesInv, Good, Sound, Declared
  <2>3. d \in DOMAIN info
    BY <2>2 DEF DataInv, InfoTyped, Known
  <2> QED BY <2>2, <2>3 DEF TraversalInv, Walk, symbol
<1>3. PICK m \in DOMAIN ast,
           initial \in {{}, {"function"}, {"param"}, {"field"}},
           what \in {"TOK_DECLID", "TOK_FIELD"} :
        /\ Declaration(ast, m, what) /\ d = declared(m)
        /\ info[d].attributes = NewSymbol(m, initial).attributes
  BY <1>2 DEF SymbolsTrue, SymbolOf
<1>4. d \in Kids(ast, m) /\ symbol(d) = what
  BY <1>1, <1>3, DeclarationDeclares, DeclaredIs DEF symbol
<1>5. what = "TOK_DECLID" /\ parent(d) = m
  BY <1>1, <1>2, <1>4, ParentIs
<1>6. m # 1
  <2>1. symbol(m) # "TOK_ROOT"
    BY <1>3 DEF Declaration, symbol, TypeName
  <2> QED BY <1>1, <2>1 DEF WellFormed, symbol
<1>7. f \in DOMAIN ast /\ m \in Kids(ast, f)
  BY <1>1, <1>5, <1>6, ParentOf DEF Prototype
<1>8. symbol(f) # "TOK_PARAMLIST"
  <2>1. symbols[d].block_nr = 0
    BY <1>2
  <2> QED BY <1>2, <2>1 DEF NoGlobalParameter
<1>9. symbol(f) \in Callables \cup {"TOK_VARDECL"} /\ m = ast[f].children[1]
  BY <1>1, <1>3, <1>5, <1>7, <1>8, DeclarationParent DEF symbol
<1>10. m = child(f, 0)
  BY <1>9 DEF child, children
<1> QED BY <1>2, <1>3, <1>5, <1>7, <1>9, <1>10

(* What a tree says does not change. *)
LEMMA SameTree ==
  ASSUME ast' = ast, NEW n
  PROVE  /\ symbol(n)' = symbol(n) /\ child(n, 0)' = child(n, 0)
         /\ child(n, 1)' = child(n, 1) /\ children(n)' = children(n)
         /\ parent(n)' = parent(n) /\ declared(n)' = declared(n)
         /\ lexinfo(n)' = lexinfo(n) /\ arity(n)' = arity(n)
         /\ Ancestors(n)' = Ancestors(n)
         /\ \A initial : NewSymbol(n, initial)' = NewSymbol(n, initial)
<1>1. /\ symbol(n)' = symbol(n) /\ child(n, 0)' = child(n, 0)
      /\ child(n, 1)' = child(n, 1) /\ children(n)' = children(n)
      /\ declared(n)' = declared(n)
      /\ lexinfo(n)' = lexinfo(n) /\ arity(n)' = arity(n)
  BY DEF symbol, child, children, lexinfo, arity, declared, IsArray
<1>2. parent(n)' = parent(n)
  BY DEF parent, children
<1>3. Ancestors(n)' = Ancestors(n)
  BY DEF Ancestors, parent, children
<1>4. \A initial : NewSymbol(n, initial)' = NewSymbol(n, initial)
  BY DEF NewSymbol, base_type, IsArray, symbol, child, children, lexinfo
<1> QED BY <1>1, <1>2, <1>3, <1>4

(* The symbol that is global for the name of a function gets its type when *)
(* the function is entered without an error.                               *)
LEMMA BeginsTyped ==
  ASSUME TraversalInv, DataInv, SymbolsTrue, NoGlobalParameter, Next,
         Begins_function, Silently, NEW m, m = Next_node
  PROVE  FunctionTyped(m)'
<1> DEFINE c == child(m, 0)
           d == declared(c)
           name == lexinfo(d)
           prev == GlobalSymbol(name)
           sym == NewSymbol(c, {"function"})
<1>1. /\ Running /\ HasNext /\ ast' = ast /\ ScopesInv
      /\ symbol(m) \in {"TOK_FUNCTION", "TOK_PROTOTYPE"}
      /\ EnterFunction(m, prev)
  BY Moves DEF Begins_function, Callables, TraversalInv
<1>2. WellFormed(ast, Name) /\ m \in DOMAIN ast
  BY <1>1, CallerIs, Goes
<1>3. /\ d \in Node \ Declared /\ name \in Name
      /\ sym.attributes \in SUBSET Attr /\ name = FunctionName(ast, m)
      /\ c \in DOMAIN ast
      /\ Declaration(ast, c, "TOK_DECLID")
  BY <1>1, <1>2, FunctionSymbol, ListsDiffer, FunctionDeclares DEF Callables
<1>4. BeginFunction(d, name)
  BY <1>1 DEF EnterFunction
<1>5. /\ FunctionName(ast, m)' = name /\ symbol(m)' = symbol(m)
      /\ NewSymbol(child(m, 0), {"function"})' = sym
  <2> HIDE DEF name
  <2>1. FunctionName(ast, m)' = name
    BY <1>1, <1>3 DEF FunctionName, DeclaredBy
  <2>2. NewSymbol(child(m, 0), {"function"})' = sym
    BY <1>1
       DEF NewSymbol, base_type, IsArray, symbol, child, children, lexinfo
  <2> QED BY <1>1, <2>1, <2>2, SameTree
<1>6. /\ name \in DOMAIN TableAt(1)'
      /\ info'[TableAt(1)'[name]].attributes \cap ANY = sym.attributes \cap ANY
  <2>1. CASE prev = NULL
    <3> HIDE DEF name, sym
    <3>1. TableAt(1)' = Extend(TableAt(1), name, d)
      BY <1>1, <1>3, <1>4, <2>1, Begins
    <3>2. info' = Extend(info, d, sym)
      BY <1>1, <2>1 DEF EnterFunction, sym
    <3> HIDE DEF d
    <3> QED BY <3>1, <3>2 DEF Extend
  <2>2. CASE prev # NULL
    <3>1. /\ name \in DOMAIN TableAt(1) /\ TableAt(1)' = TableAt(1)
          /\ prev = TableAt(1)[name]
      <4> HIDE DEF d
      <4>1. name \in DOMAIN TableAt(1)
        BY <2>2 DEF GlobalSymbol, find_symbol_in_table
      <4> HIDE DEF name
      <4> QED BY <1>1, <1>3, <1>4, <2>2, <4>1, Begins, GlobalIsDeclared
    <3> DEFINE g == Prototype(prev)
               b == child(g, 0)
    <3>2. /\ typecheck_compare_functions(g, m)
          /\ info' = [info EXCEPT ![prev].params = <<>>,
                                  ![prev].fnblock = NULL]
      BY <1>1, <2>2, SilentSteps DEF EnterFunction
    <3> HIDE DEF name
    <3>3. /\ prev \in Declared /\ Declaration(ast, b, "TOK_DECLID")
          /\ b \in DOMAIN ast
          /\ \E initial \in {{}, {"function"}, {"param"}, {"field"}} :
               info[prev].attributes = NewSymbol(b, initial).attributes
      <4> HIDE DEF prev
      <4> QED BY <3>1, GlobalDeclaration
    <3> HIDE DEF g, prev, c, d, b
    <3>4. fn_compare_nodes(b, c)
      BY <3>2 DEF typecheck_compare_functions, c, b
    <3>5. (IsArray(b) <=> IsArray(c))
          /\ symbol(base_type(b)) = symbol(base_type(c))
      BY <3>4 DEF fn_compare_nodes, IsArray, base_type
    <3>6. info[prev].attributes \cap ANY = sym.attributes \cap ANY
      <4>1. PICK initial \in {{}, {"function"}, {"param"}, {"field"}} :
              info[prev].attributes = NewSymbol(b, initial).attributes
        BY <3>3
      <4>2. NewSymbol(b, initial).attributes \cap ANY
              = NewSymbol(c, {"function"}).attributes \cap ANY
        BY <3>5, ComparedTypes
      <4> QED BY <4>1, <4>2 DEF sym
    <3>7. prev \in DOMAIN info /\ info'[prev].attributes = info[prev].attributes
      <4>1. prev \in DOMAIN info /\ InfoTyped
        BY <3>3 DEF DataInv, InfoTyped, Known
      <4> QED BY <3>2, <4>1, SameUpdates DEF SameSymbol
    <3> QED BY <3>1, <3>6, <3>7
  <2> QED BY <2>1, <2>2
<1> HIDE DEF name, sym
<1> QED BY <1>5, <1>6 DEF FunctionTyped

LEMMA FunctionStaysOfType ==
  ASSUME TraversalInv, DataInv, SymbolsTrue, Next, NEW m, FunctionTyped(m)
  PROVE  FunctionTyped(m)'
<1>1. /\ ast' = ast /\ [ScopesNext]_scopeVars /\ ScopesInv
  BY Moves, TraversalStep DEF TraversalInv
<1> SUFFICES ASSUME symbol(m) = "TOK_FUNCTION" PROVE FunctionTyped(m)'
  BY <1>1, SameTree DEF FunctionTyped
<1> DEFINE name == FunctionName(ast, m)
           c == child(m, 0)
           sym == NewSymbol(c, {"function"})
<1>2. /\ name \in DOMAIN TableAt(1)
      /\ info[TableAt(1)[name]].attributes \cap ANY = sym.attributes \cap ANY
  BY DEF FunctionTyped
<1>3. /\ FunctionName(ast, m)' = name
      /\ NewSymbol(child(m, 0), {"function"})' = sym
  <2>1. FunctionName(ast, m)' = name
    BY <1>1 DEF FunctionName, DeclaredBy
  <2>2. NewSymbol(child(m, 0), {"function"})' = sym
    BY <1>1
       DEF NewSymbol, base_type, IsArray, symbol, child, children, lexinfo
  <2> QED BY <2>1, <2>2
<1> HIDE DEF name, sym
<1>4. /\ name \in DOMAIN TableAt(1)' /\ TableAt(1)'[name] = TableAt(1)[name]
      /\ TableAt(1)[name] \in Declared
  BY <1>1, <1>2, GlobalGrows, GlobalIsDeclared DEF Keeps
<1>5. info'[TableAt(1)[name]].attributes = info[TableAt(1)[name]].attributes
  BY <1>4, SymbolsStep DEF SameSymbol
<1> QED BY <1>2, <1>3, <1>4, <1>5 DEF FunctionTyped

-----------------------------------------------------------------------------
(* What was gone over is not come back to.                                 *)

Past(p, cs, S) ==
  \A x \in S : Behind(p, cs, x) /\ x \notin OnStack(cs)

LEMMA BehindPushed ==
  ASSUME NEW p, NEW cs \in Seq(Frames(p)), NEW f \in Frames(p),
         NEW x, Behind(p, cs, x), \A q \in Todo(p, f) : x < q
  PROVE  Behind(p, Append(cs, f), x)
<1> DEFINE as == Append(cs, f)
<1>1. /\ Len(as) = Len(cs) + 1 /\ as[Len(cs) + 1] = f /\ Len(cs) \in Nat
      /\ \A i \in 1..Len(cs) : as[i] = cs[i]
  OBVIOUS
<1> HIDE DEF as
<1> SUFFICES ASSUME NEW i \in 1..Len(as) PROVE \A r \in Todo(p, as[i]) : x < r
  BY DEF Behind, as
<1>2. i \in 1..Len(cs) \/ i = Len(cs) + 1
  BY <1>1
<1> QED BY <1>1, <1>2 DEF Behind

LEMMA PastStep ==
  ASSUME TraversalInv, Next, NEW S \in SUBSET DOMAIN ast, Past(ast, calls, S),
         NEW v, v = Next_node, NEW c, c = Caller.node
  PROVE  /\ Passes => Past(ast, calls', S \cup {v})
         /\ Enters \/ Begins_function => Past(ast, calls', S)
         /\ Leaves => Past(ast, calls', S \cup {c})
<1>1. /\ Running /\ WellFormed(ast, Name) /\ calls \in Seq(Frames(ast))
      /\ calls # <<>> /\ Caller = calls[Len(calls)] /\ Caller \in Frames(ast)
      /\ Nested(ast, calls) /\ DOMAIN ast \subseteq Nat /\ c \in DOMAIN ast
      /\ Len(calls) \in 1..Len(calls) /\ 1 \in DOMAIN ast
  <2>1. DOMAIN ast \subseteq Nat /\ 1 \in DOMAIN ast
    <3>1. WellFormed(ast, Name)
      BY Moves, CallerIs
    <3> QED BY <3>1 DEF WellFormed
  <2> QED BY <2>1, Moves, CallerIs DEF TraversalInv, Walk
<1>2. ASSUME HasNext
      PROVE  /\ Advanced \in Seq(Frames(ast)) /\ v \in DOMAIN ast
             /\ OnStack(Advanced) = OnStack(calls)
             /\ \A x \in S : Behind(ast, Advanced, x) /\ x < v
             /\ Behind(ast, Advanced, v) /\ v \notin OnStack(calls)
  <2>1. /\ Advanced = AdvancedIn(calls) /\ Next_node \in Todo(ast, Caller)
        /\ \A i \in 1..Len(calls) :
             Todo(ast, Advanced[i]) \subseteq Todo(ast, calls[i])
    <3>1. /\ Advanced = AdvancedIn(calls)
          /\ calls[Len(calls)].next <= Len(Path(ast, calls[Len(calls)].node))
          /\ Next_node
               = Path(ast, calls[Len(calls)].node)[calls[Len(calls)].next]
      BY <1>1, <1>2, AdvancedIs DEF Advanced, AdvancedIn
    <3>2. /\ \A i \in 1..Len(calls) :
               Todo(ast, AdvancedIn(calls)[i]) \subseteq Todo(ast, calls[i])
          /\ Path(ast, calls[Len(calls)].node)[calls[Len(calls)].next]
               \in Todo(ast, calls[Len(calls)])
      BY <1>1, <3>1, Advance
    <3> QED BY <1>1, <3>1, <3>2
  <2>2. /\ Len(Advanced) = Len(calls) /\ OnStack(Advanced) = OnStack(calls)
        /\ Advanced \in Seq(Frames(ast)) /\ Behind(ast, Advanced, v)
        /\ \A i \in 1..Len(Advanced) : Advanced[i].node < v
        /\ v \in DOMAIN ast /\ v \in Nat
    BY <1>1, <1>2, AdvancedIs, Goes
  <2>3. ASSUME NEW x \in S PROVE Behind(ast, Advanced, x) /\ x < v
    <3>1. Behind(ast, calls, x)
      BY DEF Past
    <3> QED BY <1>1, <2>1, <2>2, <3>1 DEF Behind
  <2>4. v \notin OnStack(Advanced)
    <3> SUFFICES ASSUME NEW i \in 1..Len(Advanced), v = Advanced[i].node
                 PROVE  FALSE
      BY DEF OnStack
    <3>1. v < v /\ v \in Nat
      BY <2>2
    <3> QED BY <3>1
  <2> QED BY <2>2, <2>3, <2>4
<1>3. Passes => HasNext /\ calls' = Advanced
  BY DEF Passes
<1>4. Passes => Past(ast, calls', S \cup {v})
  BY <1>2, <1>3 DEF Past
(* What is on the way of a node comes after it. *)
<1>5. ASSUME NEW f \in Frames(ast), NEW q \in Todo(ast, f)
      PROVE  f.node < q /\ q \in Nat /\ f.node \in Nat
  BY <1>1, <1>5, TodoFollows
<1>6. ASSUME HasNext, NEW f \in Frames(ast), f.node = v, NEW x \in S
      PROVE  \A q \in Todo(ast, f) : x < q
  <2> SUFFICES ASSUME NEW q \in Todo(ast, f) PROVE x < q
    OBVIOUS
  <2>1. v < q /\ q \in Nat /\ v \in Nat /\ x \in Nat /\ x < v
    BY <1>1, <1>2, <1>5, <1>6
  <2> QED BY <2>1
<1>7. Enters => Past(ast, calls', S)
  <2> SUFFICES ASSUME Enters, NEW x \in S
               PROVE  Behind(ast, calls', x) /\ x \notin OnStack(calls')
    BY DEF Past
  <2> DEFINE f == Frame(Next_node)
  <2>1. HasNext /\ calls' = Append(Advanced, f)
    BY DEF Enters
  <2>2. f \in Frames(ast) /\ f.node = v
    BY <1>2, <2>1 DEF Frame, Frames
  <2> HIDE DEF f
  <2>3. Behind(ast, calls', x)
    BY <1>2, <1>6, <2>1, <2>2, BehindPushed
  <2>4. OnStack(calls') = OnStack(calls) \cup {v}
    BY <1>2, <2>1, <2>2, PushedStack
  <2>5. x # v
    <3>1. x < v /\ x \in Nat
      BY <1>1, <1>2, <2>1
    <3> QED BY <3>1
  <2> QED BY <2>3, <2>4, <2>5 DEF Past
<1>8. Begins_function => Past(ast, calls', S)
  <2> SUFFICES ASSUME Begins_function, NEW x \in S
               PROVE  Behind(ast, calls', x) /\ x \notin OnStack(calls')
    BY DEF Past
  <2> DEFINE f == [node |-> Next_node, next |-> 2]
             l == child(Next_node, 1)
             g == Frame(l)
             as == Append(Advanced, f)
  <2>1. /\ HasNext /\ calls' = Append(as, g) /\ symbol(v) \in Callables
    BY DEF Begins_function
  <2>2. f \in Frames(ast) /\ f.node = v
    BY <1>2, <2>1 DEF Frames
  <2>3. l \in DOMAIN ast /\ l \in Kids(ast, v) /\ v < l
    <3>1. l \in DOMAIN ast /\ l \in Kids(ast, v)
      BY <1>1, <1>2, <2>1, FunctionDeclares DEF Callables
    <3> QED BY <1>1, <1>2, <2>1, <3>1, KidsType
  <2>4. g \in Frames(ast) /\ g.node = l
    BY <2>3 DEF Frame, Frames
  <2> HIDE DEF f, g, l
  <2>5. x < v /\ x \in Nat /\ v \in Nat /\ l \in Nat
    BY <1>1, <1>2, <2>1, <2>3
  <2>6. Behind(ast, as, x)
    BY <1>2, <1>6, <2>1, <2>2, BehindPushed
  <2>7. /\ OnStack(as) = OnStack(calls) \cup {v}
        /\ as \in Seq(Frames(ast))
    BY <1>2, <2>1, <2>2, PushedStack
  <2> HIDE DEF as
  <2>8. \A q \in Todo(ast, g) : x < q
    <3> SUFFICES ASSUME NEW q \in Todo(ast, g) PROVE x < q
      OBVIOUS
    <3>1. l < q /\ q \in Nat
      BY <1>5, <2>4
    <3> QED BY <2>3, <2>5, <3>1
  <2>9. Behind(ast, calls', x)
    BY <2>1, <2>4, <2>6, <2>7, <2>8, BehindPushed
  <2>10. OnStack(calls') = OnStack(calls) \cup {v} \cup {l}
    <3>1. OnStack(Append(as, g)) = OnStack(as) \cup {l}
      BY <2>4, <2>7, PushedStack
    <3> QED BY <2>1, <2>7, <3>1
  <2>11. x # v /\ x # l
    BY <2>3, <2>5
  <2> QED BY <2>9, <2>10, <2>11 DEF Past
<1>9. Leaves => Past(ast, calls', S \cup {c})
  <2> SUFFICES ASSUME Leaves PROVE Past(ast, calls', S \cup {c})
    OBVIOUS
  <2> DEFINE fs == Front(calls)
  <2>1. /\ calls' = fs /\ Len(fs) = Len(calls) - 1 /\ Len(calls) \in Nat
        /\ \A i \in 1..Len(calls) - 1 : fs[i] = calls[i]
        /\ \A x : Behind(ast, calls, x) => Behind(ast, fs, x)
        /\ OnStack(calls) = OnStack(fs) \cup {c}
    BY <1>1, Pop, PoppedStack DEF Leaves
  <2> HIDE DEF fs
  <2>2. \A x \in S : Behind(ast, calls', x) /\ x \notin OnStack(calls')
    BY <2>1 DEF Past
  <2>3. ASSUME NEW i \in 1..Len(fs)
        PROVE  /\ fs[i].node < c /\ fs[i].node \in Nat
               /\ \A r \in Todo(ast, fs[i]) : c < r
    <3>1. i \in 1..Len(calls) /\ i < Len(calls) /\ fs[i] = calls[i]
      <4>1. i \in 1..Len(calls) - 1
        BY <2>1
      <4>2. fs[i] = calls[i]
        BY <2>1, <4>1
      <4> QED BY <2>1, <4>1, <4>2
    <3>2. calls[i] \in Frames(ast) /\ c = calls[Len(calls)].node
      BY <1>1, <3>1
    <3>3. calls[i].node \in Nat
      BY <1>1, <3>2 DEF Frames
    <3> QED BY <1>1, <3>1, <3>2, <3>3 DEF Nested
  <2>4. Behind(ast, fs, c) /\ c \notin OnStack(fs)
    <3>1. Behind(ast, fs, c)
      BY <2>3 DEF Behind
    <3>2. c \notin OnStack(fs)
      <4>0. \A a, b \in Nat : a < b => a # b
        OBVIOUS
      <4>1. ASSUME NEW i \in 1..Len(fs) PROVE fs[i].node # c
        <5>1. fs[i].node < c /\ fs[i].node \in Nat /\ c \in Nat
          BY <1>1, <2>3
        <5> QED BY <4>0, <5>1
      <4> QED BY <4>1 DEF OnStack
    <3> QED BY <3>1, <3>2
  <2> QED BY <2>1, <2>2, <2>4 DEF Past
<1> QED BY <1>4, <1>7, <1>8, <1>9

-----------------------------------------------------------------------------
(* Returns. *)

(* What a returned value is compared with. *)
LEMMA ComparesAny ==
  ASSUME NEW a, NEW b, NEW c, b \cap ANY = c \cap ANY, Compatible(a, b)
  PROVE  Compatible(a, c)
<1>1. b \cap REFERENCE = c \cap REFERENCE /\ ("null" \in b <=> "null" \in c)
  BY DEF ANY, REFERENCE
<1> QED BY <1>1 DEF Compatible

(* An expression that was gone over keeps its type. *)
LEMMA AttributesStay ==
  ASSUME TraversalInv, DataInv, Next, SymbolsTrue,
         NEW n \in DOMAIN ast, symbol(n) \in Expression, WellTyped(n),
         ~ (Leaves /\ n = Caller.node)
  PROVE  get_node_attributes(n)' = get_node_attributes(n)
<1>1. n \in Node /\ ast' = ast
  BY Tree, Moves DEF TraversalInv
<1>2. symbol(n)' = symbol(n)
  BY <1>1 DEF symbol
<1>3. CASE symbol(n) = "TOK_IDENT"
  <2>1. symentry'[n] = symentry[n]
    BY <1>1, <1>3, BindingStays
  <2>2. symentry[n] # NULL
    BY <1>3 DEF WellTyped
  <2>3. symentry[n] \in Declared
    BY <1>1, <2>2 DEF DataInv, LinksTyped
  <2>4. info'[symentry[n]].attributes = info[symentry[n]].attributes
    BY <2>3, SymbolsStep DEF SameSymbol
  <2>5. Entry(n)' = Entry(n) /\ Entry(n) = symentry[n]
    BY <1>2, <1>3, <2>1 DEF Entry
  <2> QED BY <1>2, <1>3, <2>2, <2>4, <2>5 DEF get_node_attributes
<1>4. CASE symbol(n) # "TOK_IDENT"
  <2>1. attributes'[n] = attributes[n]
    BY StaysTyped DEF symbol
  <2>2. symbol(n) \notin {"TOK_IDENT", "TOK_DECLID", "TOK_FIELD"}
    BY <1>4 DEF Expression, NoOperand, OneOperand, TwoOperands
  <2> QED BY <1>2, <2>1, <2>2 DEF get_node_attributes
<1> QED BY <1>3, <1>4

(* What a return returns fits the function it stands in. *)
ReturnRight(n) ==
  symbol(n) = "TOK_RETURN" =>
    \A f \in Ancestors(n) :
      symbol(f) = "TOK_FUNCTION" =>
        Compatible(get_node_attributes(child(n, 0)),
                   NewSymbol(child(f, 0), {"function"}).attributes)

LEMMA ReturnKept ==
  ASSUME ast' = ast, NEW n,
         get_node_attributes(child(n, 0))' = get_node_attributes(child(n, 0)),
         ReturnRight(n)
  PROVE  ReturnRight(n)'
<1>1. symbol(n)' = symbol(n) /\ Ancestors(n)' = Ancestors(n)
  BY SameTree
<1>2. \A f : /\ symbol(f)' = symbol(f)
             /\ NewSymbol(child(f, 0), {"function"})'
                  = NewSymbol(child(f, 0), {"function"})
  BY DEF NewSymbol, base_type, IsArray, symbol, child, children, lexinfo
<1> QED BY <1>1, <1>2 DEF ReturnRight

LEMMA ReturnStays ==
  ASSUME TraversalInv, DataInv, Next, SymbolsTrue,
         NEW n \in DOMAIN ast, ReturnRight(n),
         symbol(n) = "TOK_RETURN" => /\ WellTyped(child(n, 0))
                                     /\ child(n, 0) \notin OnStack(calls)
  PROVE  ReturnRight(n)'
<1>1. /\ ast' = ast /\ WellFormed(ast, Name) /\ calls \in Seq(Frames(ast))
      /\ calls # <<>> /\ Caller = calls[Len(calls)]
  BY Moves, CallerIs
<1>2. Caller.node \in OnStack(calls)
  <2>1. Len(calls) \in 1..Len(calls)
    BY <1>1
  <2> QED BY <1>1, <2>1 DEF OnStack
<1>3. CASE symbol(n) # "TOK_RETURN"
  BY <1>1, <1>3, SameTree DEF ReturnRight
<1>4. CASE symbol(n) = "TOK_RETURN"
  <2> DEFINE c == child(n, 0)
  <2>1. c \in DOMAIN ast /\ symbol(c) \in Expression
    BY <1>1, <1>4, PathOperands
  <2>2. c # Caller.node
    BY <1>2, <1>4
  <2>3. PICK d : d = c
    OBVIOUS
  <2>4. get_node_attributes(d)' = get_node_attributes(d)
    BY <1>4, <2>1, <2>2, <2>3, AttributesStay
  <2>5. get_node_attributes(child(n, 0))' = get_node_attributes(d)
    <3>1. child(n, 0)' = d
      BY <1>1, <2>3, SameTree
    <3> QED BY <2>4, <3>1
  <2> QED BY <1>1, <2>3, <2>5, ReturnKept
<1> QED BY <1>3, <1>4

(* A return that is left without an error. *)
LEMMA ReturnLeft ==
  ASSUME TraversalInv, DataInv, SymbolsTrue, Shaped(ast, calls), FramesInv,
         Next, Leaves, Silently, NEW n, n = Caller.node,
         \A f \in OnStack(calls) : FunctionTyped(f),
         symbol(n) = "TOK_RETURN" => WellTyped(child(n, 0))
  PROVE  ReturnRight(n)'
<1>1. /\ Running /\ ast' = ast /\ WellFormed(ast, Name) /\ ScopesInv
      /\ calls \in Seq(Frames(ast)) /\ calls # <<>> /\ n \in DOMAIN ast
      /\ Caller = calls[Len(calls)] /\ ~ HasNext
  BY Moves, CallerIs DEF Leaves
<1>2. Len(calls) \in 1..Len(calls)
  BY <1>1
<1> SUFFICES ASSUME symbol(n) = "TOK_RETURN" PROVE ReturnRight(n)'
  BY <1>1, SameTree DEF ReturnRight
<1> DEFINE c == child(n, 0)
           a == get_node_attributes(c)
<1>3. c \in DOMAIN ast /\ symbol(c) \in Expression /\ c \in Kids(ast, n)
  <2>1. c \in DOMAIN ast /\ symbol(c) \in Expression
    BY <1>1, PathOperands
  <2> QED BY <1>1, <2>1, Operands
<1>4. LeaveNode
  BY <1>1 DEF Next, VisitDeclaration, VisitVoid, VisitStruct, VisitFunction,
              DeclareParam, EndParams, EndFunction, VisitNode, LeaveIdent,
              LeaveSelector, LeaveAllocator, LeaveCall, Visiting, Returning
<1>5. attr_handle_return(FunctionAttributes, a).ok
  <2>1. Tell(process_attributes(n))
    BY <1>4 DEF LeaveNode
  <2>2. process_attributes(n).ok
    BY <2>1, SilentSteps
  <2>3. process_attributes(n) = attr_handle_return(FunctionAttributes, a)
    BY DEF process_attributes
  <2> QED BY <2>2, <2>3
<1> HIDE DEF a
<1>6. Compatible(a, FunctionAttributes)
  <2> DEFINE f == FunctionAttributes
             c1 == attr_check_compatible(a, f)
             c2 == attr_check_any(a, ANY)
  <2>1. f # NULL
    BY <1>5, ResultIs DEF attr_handle_return, Complain
  <2>2. attr_handle_return(f, a) = Result({}, NULL, AndThen(c1, c2))
    BY <2>1 DEF attr_handle_return
  <2> HIDE DEF c1, c2, f
  <2>3. AndThen(c1, c2).ok
    BY <1>5, <2>2, ResultIs DEF f
  <2>4. c1.ok
    BY <2>3 DEF AndThen
  <2> QED BY <2>4, CompatibleHolds DEF c1, f
<1>7. get_node_attributes(c)' = a
  <2>1. c # n
    <3>1. n < c /\ n \in Nat /\ c \in Nat
      BY <1>1, <1>3, KidsType
    <3> HIDE DEF c
    <3> QED BY <3>1
  <2>2. PICK d : d = c
    OBVIOUS
  <2>3. get_node_attributes(d)' = get_node_attributes(d)
    BY <1>3, <2>1, <2>2, AttributesStay
  <2>4. c' = d
    BY <1>1, <2>2, SameTree
  <2> QED BY <2>2, <2>3, <2>4 DEF a
<1>8. ASSUME NEW f \in Ancestors(n), symbol(f) = "TOK_FUNCTION"
      PROVE  Compatible(a, NewSymbol(child(f, 0), {"function"}).attributes)
  <2>1. f \in OnStack(calls)
    BY <1>1, <1>2, <1>8, StackedFunctions DEF FramesInv
  <2>2. f \in DOMAIN ast
    BY <2>1, OnStackIn
  <2> DEFINE name == FunctionName(ast, f)
             g == TableAt(1)[name]
  <2>3. current_function = name /\ name \in Name
    BY <1>1, <1>8, <2>1, <2>2, ListsDiffer
       DEF FramesInv, Calling, Callables, symbol
  <2>4. /\ name \in DOMAIN TableAt(1)
        /\ info[g].attributes \cap ANY
             = NewSymbol(child(f, 0), {"function"}).attributes \cap ANY
    BY <1>8, <2>1 DEF FunctionTyped
  <2> HIDE DEF name
  <2>5. FunctionAttributes = info[g].attributes /\ g \in Declared
    <3>1. current_function # NULL
      BY <2>3, NullAssumption
    <3> QED BY <1>1, <2>3, <2>4, <3>1, GlobalIsDeclared DEF FunctionAttributes
  <2> QED BY <1>6, <2>4, <2>5, ComparesAny
<1>9. ReturnRight(n)'
  <2>1. symbol(n)' = symbol(n) /\ Ancestors(n)' = Ancestors(n)
    BY <1>1, SameTree
  <2>2. \A f : /\ symbol(f)' = symbol(f)
               /\ NewSymbol(child(f, 0), {"function"})'
                    = NewSymbol(child(f, 0), {"function"})
    BY <1>1
       DEF NewSymbol, base_type, IsArray, symbol, child, children, lexinfo
  <2>3. get_node_attributes(child(n, 0))' = a
    BY <1>7
  <2> QED BY <1>8, <2>1, <2>2, <2>3 DEF ReturnRight
<1> QED BY <1>9

(* The nodes that the pass is done with are not come back to, every return *)
(* in them fits, and so does the symbol of every function begun.           *)
Returned(S) ==
  /\ Past(ast, calls, S)
  /\ \A n \in S : ReturnRight(n)
  /\ \A f \in S \cup OnStack(calls) : FunctionTyped(f)

ReturnInv ==
  /\ FramesInv
  /\ semantic_errors = 0 =>
       \E S \in SUBSET DOMAIN ast : Covered(S) /\ Returned(S)

LEMMA NoFunctionTyped ==
  ASSUME ast' = ast, NEW m, symbol(m) # "TOK_FUNCTION"
  PROVE  FunctionTyped(m)'
<1>1. symbol(m)' = symbol(m)
  BY SameTree
<1> QED BY <1>1 DEF FunctionTyped

LEMMA ReturnedStep ==
  ASSUME TraversalInv, DataInv, CrashInv, SymbolsTrue, Shaped(ast, calls),
         FramesInv, Next, Silently,
         NEW S \in SUBSET DOMAIN ast, Covered(S), Returned(S),
         NEW v, v = Next_node, NEW c, c = Caller.node
  PROVE  /\ Passes => Returned(S \cup {v})'
         /\ Enters \/ Begins_function => Returned(S)'
         /\ Leaves => Returned(S \cup {c})'
<1>1. /\ Running /\ ast' = ast /\ WellFormed(ast, Name)
      /\ calls \in Seq(Frames(ast)) /\ calls # <<>>
      /\ Passes \/ Enters \/ Begins_function \/ Leaves
  BY Moves, CallerIs
<1>2. /\ \A n \in S : WellTyped(n) /\ ReturnRight(n)
      /\ \A f \in S \cup OnStack(calls) : FunctionTyped(f)
      /\ \A n \in S : symbol(n) \notin PassedOver \ {"TOK_FUNCTION"} =>
           \A k \in 1..Len(Path(ast, n)) : Path(ast, n)[k] \in S
      /\ Past(ast, calls, S)
  BY DEF Covered, Returned
<1>3. /\ Passes => Past(ast, calls', S \cup {v})
      /\ Enters \/ Begins_function => Past(ast, calls', S)
      /\ Leaves => Past(ast, calls', S \cup {c})
  BY <1>2, PastStep
<1>4. /\ Passes => OnStack(calls') = OnStack(calls)
      /\ Enters => OnStack(calls') = OnStack(calls) \cup {v}
      /\ Begins_function =>
           OnStack(calls') = OnStack(calls) \cup {v, child(v, 1)}
      /\ Leaves => OnStack(calls) = OnStack(calls') \cup {c}
  BY StackMoves
<1>5. \A n \in S : ReturnRight(n)'
  <2> SUFFICES ASSUME NEW n \in S PROVE ReturnRight(n)'
    OBVIOUS
  <2>1. ASSUME symbol(n) = "TOK_RETURN"
        PROVE  WellTyped(child(n, 0)) /\ child(n, 0) \notin OnStack(calls)
    <3>1. symbol(n) \notin PassedOver \ {"TOK_FUNCTION"}
      BY <2>1 DEF PassedOver, VariableTypes, TypeName, Callables
    <3>2. 1 \in 1..Len(Path(ast, n)) /\ Path(ast, n)[1] = child(n, 0)
      BY <1>1, <2>1, PathOperands
    <3>3. child(n, 0) \in S
      BY <1>2, <3>1, <3>2
    <3> QED BY <1>2, <3>3 DEF Past
  <2> QED BY <1>2, <2>1, ReturnStays
<1>6. \A f \in S \cup OnStack(calls) : FunctionTyped(f)'
  BY <1>2, FunctionStaysOfType
<1>7. ASSUME NEW T, Past(ast, calls', T), \A n \in T : ReturnRight(n)',
             \A f \in T \cup OnStack(calls') : FunctionTyped(f)'
      PROVE  Returned(T)'
  <2>1. Past(ast, calls, T)'
    <3>1. Past(ast, calls, T)' = Past(ast, calls', T)
      BY <1>1 DEF Past, OnStack, Behind, Todo, Path, Body, Kids
    <3> QED BY <1>7, <3>1
  <2>2. OnStack(calls)' = OnStack(calls')
    BY DEF OnStack
  <2> QED BY <1>7, <2>1, <2>2 DEF Returned
<1>8. ASSUME Passes PROVE Returned(S \cup {v})'
  <2>1. symbol(v) # "TOK_FUNCTION" /\ symbol(v) \in PassedOver
    BY <1>8, PassedIsRight DEF Passes
  <2>2. symbol(v) # "TOK_RETURN"
    BY <2>1 DEF PassedOver, VariableTypes, TypeName, Callables
  <2>3. ReturnRight(v)'
    <3>1. symbol(v)' = symbol(v)
      BY <1>1, SameTree
    <3> QED BY <2>2, <3>1 DEF ReturnRight
  <2>4. FunctionTyped(v)'
    BY <1>1, <2>1, NoFunctionTyped
  <2>5. Past(ast, calls', S \cup {v}) /\ OnStack(calls') = OnStack(calls)
    BY <1>3, <1>4, <1>8
  <2> DEFINE T == S \cup {v}
  <2>6. /\ Past(ast, calls', T) /\ \A n \in T : ReturnRight(n)'
        /\ \A f \in T \cup OnStack(calls') : FunctionTyped(f)'
    BY <1>5, <1>6, <2>3, <2>4, <2>5
  <2> HIDE DEF T
  <2>7. Returned(T)'
    BY <1>7, <2>6
  <2> QED BY <2>7 DEF T
<1>9. ASSUME Enters PROVE Returned(S)'
  <2>1. symbol(v) # "TOK_FUNCTION"
    BY <1>9 DEF Enters, Special
  <2>2. FunctionTyped(v)'
    BY <1>1, <2>1, NoFunctionTyped
  <2> QED BY <1>3, <1>4, <1>5, <1>6, <1>7, <1>9, <2>2
<1>10. ASSUME Begins_function PROVE Returned(S)'
  <2>1. v \in DOMAIN ast /\ symbol(v) \in Callables
    BY <1>1, <1>10, Goes DEF Begins_function
  <2>2. PICK l : l = child(v, 1)
    OBVIOUS
  <2>3. symbol(l) # "TOK_FUNCTION"
    BY <1>1, <2>1, <2>2, FunctionDeclares DEF Callables
  <2>4. FunctionTyped(l)'
    BY <1>1, <2>3, NoFunctionTyped
  <2>5. FunctionTyped(v)'
    BY <1>10, BeginsTyped DEF FramesInv
  <2>6. OnStack(calls') = OnStack(calls) \cup {v, l}
    BY <1>4, <1>10, <2>2
  <2> QED BY <1>3, <1>5, <1>6, <1>7, <1>10, <2>4, <2>5, <2>6
<1>11. ASSUME Leaves PROVE Returned(S \cup {c})'
  <2>1. c \in DOMAIN ast
    BY <1>1, CallerIs
  <2>2. ASSUME symbol(c) = "TOK_RETURN" PROVE WellTyped(child(c, 0))
    <3>1. \A k \in 1..Len(Path(ast, c)) : Path(ast, c)[k] \in S
      BY <1>1, <1>11, LeftIsMet DEF Leaves, Covered
    <3>2. 1 \in 1..Len(Path(ast, c)) /\ Path(ast, c)[1] = child(c, 0)
      BY <1>1, <2>1, <2>2, PathOperands
    <3> QED BY <1>2, <3>1, <3>2
  <2>3. ReturnRight(c)'
    BY <1>2, <1>11, <2>2, ReturnLeft
  <2>4. /\ Past(ast, calls', S \cup {c})
        /\ OnStack(calls) = OnStack(calls') \cup {c}
    BY <1>3, <1>4, <1>11
  <2> DEFINE T == S \cup {c}
  <2>5. /\ Past(ast, calls', T) /\ \A n \in T : ReturnRight(n)'
        /\ \A f \in T \cup OnStack(calls') : FunctionTyped(f)'
    BY <1>5, <1>6, <2>3, <2>4
  <2> HIDE DEF T
  <2>6. Returned(T)'
    BY <1>7, <2>5
  <2> QED BY <2>6 DEF T
<1> QED BY <1>8, <1>9, <1>10, <1>11

LEMMA ReturnStep ==
  TraversalInv /\ DataInv /\ CrashInv /\ DefinitionInv /\ CoverInv
    /\ ReturnInv /\ [Next]_vars => ReturnInv'
<1> SUFFICES ASSUME TraversalInv, DataInv, CrashInv, DefinitionInv, CoverInv,
                    ReturnInv, [Next]_vars
             PROVE  ReturnInv'
  OBVIOUS
<1>1. CASE Next
  <2>1. FramesInv'
    BY <1>1, FramesStep DEF ReturnInv, DefinitionInv
  <2>2. ast' = ast
    BY <1>1, Moves
  <2>3. ASSUME semantic_errors' = 0
        PROVE  \E T \in SUBSET DOMAIN ast : Covered(T)' /\ Returned(T)'
    <3>1. semantic_errors = 0
      <4>1. /\ semantic_errors \in Nat
            /\ semantic_errors' >= semantic_errors
        BY <1>1, StepCounts DEF Counting, DataInv, CountsTyped
      <4> QED BY <2>3, <4>1
    <3>2. PICK S \in SUBSET DOMAIN ast : Covered(S) /\ Returned(S)
      BY <3>1 DEF ReturnInv
    <3>3. SymbolsTrue /\ Shaped(ast, calls) /\ Silently /\ FramesInv
      BY <2>3, <3>1 DEF CoverInv, DefinitionInv, Silently, ReturnInv
    <3>4. PICK v, c : v = Next_node /\ c = Caller.node
      OBVIOUS
    <3>5. Passes \/ Enters \/ Begins_function \/ Leaves
      BY <1>1, Moves
    <3>6. /\ Passes => v \in DOMAIN ast /\ Covered(S \cup {v})'
          /\ Enters \/ Begins_function => Covered(S)'
          /\ Leaves => c \in DOMAIN ast /\ Covered(S \cup {c})'
      BY <1>1, <3>2, <3>3, <3>4, CoveredStep
    <3>7. /\ Passes => Returned(S \cup {v})'
          /\ Enters \/ Begins_function => Returned(S)'
          /\ Leaves => Returned(S \cup {c})'
      BY <1>1, <3>2, <3>3, <3>4, ReturnedStep
    <3>8. CASE Passes
      <4> DEFINE T == S \cup {v}
      <4>1. T \in SUBSET DOMAIN ast /\ Covered(T)' /\ Returned(T)'
        BY <3>6, <3>7, <3>8
      <4> QED BY <4>1
    <3>9. CASE Enters \/ Begins_function
      BY <3>6, <3>7, <3>9
    <3>10. CASE Leaves
      <4> DEFINE T == S \cup {c}
      <4>1. T \in SUBSET DOMAIN ast /\ Covered(T)' /\ Returned(T)'
        BY <3>6, <3>7, <3>10
      <4> QED BY <4>1
    <3> QED BY <3>5, <3>8, <3>9, <3>10
  <2> QED BY <2>1, <2>2, <2>3 DEF ReturnInv
<1>2. CASE UNCHANGED vars
  <2>1. /\ ast' = ast /\ calls' = calls /\ attributes' = attributes
        /\ type_name' = type_name /\ info' = info /\ member' = member
        /\ semantic_errors' = semantic_errors /\ symentry' = symentry
        /\ symbols' = symbols /\ symbol_stack' = symbol_stack
        /\ current_function' = current_function
    BY <1>2 DEF vars, semVars, scopeVars
  <2>2. FramesInv' = FramesInv
    BY <2>1 DEF FramesInv, Rooted, Calling, NoGlobalParameter, Path, Body,
                OnStack, FunctionName, Declared, Prototype, parent, symbol,
                children, declared, child, lexinfo, IsArray
  <2>3. ASSUME NEW n
        PROVE  /\ WellTyped(n)' = WellTyped(n) /\ Ready(n)' = Ready(n)
               /\ FunctionReady(n)' = FunctionReady(n)
               /\ ReturnRight(n) => ReturnRight(n)'
               /\ FunctionTyped(n)' = FunctionTyped(n)
    <3>1. WellTyped(n)' = WellTyped(n)
      BY <2>1 DEF WellTyped, VoidArray, symbol, child, children
    <3>2. Ready(n)' = Ready(n)
      BY <2>1 DEF Ready, Declaration, Type, declared, IsArray, symbol, child,
                  children, arity
    <3>3. FunctionReady(n)' = FunctionReady(n)
      BY <2>1 DEF FunctionReady, declared, IsArray, symbol, child, children,
                  lexinfo, Declared
    <3>4. ReturnRight(n) => ReturnRight(n)'
      <4>1. get_node_attributes(child(n, 0))' = get_node_attributes(child(n, 0))
        BY <2>1 DEF get_node_attributes, child, children, symbol, Entry
      <4> QED BY <2>1, <4>1, ReturnKept
    <3>5. FunctionTyped(n)' = FunctionTyped(n)
      BY <2>1 DEF FunctionTyped, FunctionName, declared, symbol, child,
                  children, NewSymbol, base_type, IsArray, lexinfo, TableAt
    <3> QED BY <3>1, <3>2, <3>3, <3>4, <3>5
  <2>4. ASSUME NEW S, Covered(S), Returned(S)
        PROVE  Covered(S)' /\ Returned(S)'
    <3>1. Covered(S)'
      BY <2>1, <2>3, <2>4 DEF Covered, symbol
    <3>2. Past(ast, calls, S)' = Past(ast, calls, S)
      BY <2>1 DEF Past, Behind, Todo, Path, Body, OnStack, Kids
    <3>3. OnStack(calls)' = OnStack(calls)
      BY <2>1 DEF OnStack
    <3> QED BY <2>3, <2>4, <3>1, <3>2, <3>3 DEF Returned
  <2> QED BY <2>1, <2>2, <2>4 DEF ReturnInv
<1> QED BY <1>1, <1>2

(* Before the first step the pass is done with nothing. *)
LEMMA NothingMet == Init => Covered({}) /\ Returned({})
<1> SUFFICES ASSUME Init PROVE Covered({}) /\ Returned({})
  OBVIOUS
<1>1. calls = <<Frame(1)>> /\ WellFormed(ast, Name)
  BY Tree DEF Init
<1>2. Len(calls) = 1 /\ calls[1].node = 1 /\ calls[1].next = 1
      /\ calls # <<>> /\ OnStack(calls) = {1}
  BY <1>1 DEF Frame, OnStack
<1>3. 1 \in DOMAIN ast /\ symbol(1) = "TOK_ROOT"
  BY <1>1 DEF WellFormed, symbol
<1>4. Met(ast, calls, {} \cup OnStack(calls))
  <2>1. Path(ast, 1) \in Seq(DOMAIN ast)
    BY <1>1, <1>3, PathFollows DEF symbol
  <2>2. \A k \in 1..Len(Path(ast, 1)) : ~ (k < 1)
    BY <2>1
  <2>3. \A i \in 1..Len(calls) : i = 1
    BY <1>2
  <2> QED BY <1>2, <2>2, <2>3 DEF Met
<1>5. Covered({})
  BY <1>2, <1>3, <1>4 DEF Covered, FunctionReady
<1>6. Returned({})
  BY <1>2, <1>3 DEF Returned, Past, FunctionTyped
<1> QED BY <1>5, <1>6

LEMMA ReturnInit == Init => ReturnInv
BY FramesInit, NothingMet DEF ReturnInv

THEOREM ReturnCorrect ==
  Spec => [](/\ TraversalInv /\ DataInv /\ CrashInv /\ DefinitionInv
             /\ CoverInv /\ ReturnInv)
<1> DEFINE Inv == /\ TraversalInv /\ DataInv /\ CrashInv /\ DefinitionInv
                  /\ CoverInv /\ ReturnInv
<1>1. Init => Inv
  BY TraversalInit, DataInit, CrashInit, DefinitionInit, CoverInit, ReturnInit
<1>2. Inv /\ [Next]_vars => Inv'
  BY TraversalStep, DataStep, CrashStep, DefinitionStep, CoverStep, ReturnStep
<1> QED BY <1>1, <1>2, PTL DEF Spec

(* In an accepted program a returned value fits the type that its function *)
(* is defined with, although attr_handle_return (typecheck.cpp) compares   *)
(* it with the symbol that a prototype or a variable may have left behind. *)
THEOREM ReturnsFitDefinitions == Spec => []ReturnsMatchDefinitions
<1>1. ASSUME TraversalInv, CoverInv, ReturnInv, Accepted,
             NEW r \in NodesWith({"TOK_RETURN"}),
             NEW fn \in NodesWith({"TOK_FUNCTION"}), fn \in Ancestors(r)
      PROVE  Compatible(get_node_attributes(child(r, 0)),
                        NewSymbol(child(fn, 0), {"function"}).attributes)
  <2>1. /\ r \in DOMAIN ast /\ symbol(r) = "TOK_RETURN"
        /\ symbol(fn) = "TOK_FUNCTION"
    BY DEF NodesWith
  <2>2. calls = <<>> /\ semantic_errors = 0
    BY <1>1 DEF Accepted, Analysed
  <2>3. PICK S \in SUBSET DOMAIN ast : Covered(S) /\ Returned(S)
    BY <1>1, <2>2 DEF ReturnInv
  <2>4. \A f \in DOMAIN ast : ~ IsBody(ast, f, r)
    BY <1>1, <2>1, NoBody, Tree DEF TraversalInv
  <2>5. r \in S
    BY <1>1, <2>1, <2>2, <2>3, <2>4, CoveredIsAll DEF Upper, Statement
  <2> QED BY <1>1, <2>1, <2>3, <2>5 DEF Returned, ReturnRight
<1>2. TraversalInv /\ CoverInv /\ ReturnInv => ReturnsMatchDefinitions
  BY <1>1 DEF ReturnsMatchDefinitions
<1> QED BY <1>2, ReturnCorrect, PTL

-----------------------------------------------------------------------------
(* The parameters of functions. *)

SameType(m, n) ==
  /\ IsArray(m) <=> IsArray(n)
  /\ symbol(base_type(m)) = symbol(base_type(n))

SameLists(l, m) ==
  /\ arity(l) = arity(m)
  /\ \A i \in 0..arity(l) - 1 : SameType(child(l, i), child(m, i))

(* The symbol has k parameters, with the types of the first k in a list. *)
Fitting(g, l, k) ==
  LET ps == info[g].params IN
  /\ Len(ps) = k
  /\ \A i \in 1..k :
       /\ ps[i] \in Declared
       /\ info[ps[i]].attributes \cap ANY
            = NewSymbol(child(l, i - 1), {"param"}).attributes \cap ANY

(* The list that a symbol was declared with, if by a function or prototype. *)
FirstList(g) == child(Prototype(g), 1)

(* A list agrees with the first one of its symbol. *)
Agreed(g, l) == symbol(Prototype(g)) \in Callables => SameLists(FirstList(g), l)

(* The loop over the parameters of the current function. *)
Looping == calls # <<>> /\ symbol(Caller.node) = "TOK_PARAMLIST"

GlobalsFit ==
  \A name \in DOMAIN TableAt(1) :
    LET g == TableAt(1)[name] IN
    /\ symbol(Prototype(g)) \in Callables
    /\ ~ (Looping /\ current_function = name)
    => Fitting(g, FirstList(g), arity(FirstList(g)))

DefinitionsFit ==
  \A f \in MetFunctions(ast, calls) :
    LET g == TableAt(1)[FunctionName(ast, f)]
        l == child(f, 1)
    IN  /\ Agreed(g, l)
        /\ l \notin OnStack(calls) => Fitting(g, l, arity(l))

LoopFits ==
  Looping =>
    LET l == Caller.node
        g == TableAt(1)[current_function]
    IN  /\ current_function \in DOMAIN TableAt(1)
        /\ Fitting(g, l, Caller.next - 1)
        /\ Caller.next <= arity(l) + 1
        /\ Agreed(g, l)
        /\ \A f \in MetFunctions(ast, calls) :
             FunctionName(ast, f) = current_function => child(f, 1) = l

NamesAgree ==
  \A n \in DOMAIN ast :
    symbol(n) = "TOK_IDENT" /\ symentry[n] # NULL =>
      symbols[symentry[n]].lexinfo = lexinfo(n)

LEMMA SameTypes ==
  ASSUME NEW m, NEW n, SameType(m, n)
  PROVE  NewSymbol(m, {"param"}).attributes \cap ANY
           = NewSymbol(n, {"param"}).attributes \cap ANY
BY ComparedTypes DEF SameType

LEMMA SameNodes ==
  ASSUME NEW m, NEW n, fn_compare_nodes(m, n)
  PROVE  SameType(m, n)
BY DEF fn_compare_nodes, SameType, IsArray, base_type

LEMMA ComparedLists ==
  ASSUME NEW f, NEW h, typecheck_compare_functions(f, h)
  PROVE  SameLists(child(f, 1), child(h, 1))
BY SameNodes DEF typecheck_compare_functions, SameLists

LEMMA ListsTurned ==
  ASSUME NEW l, NEW m, SameLists(l, m)
  PROVE  SameLists(m, l)
BY DEF SameLists, SameType

LEMMA FittingSame ==
  ASSUME NEW l, NEW m, SameLists(l, m), arity(l) \in Nat,
         NEW g, Fitting(g, l, arity(l))
  PROVE  Fitting(g, m, arity(m))
<1> DEFINE k == arity(l)
<1>1. k \in Nat /\ arity(m) = k
  BY DEF SameLists
<1>2. ASSUME NEW i \in 1..k
      PROVE  NewSymbol(child(l, i - 1), {"param"}).attributes \cap ANY
               = NewSymbol(child(m, i - 1), {"param"}).attributes \cap ANY
  <2>1. i - 1 \in 0..k - 1
    <3> HIDE DEF k
    <3> QED BY <1>1
  <2> QED BY <2>1, SameTypes DEF SameLists
<1> QED BY <1>1, <1>2 DEF Fitting

LEMMA FittingStays ==
  ASSUME TraversalInv, DataInv, SymbolsTrue, Next,
         NEW g, NEW l, NEW k, Fitting(g, l, k),
         info'[g].params = info[g].params
  PROVE  Fitting(g, l, k)'
<1>1. /\ ast' = ast /\ [ScopesNext]_scopeVars /\ ScopesInv
      /\ Declared \subseteq Declared'
  BY Moves, TraversalStep, GlobalGrows DEF TraversalInv
<1> DEFINE ps == info[g].params
<1>2. ASSUME NEW i \in 1..k
      PROVE  /\ ps[i] \in Declared'
             /\ info'[ps[i]].attributes \cap ANY
                  = NewSymbol(child(l, i - 1), {"param"}).attributes \cap ANY
  <2>1. /\ ps[i] \in Declared
        /\ info[ps[i]].attributes \cap ANY
             = NewSymbol(child(l, i - 1), {"param"}).attributes \cap ANY
    BY DEF Fitting
  <2>2. info'[ps[i]].attributes = info[ps[i]].attributes
    BY <2>1, SymbolsStep DEF SameSymbol
  <2> QED BY <1>1, <2>1, <2>2
<1>3. \A i : NewSymbol(child(l, i - 1), {"param"})'
               = NewSymbol(child(l, i - 1), {"param"})
  BY <1>1 DEF NewSymbol, base_type, IsArray, symbol, child, children, lexinfo
<1>4. Len(ps) = k
  BY DEF Fitting
<1> QED BY <1>2, <1>3, <1>4 DEF Fitting

LEMMA GlobalsDiffer ==
  ASSUME ScopesInv, NEW name \in DOMAIN TableAt(1)
  PROVE  /\ TableAt(1)[name] \in Declared
         /\ symbols[TableAt(1)[name]] = [lexinfo |-> name, block_nr |-> 0]
         /\ \A other \in DOMAIN TableAt(1) :
              TableAt(1)[other] = TableAt(1)[name] => other = name
<1>1. /\ 1 \in 1..Len(symbol_stack) /\ block_num_stack[1] = 0
      /\ TableIn(symbol_stack, 1) = TableAt(1)
  <2>1. /\ Len(symbol_stack) > 0
        /\ symbol_stack \in Seq(Tables(Name) \cup {NULL})
        /\ block_num_stack[1] = 0
    BY DEF ScopesInv, Good, Stacks
  <2> QED BY <2>1 DEF TableIn, TableAt
<1>2. \A other \in DOMAIN TableAt(1) :
        /\ TableAt(1)[other] \in Declared
        /\ symbols[TableAt(1)[other]] = [lexinfo |-> other, block_nr |-> 0]
  BY <1>1 DEF ScopesInv, Good, Sound, Declared
<1>3. ASSUME NEW other \in DOMAIN TableAt(1)
      PROVE  symbols[TableAt(1)[other]].lexinfo = other
  <2> DEFINE s == symbols[TableAt(1)[other]]
  <2>1. s = [lexinfo |-> other, block_nr |-> 0]
    BY <1>2
  <2> HIDE DEF s
  <2>2. s.lexinfo = other
    BY <2>1
  <2> QED BY <2>2 DEF s
<1> QED BY <1>2, <1>3

(* A declaration that dfs_traverse comes to is not a function's. *)
LEMMA NextIsNoFunctions ==
  ASSUME TraversalInv, Running, HasNext, Shaped(ast, calls),
         symbol(Next_node) \in VariableTypes
  PROVE  symbol(parent(Next_node)) \notin Callables
<1> DEFINE k == Len(calls)
           f == calls[k].node
           i == calls[k].next
           v == Next_node
<1>1. /\ WellFormed(ast, Name) /\ f \in DOMAIN ast /\ i \in Nat \ {0}
      /\ Caller = calls[k] /\ k \in 1..k
      /\ v = Path(ast, f)[i] /\ i <= Len(Path(ast, f))
  BY CallerIs, AdvancedIs
<1>2. /\ i \in 1..Len(Path(ast, f)) /\ Path(ast, f) \in Seq(DOMAIN ast)
  <2>1. Path(ast, f) \in Seq(DOMAIN ast)
    BY <1>1, PathFollows
  <2> HIDE DEF i, f
  <2> QED BY <1>1, <2>1
<1>3. \/ v \in Kids(ast, f)
      \/ /\ ast[f].symbol = "TOK_FUNCTION" /\ Body(ast, f) \in DOMAIN ast
         /\ ast[Body(ast, f)].symbol = "TOK_BLOCK"
         /\ v \in Kids(ast, Body(ast, f))
  BY <1>1, <1>2, PathFollows, BodyIsKid
<1>4. CASE symbol(f) \notin Callables
  <2> HIDE DEF f, v
  <2>1. CASE v \in Kids(ast, f)
    BY <1>1, <1>4, <2>1, ParentIs DEF v
  <2>2. CASE ast[f].symbol = "TOK_FUNCTION"
    BY <1>4, <2>2 DEF symbol, Callables
  <2> QED BY <1>3, <2>1, <2>2
<1>5. CASE symbol(f) \in Callables
  <2>1. i > 1
    BY <1>1, <1>5 DEF Shaped, symbol
  <2>2. ParamList(ast, f) = Path(ast, f)[1] /\ 1 \in 1..Len(Path(ast, f))
    BY <1>1, <1>5, ListFirst, ListsDiffer
  <2>3. Path(ast, f)[1] < v
    <3> HIDE DEF i, f
    <3> QED BY <1>1, <1>2, <2>1, <2>2, PathFollows
  <2>4. v \notin Kids(ast, f)
    <3> SUFFICES ASSUME v \in Kids(ast, f) PROVE FALSE
      OBVIOUS
    <3>1. \A w \in DOMAIN ast : Declaration(ast, w, "TOK_DECLID")
            /\ w \in Kids(ast, f) => w = ast[f].children[1]
      BY <1>1, <1>5, DeclarationParent DEF Callables, symbol
    <3>2. Declaration(ast, v, "TOK_DECLID") /\ v \in DOMAIN ast
      BY <1>1, NextDeclares, Goes
    <3>3. v = ast[f].children[1]
      BY <3>1, <3>2
    <3>4. /\ Len(ast[f].children) \in {2, 3}
          /\ \A j, l \in 1..Len(ast[f].children) :
               j < l => ast[f].children[j] < ast[f].children[l]
      <4>1. Len(ast[f].children) \in {2, 3}
        BY <1>1, <1>5 DEF WellFormed, Built, Callables, symbol
      <4> QED BY <1>1, <4>1, KidsFollow
    <3>5. ast[f].children[1] < ast[f].children[2]
      <4> DEFINE m == Len(ast[f].children)
      <4>0. m \in {2, 3}
        BY <3>4
      <4> HIDE DEF m
      <4>1. 1 \in 1..m /\ 2 \in 1..m
        BY <4>0
      <4> USE DEF m
      <4> QED BY <3>4, <4>1
    <3>6. v < ParamList(ast, f) /\ ParamList(ast, f) < v
      BY <2>2, <2>3, <3>3, <3>5 DEF ParamList
    <3>7. v \in Nat /\ ParamList(ast, f) \in Nat
      BY <1>1, <1>5, <3>2, ListsDiffer DEF WellFormed
    <3> HIDE DEF v
    <3>8. \A a, b \in Nat : ~ (a < b /\ b < a)
      OBVIOUS
    <3> QED BY <3>6, <3>7, <3>8
  <2>5. /\ Body(ast, f) \in DOMAIN ast /\ v \in Kids(ast, Body(ast, f))
        /\ ast[Body(ast, f)].symbol = "TOK_BLOCK"
    BY <1>3, <2>4
  <2>6. parent(v) = Body(ast, f)
    BY <1>1, <2>5, ParentIs
  <2> QED BY <2>5, <2>6 DEF Callables, symbol
<1> QED BY <1>4, <1>5

(* A symbol that becomes global is a variable's, or that of a function     *)
(* which is begun.                                                         *)
LEMMA NewGlobals ==
  ASSUME TraversalInv, Next, Shaped(ast, calls), Rooted(ast, calls),
         NEW name \in DOMAIN TableAt(1)', name \notin DOMAIN TableAt(1),
         NEW d, d = TableAt(1)'[name]
  PROVE  /\ d \in Declared' /\ d \notin Declared
         /\ symbols'[d] = [lexinfo |-> name, block_nr |-> 0]
         /\ \/ symbol(Prototype(d)) \notin Callables
            \/ /\ Begins_function /\ d = declared(child(Next_node, 0))
               /\ name = FunctionName(ast, Next_node)
               /\ Prototype(d) = Next_node
<1>1. /\ Running /\ WellFormed(ast, Name) /\ ast' = ast /\ ScopesInv
      /\ DOMAIN ast \subseteq Node /\ [ScopesNext]_scopeVars
      /\ TraversalInv'
  BY Moves, CallerIs, TraversalStep
<1>2. /\ d \in Declared' /\ symbols'[d] = [lexinfo |-> name, block_nr |-> 0]
  <2>1. /\ 1 \in 1..Len(symbol_stack') /\ block_num_stack'[1] = 0
        /\ TableIn(symbol_stack', 1) = TableAt(1)'
    <3>1. /\ Len(symbol_stack') > 0
          /\ symbol_stack' \in Seq(Tables(Name) \cup {NULL})
          /\ block_num_stack'[1] = 0
      BY <1>1 DEF TraversalInv, ScopesInv, Good, Stacks
    <3> QED BY <3>1 DEF TableIn, TableAt
  <2> QED BY <1>1, <2>1 DEF TraversalInv, ScopesInv, Good, Sound, Declared
<1>3. d \notin Declared
  <2> SUFFICES ASSUME d \in Declared PROVE FALSE
    OBVIOUS
  <2>1. symbols[d] = [lexinfo |-> name, block_nr |-> 0]
    BY <1>1, <1>2, SymbolsKept
  <2>2. /\ 1 \in 1..Len(symbol_stack) /\ block_num_stack[1] = 0
        /\ TableIn(symbol_stack, 1) = TableAt(1)
    <3>1. /\ Len(symbol_stack) > 0
          /\ symbol_stack \in Seq(Tables(Name) \cup {NULL})
          /\ block_num_stack[1] = 0
      BY <1>1 DEF ScopesInv, Good, Stacks
    <3> QED BY <3>1 DEF TableIn, TableAt
  <2>3. symbols[d].block_nr = 0 /\ symbols[d].lexinfo = name
    <3> DEFINE s == symbols[d]
    <3>1. s = [lexinfo |-> name, block_nr |-> 0]
      BY <2>1
    <3> HIDE DEF s
    <3>2. s.block_nr = 0 /\ s.lexinfo = name
      BY <3>1
    <3> QED BY <3>2 DEF s
  <2> QED BY <1>1, <2>2, <2>3 DEF ScopesInv, Good, Complete, Declared
<1>4. CASE VisitDeclaration /\ d = declared(Next_node)
  <2>1. HasNext /\ symbol(Next_node) \in VariableTypes
    BY <1>4 DEF VisitDeclaration, Visiting
  <2>2. Declaration(ast, Next_node, "TOK_DECLID") /\ Next_node \in DOMAIN ast
    BY <1>1, <2>1, NextDeclares, Goes
  <2>3. d \in Kids(ast, Next_node)
    BY <1>1, <1>4, <2>1, <2>2, NewDeclaration
  <2>4. Prototype(d) = parent(Next_node)
    BY <1>1, <2>2, <2>3, ParentIs DEF Prototype
  <2> QED BY <1>1, <1>2, <1>3, <2>1, <2>4, NextIsNoFunctions
<1>5. CASE /\ DeclareParam /\ d = declared(Next_node)
           /\ symbols'[d].block_nr = get_current_block
  <2>1. symbol(Caller.node) = "TOK_PARAMLIST"
    BY <1>5 DEF DeclareParam
  <2>2. get_current_block # 0
    BY <1>1, <2>1, ListInBlock
  <2>3. symbols'[d].block_nr = 0
    <3> DEFINE s == symbols'[d]
    <3>1. s = [lexinfo |-> name, block_nr |-> 0]
      BY <1>2
    <3> HIDE DEF s
    <3>2. s.block_nr = 0
      BY <3>1
    <3> QED BY <3>2 DEF s
  <2> QED BY <1>5, <2>2, <2>3
<1>6. CASE Begins_function /\ d = declared(child(Next_node, 0))
  <2> DEFINE v == Next_node
             m == child(v, 0)
  <2>1. HasNext /\ symbol(v) \in Callables /\ v \in DOMAIN ast
    BY <1>1, <1>6, Goes DEF Begins_function
  <2>2. /\ m \in DOMAIN ast /\ m \in Kids(ast, v)
        /\ d \in DOMAIN ast /\ d \in Kids(ast, m)
        /\ FunctionName(ast, v) = lexinfo(d)
    BY <1>1, <1>6, <2>1, FunctionDeclares, ListsDiffer DEF Callables
  <2>3. Prototype(d) = v
    BY <1>1, <2>1, <2>2, ParentIs DEF Prototype
  <2>4. Insert(d, lexinfo(d), 1)
    BY <1>6 DEF Begins_function, EnterFunction, BeginFunction
  <2>5. symbols' = Extend(symbols, d, [lexinfo  |-> lexinfo(d),
                                       block_nr |-> get_current_block])
    BY <1>2, <1>3, <2>4 DEF Insert, Declared
  <2>6. name = lexinfo(d)
    <3> DEFINE s == symbols'[d]
    <3>1. s = [lexinfo |-> name, block_nr |-> 0]
      BY <1>2
    <3>2. s = [lexinfo |-> lexinfo(d), block_nr |-> get_current_block]
      BY <2>5 DEF Extend
    <3> HIDE DEF s
    <3>3. s.lexinfo = name /\ s.lexinfo = lexinfo(d)
      BY <3>1, <3>2
    <3> QED BY <3>3
  <2> QED BY <1>2, <1>3, <1>6, <2>2, <2>3, <2>6
<1> QED BY <1>2, <1>3, <1>4, <1>5, <1>6, DeclaredAnew

LEMMA ParamsKept ==
  ASSUME NEW I, NEW D, Known(I, D), NEW d \in DOMAIN I,
         NEW f, NEW b
  PROVE  /\ [I EXCEPT ![f].params = b][d].params
              = IF d = f THEN b ELSE I[d].params
         /\ [I EXCEPT ![f].params = <<>>, ![f].fnblock = NULL][d].params
              = IF d = f THEN <<>> ELSE I[d].params
         /\ [I EXCEPT ![f].fnblock = b][d].params = I[d].params
<1>1. I[d] \in Symbol /\ I \in [DOMAIN I -> Symbol]
  BY DEF Known
<1> DEFINE J1 == [I EXCEPT ![f].params = b]
           J2 == [I EXCEPT ![f].params = <<>>, ![f].fnblock = NULL]
           J3 == [I EXCEPT ![f].fnblock = b]
           s == I[d]
           t == [s EXCEPT !.params = <<>>]
<1>2. /\ d # f => J1[d] = I[d] /\ J2[d] = I[d] /\ J3[d] = I[d]
      /\ d = f => /\ J1[d] = [s EXCEPT !.params = b]
                  /\ J2[d] = [t EXCEPT !.fnblock = NULL]
                  /\ J3[d] = [s EXCEPT !.fnblock = b]
  BY <1>1
<1>3. s \in Symbol
  BY <1>1
<1> HIDE DEF s, J1, J2, J3
<1>4. /\ [s EXCEPT !.params = b].params = b
      /\ [t EXCEPT !.fnblock = NULL].params = <<>>
      /\ [s EXCEPT !.fnblock = b].params = s.params
  BY <1>3 DEF Symbol
<1> HIDE DEF t
<1>5. /\ J1[d].params = IF d = f THEN b ELSE I[d].params
      /\ J2[d].params = IF d = f THEN <<>> ELSE I[d].params
      /\ J3[d].params = I[d].params
  BY <1>2, <1>4 DEF s
<1> QED BY <1>5 DEF J1, J2, J3

(* What DeclareParam adds to the parameters. *)
NextParam ==
  IF Symbolized(Next_node, {"param"}) THEN declared(Next_node) ELSE NULL

(* A symbol gets other parameters when a function begins that it stands    *)
(* for, or in the loop over the parameters of the current one.             *)
LEMMA ParamsMove ==
  ASSUME TraversalInv, DataInv, Next, NEW d \in Declared
  PROVE  \/ info'[d].params = info[d].params
         \/ /\ VisitFunction /\ info[d].fnblock = NULL
            /\ EnterFunction(Next_node,
                 GlobalSymbol(lexinfo(declared(child(Next_node, 0)))))
            /\ d = GlobalSymbol(lexinfo(declared(child(Next_node, 0))))
            /\ info'[d].params = <<>>
         \/ /\ DeclareParam /\ d = GlobalSymbol(current_function)
            /\ info'[d].params = Append(info[d].params, NextParam)
<1> DEFINE Goal == info'[d].params = info[d].params
<1>1. Known(info, Declared) /\ d \in DOMAIN info
  BY DEF DataInv, InfoTyped, Known
<1>2. ASSUME info' = info PROVE Goal
  BY <1>2
<1>3. ASSUME NEW I, NEW e, NEW s, e # d, d \in DOMAIN I,
             info' = Extend(I, e, s)
      PROVE  info'[d] = I[d]
  BY <1>3 DEF Extend
<1>4. ASSUME VisitDeclaration PROVE Goal
  <2> DEFINE e == declared(Next_node)
             s == NewSymbol(Next_node, {})
  <2>1. /\ Running /\ HasNext /\ symbol(Next_node) \in VariableTypes
        /\ info' = info \/ info' = Extend(info, e, s)
    BY <1>4 DEF VisitDeclaration, Visiting
  <2>2. e # d
    BY <2>1, NextDeclares, NewDeclaration
  <2> HIDE DEF e, s
  <2> QED BY <1>1, <1>2, <1>3, <2>1, <2>2
<1>5. CASE DeclareParam
  <2> DEFINE e == declared(Next_node)
             s == NewSymbol(Next_node, {"param"})
             f == GlobalSymbol(current_function)
             with(q) == [info EXCEPT ![f].params = Append(@, q)]
             does == Symbolized(Next_node, {"param"})
  <2>1. /\ Running /\ HasNext /\ symbol(Caller.node) = "TOK_PARAMLIST"
        /\ does => info' = Extend(with(e), e, s)
        /\ ~ does => info' = with(NULL)
    BY <1>5 DEF DeclareParam
  <2>2. e # d
    BY <2>1, NextDeclares, NewDeclaration
  <2>3. ASSUME NEW q
        PROVE  /\ with(q)[d].params = IF d = f THEN Append(info[f].params, q)
                                      ELSE info[d].params
               /\ d \in DOMAIN with(q)
    <3>1. with(q) = [info EXCEPT ![f].params = Append(info[f].params, q)]
      OBVIOUS
    <3>2. DOMAIN with(q) = DOMAIN info
      BY <3>1
    <3> HIDE DEF f, with
    <3> QED BY <1>1, <3>1, <3>2, ParamsKept
  <2>4. NextParam = IF does THEN e ELSE NULL
    BY DEF NextParam
  <2> HIDE DEF e, s, with, does
  <2>5. CASE ~ does
    <3>1. info'[d] = with(NULL)[d] /\ NextParam = NULL
      BY <2>1, <2>4, <2>5
    <3> HIDE DEF f
    <3>2. info'[d].params = IF d = f THEN Append(info[f].params, NULL)
                            ELSE info[d].params
      BY <2>3, <3>1
    <3> QED BY <1>5, <3>1, <3>2 DEF f
  <2>6. CASE does
    <3>1. info'[d] = with(e)[d] /\ NextParam = e
      BY <1>3, <2>1, <2>2, <2>3, <2>4, <2>6
    <3> HIDE DEF f
    <3>2. info'[d].params = IF d = f THEN Append(info[f].params, e)
                            ELSE info[d].params
      BY <2>3, <3>1
    <3> QED BY <1>5, <3>1, <3>2 DEF f
  <2> QED BY <2>5, <2>6
<1>6. ASSUME VisitStruct PROVE Goal
  <2> DEFINE n == Next_node
             fields == {declared(child(n, i)) : i \in 1..arity(n) - 1}
             sym(x) == NewSymbol(parent(x), {"field"})
             more == [x \in DOMAIN info \cup fields |->
                        IF x \in fields THEN sym(x) ELSE info[x]]
  <2>1. WellFormed(ast, Name) /\ n \in DOMAIN ast /\ symbol(n) = "TOK_STRUCT"
    BY <1>6, Goes DEF VisitStruct, Visiting
  <2>2. info' = info \/ info' = more
    BY <1>6 DEF VisitStruct
  <2>3. \A x \in fields : symbol(x) = "TOK_FIELD"
    BY <2>1, StructFields
  <2>4. symbol(d) = "TOK_DECLID"
    BY DEF TraversalInv, Walk, symbol
  <2>5. d \notin fields
    BY <2>3, <2>4
  <2> HIDE DEF fields, sym
  <2>6. more[d] = info[d]
    BY <1>1, <2>5
  <2> HIDE DEF more
  <2> QED BY <2>2, <2>6
<1>7. CASE VisitFunction
  <2> DEFINE n == Next_node
             e == declared(child(n, 0))
             prev == GlobalSymbol(lexinfo(e))
             s == NewSymbol(child(n, 0), {"function"})
             reset == [info EXCEPT ![prev].params = <<>>,
                                   ![prev].fnblock = NULL]
  <2>1. /\ Running /\ HasNext
        /\ symbol(Next_node) \in {"TOK_FUNCTION", "TOK_PROTOTYPE"}
    BY <1>7 DEF VisitFunction, Visiting
  <2>2. e # d
    BY <2>1, FunctionSymbol
  <2>3. \/ info' = info \/ info' = Extend(info, e, s)
        \/ /\ info' = reset /\ prev # NULL /\ info[prev].fnblock = NULL
           /\ EnterFunction(n, prev)
    BY <1>7 DEF VisitFunction, Redeclare, SkipFunction, EnterFunction
  <2>4. reset[d].params = IF d = prev THEN <<>> ELSE info[d].params
    <3> HIDE DEF prev
    <3> QED BY <1>1, ParamsKept
  <2>5. CASE info' = Extend(info, e, s)
    <3> HIDE DEF e, s
    <3> QED BY <1>1, <1>3, <2>2, <2>5
  <2>6. CASE /\ info' = reset /\ prev # NULL /\ info[prev].fnblock = NULL
             /\ EnterFunction(n, prev)
    <3> HIDE DEF reset
    <3>1. info'[d].params = IF d = prev THEN <<>> ELSE info[d].params
      BY <2>4, <2>6
    <3> QED BY <1>7, <2>6, <3>1
  <2> QED BY <1>2, <2>3, <2>5, <2>6
<1>8. ASSUME EndParams PROVE Goal
  <2> DEFINE n == parent(Caller.node)
             f == GlobalSymbol(current_function)
             b == child(n, 2)
  <2>1. \/ info' = info
        \/ info' = [info EXCEPT ![f].fnblock = b]
    BY <1>8 DEF EndParams
  <2> HIDE DEF n, f, b
  <2>2. [info EXCEPT ![f].fnblock = b][d].params = info[d].params
    BY <1>1, ParamsKept
  <2> QED BY <2>1, <2>2
<1>9. ASSUME ~ VisitDeclaration, ~ DeclareParam, ~ VisitStruct, ~ VisitFunction,
             ~ EndParams
      PROVE  info' = info
  BY <1>9 DEF Next, VisitVoid, EndFunction, VisitNode, LeaveIdent,
     LeaveSelector, LeaveAllocator, LeaveCall, LeaveNode
<1> QED BY <1>2, <1>4, <1>5, <1>6, <1>7, <1>8, <1>9

(* What is said of lists is said of the tree. *)
LEMMA ListsKept ==
  ASSUME ast' = ast, NEW g, NEW l
  PROVE  /\ FirstList(g)' = FirstList(g) /\ Agreed(g, l)' = Agreed(g, l)
         /\ arity(l)' = arity(l) /\ symbol(l)' = symbol(l)
         /\ symbol(Prototype(g))' = symbol(Prototype(g))
         /\ child(l, 1)' = child(l, 1)
         /\ FunctionName(ast, l)' = FunctionName(ast, l)
BY DEF FirstList, Agreed, SameLists, SameType, IsArray, base_type, Prototype,
       parent, symbol, child, children, arity, Callables, FunctionName

(* A function that is met without an error is begun. *)
LEMMA FunctionBegins ==
  ASSUME TraversalInv, DataInv, Shaped(ast, calls), Next, Silently,
         HasNext, symbol(Next_node) = "TOK_FUNCTION"
  PROVE  Begins_function
<1> DEFINE n == Next_node
           prev == GlobalSymbol(lexinfo(declared(child(n, 0))))
<1>1. /\ Running /\ WellFormed(ast, Name) /\ n \in DOMAIN ast
      /\ Advanced \in Seq(Frames(ast))
  BY Moves, CallerIs, Goes
<1>2. symbol(Caller.node) = "TOK_ROOT"
  <2>1. Caller.node = 1
    BY <1>1, MetFromRoot DEF Callables
  <2> QED BY <1>1, <2>1 DEF WellFormed, symbol
<1>3. VisitFunction
  BY <1>2 DEF Next, VisitDeclaration, VisitVoid, VisitStruct, DeclareParam,
     EndParams, EndFunction, VisitNode, LeaveIdent, LeaveSelector,
     LeaveAllocator, LeaveCall, LeaveNode, Visiting, Returning,
     VariableTypes, Special
<1>4. EnterFunction(n, prev)
  BY <1>3, SilentSteps DEF VisitFunction, SkipFunction
<1> DEFINE f == [node |-> n, next |-> 2]
           h == Frame(child(n, 1))
<1>5. calls' = Advanced \o <<f, h>>
  BY <1>4 DEF EnterFunction, Call
<1>6. f \in Frames(ast) /\ h \in Frames(ast)
  <2>1. child(n, 1) \in DOMAIN ast
    BY <1>1, FunctionDeclares
  <2> QED BY <1>1, <2>1 DEF Frame, Frames
<1> HIDE DEF f, h
<1>7. calls' = Append(Append(Advanced, f), h)
  BY <1>1, <1>5, <1>6, AppendTwice
<1> QED BY <1>2, <1>3, <1>4, <1>7 DEF Begins_function, Callables, f, h

(* The loop over the parameters of a function that is begun without an     *)
(* error starts with none, and its list agrees with that of the symbol.    *)
LEMMA BeginsAgreed ==
  ASSUME TraversalInv, DataInv, SymbolsTrue, NoGlobalParameter, Next,
         Begins_function, Silently,
         NEW m, m = Next_node, NEW name, name = FunctionName(ast, m)
  PROVE  /\ name \in DOMAIN TableAt(1)'
         /\ \E g : /\ g = TableAt(1)'[name] /\ Agreed(g, child(m, 1))
                   /\ info'[g].params = <<>>
         /\ current_function' = name
         /\ Last(calls') = Frame(child(m, 1)) /\ calls' # <<>>
<1> DEFINE c == child(m, 0)
           d == declared(c)
           prev == GlobalSymbol(name)
           sym == NewSymbol(c, {"function"})
           Begun == /\ name \in DOMAIN TableAt(1)'
                    /\ \E g : /\ g = TableAt(1)'[name]
                              /\ Agreed(g, child(m, 1))
                              /\ info'[g].params = <<>>
<1>1. /\ Running /\ HasNext /\ ast' = ast /\ ScopesInv
      /\ symbol(m) \in {"TOK_FUNCTION", "TOK_PROTOTYPE"}
  BY Moves DEF Begins_function, Callables, TraversalInv
<1>2. WellFormed(ast, Name) /\ m \in DOMAIN ast
  BY <1>1, CallerIs, Goes
<1>3. /\ d \in Node \ Declared /\ name \in Name
      /\ sym.params = <<>> /\ name = lexinfo(d)
      /\ c \in DOMAIN ast /\ c \in Kids(ast, m)
      /\ d \in DOMAIN ast /\ d \in Kids(ast, c)
      /\ child(m, 1) \in DOMAIN ast
  BY <1>1, <1>2, FunctionSymbol, ListsDiffer, FunctionDeclares DEF Callables
<1>4. /\ EnterFunction(m, prev) /\ BeginFunction(d, name)
      /\ current_function' = name
  BY <1>3 DEF EnterFunction, Begins_function
<1>5. ASSUME prev = NULL PROVE Begun
  <2> HIDE DEF sym
  <2>1. TableAt(1)' = Extend(TableAt(1), name, d)
    BY <1>1, <1>3, <1>4, <1>5, Begins
  <2>2. info' = Extend(info, d, sym)
    BY <1>4, <1>5 DEF EnterFunction, sym
  <2>3. Prototype(d) = m
    BY <1>2, <1>3, ParentIs DEF Prototype
  <2>4. Agreed(d, child(m, 1))
    BY <2>3 DEF Agreed, FirstList, SameLists, SameType
  <2> HIDE DEF d
  <2>5. /\ name \in DOMAIN TableAt(1)' /\ TableAt(1)'[name] = d
        /\ info'[d] = sym
    BY <2>1, <2>2 DEF Extend
  <2> QED BY <1>3, <2>4, <2>5
<1>6. ASSUME prev # NULL PROVE Begun
  <2>1. /\ name \in DOMAIN TableAt(1) /\ TableAt(1)' = TableAt(1)
        /\ prev = TableAt(1)[name] /\ prev \in Declared
    <3> HIDE DEF d
    <3>1. name \in DOMAIN TableAt(1)
      BY <1>6 DEF GlobalSymbol, find_symbol_in_table
    <3> QED BY <1>1, <1>3, <1>4, <1>6, <3>1, Begins, GlobalIsDeclared
  <2>2. /\ typecheck_compare_functions(Prototype(prev), m)
        /\ info' = [info EXCEPT ![prev].params = <<>>,
                                ![prev].fnblock = NULL]
    BY <1>4, <1>6, SilentSteps DEF EnterFunction
  <2>3. Agreed(prev, child(m, 1))
    BY <2>2, ComparedLists DEF Agreed, FirstList
  <2>4. info'[prev].params = <<>>
    <3>1. Known(info, Declared) /\ prev \in DOMAIN info
      BY <2>1 DEF DataInv, InfoTyped, Known
    <3> HIDE DEF prev
    <3> QED BY <2>2, <3>1, ParamsKept
  <2> HIDE DEF prev
  <2> QED BY <2>1, <2>3, <2>4
<1>7. Last(calls') = Frame(child(m, 1)) /\ calls' # <<>>
  <2> DEFINE f == [node |-> m, next |-> 2]
             h == Frame(child(m, 1))
             cs == Append(Advanced, f)
  <2>1. Advanced \in Seq(Frames(ast)) /\ calls' = Append(cs, h)
    BY <1>1, Goes DEF Begins_function
  <2>2. f \in Frames(ast) /\ h \in Frames(ast)
    BY <1>2, <1>3 DEF Frame, Frames
  <2> HIDE DEF f, h
  <2>3. cs \in Seq(Frames(ast))
    BY <2>1, <2>2
  <2> HIDE DEF cs
  <2> DEFINE ds == Append(cs, h)
  <2>4. /\ Len(ds) = Len(cs) + 1 /\ Len(cs) \in Nat
        /\ ds[Len(cs) + 1] = h /\ ds # <<>>
    BY <2>2, <2>3, AppendProperties
  <2> HIDE DEF ds
  <2>5. Last(ds) = h /\ ds # <<>>
    BY <2>4 DEF Last
  <2> USE DEF ds
  <2> QED BY <2>1, <2>5 DEF h
<1> HIDE DEF prev, c, d, sym
<1> QED BY <1>4, <1>5, <1>6, <1>7

(* No definition that was met has the name of a function that is begun. *)
LEMMA BeginsFresh ==
  ASSUME TraversalInv, DataInv, Shaped(ast, calls), Next, Silently,
         Defined(ast, calls, TableAt(1), info), Begins_function
  PROVE  \A f \in MetFunctions(ast, calls) :
           FunctionName(ast, f) # FunctionName(ast, Next_node)
<1> DEFINE m == Next_node
           prev == GlobalSymbol(FunctionName(ast, m))
<1>1. /\ Running /\ HasNext /\ WellFormed(ast, Name) /\ ScopesInv
      /\ m \in DOMAIN ast /\ symbol(m) \in Callables
      /\ Advanced \in Seq(Frames(ast))
  BY Moves, CallerIs, Goes DEF Begins_function
<1>2. CASE symbol(m) = "TOK_FUNCTION"
  <2>1. semantic_errors' = semantic_errors
    BY DEF Silently
  <2> QED BY <1>1, <1>2, <2>1, NewFunction
<1>3. CASE symbol(m) = "TOK_PROTOTYPE"
  <2>1. prev = NULL
    <3> SUFFICES ASSUME prev # NULL PROVE FALSE
      OBVIOUS
    <3>1. FunctionName(ast, m) = lexinfo(declared(child(m, 0)))
      BY <1>1, ListsDiffer
    <3>2. Call(<<>>) /\ calls' # Advanced
      <4>1. calls' # Advanced
        <5> DEFINE f == [node |-> m, next |-> 2]
                   h == Frame(child(m, 1))
        <5>1. f \in Frames(ast) /\ h \in Frames(ast)
          <6>1. child(m, 1) \in DOMAIN ast
            BY <1>1, FunctionDeclares DEF Callables
          <6> QED BY <1>1, <6>1 DEF Frame, Frames
        <5> HIDE DEF f, h
        <5>2. /\ Append(Append(Advanced, f), h) # Advanced
          <6>1. Len(Append(Append(Advanced, f), h)) = Len(Advanced) + 2
            BY <1>1, <5>1
          <6>2. Len(Advanced) \in Nat
            BY <1>1
          <6> QED BY <6>1, <6>2
        <5> QED BY <5>2 DEF Begins_function, f, h
      <4> QED BY <1>3, <3>1, <4>1, SilentSteps
           DEF Begins_function, VisitFunction, Redeclare
    <3>3. Advanced \o <<>> = Advanced
      BY <1>1
    <3> QED BY <3>2, <3>3 DEF Call
  <2>2. ASSUME NEW f \in MetFunctions(ast, calls),
               FunctionName(ast, f) = FunctionName(ast, m)
        PROVE  FALSE
    <3>1. FunctionName(ast, m) \in DOMAIN TableAt(1)
      BY <2>2 DEF Defined, Placed
    <3>2. prev \in Declared
      BY <1>1, <3>1, GlobalIsDeclared
    <3>3. Declared \subseteq Node
      BY DEF DataInv, InfoTyped, Known
    <3> QED BY <2>1, <3>2, <3>3, NullAssumption
  <2> QED BY <2>2
<1> QED BY <1>1, <1>2, <1>3 DEF Callables

(* What a step makes of the loop over the parameters. *)
LEMMA LoopMoves ==
  ASSUME TraversalInv, Next, Shaped(ast, calls),
         NEW l, l = Caller.node, NEW i, i = Caller.next
  PROVE  /\ Passes => /\ Looping' <=> Looping
                      /\ Last(calls').node = l /\ Last(calls').next = i + 1
                      /\ current_function' = current_function
                      /\ Looping <=> DeclareParam
         /\ ~ Passes => ~ DeclareParam
         /\ Enters \/ Begins_function => ~ Looping
         /\ Enters \/ Leaves => ~ Looping'
<1>1. /\ Running /\ ast' = ast /\ WellFormed(ast, Name)
      /\ calls \in Seq(Frames(ast)) /\ calls # <<>>
      /\ Caller = calls[Len(calls)]
      /\ Passes \/ Enters \/ Begins_function \/ Leaves
  BY Moves, CallerIs
<1>2. Looping' <=> /\ calls' # <<>>
                   /\ symbol(Last(calls').node) = "TOK_PARAMLIST"
  BY <1>1 DEF Looping, Caller, symbol
<1>3. Looping <=> symbol(Caller.node) = "TOK_PARAMLIST"
  BY <1>1 DEF Looping
<1>4. ASSUME Passes
      PROVE  /\ calls' # <<>> /\ Last(calls').node = l
             /\ Last(calls').next = i + 1
             /\ current_function' = current_function
  <2>1. HasNext /\ calls' = Advanced
    BY <1>4 DEF Passes
  <2>2. /\ Len(Advanced) = Len(calls) /\ Len(calls) \in Nat \ {0}
        /\ Advanced[Len(calls)].node = calls[Len(calls)].node
        /\ Advanced[Len(calls)].next = calls[Len(calls)].next + 1
    <3>1. Len(calls) \in 1..Len(calls)
      BY <1>1, <2>1, AdvancedIs
    <3> QED BY <1>1, <2>1, <3>1, AdvancedIs
  <2>3. /\ Last(calls') = calls'[Len(calls)] /\ calls' # <<>>
    BY <2>1, <2>2 DEF Last
  <2>4. ~ Begins_function
    <3> DEFINE f == [node |-> Next_node, next |-> 2]
               h == Frame(child(Next_node, 1))
    <3> SUFFICES ASSUME Begins_function PROVE FALSE
      OBVIOUS
    <3>1. /\ calls' = Append(Append(Advanced, f), h)
          /\ Advanced \in Seq(Frames(ast))
      BY <1>1, <2>1, AdvancedIs DEF Begins_function
    <3>2. f \in Frames(ast) /\ h \in Frames(ast)
      <4>1. Next_node \in DOMAIN ast
        BY <1>1, <2>1, Goes
      <4>2. child(Next_node, 1) \in DOMAIN ast
        BY <1>1, <4>1, FunctionDeclares DEF Begins_function, Callables
      <4> QED BY <4>1, <4>2 DEF Frame, Frames
    <3> HIDE DEF f, h
    <3>3. Len(Append(Append(Advanced, f), h)) = Len(Advanced) + 2
      BY <3>1, <3>2
    <3> QED BY <2>1, <2>2, <3>1, <3>3
  <2>5. ~ Leaves
    BY <2>1 DEF Leaves
  <2> QED BY <1>1, <2>1, <2>2, <2>3, <2>4, <2>5, CurrentFunction
<1>5. ASSUME Passes PROVE Looping <=> DeclareParam
  <2>1. ASSUME Looping PROVE DeclareParam
    <3>1. symbol(Caller.node) = "TOK_PARAMLIST" /\ HasNext
      BY <1>3, <1>5, <2>1 DEF Passes
    <3> QED BY <3>1 DEF Next, VisitDeclaration, VisitVoid, VisitStruct,
         VisitFunction, EndParams, EndFunction, VisitNode, LeaveIdent,
         LeaveSelector, LeaveAllocator, LeaveCall, LeaveNode, Visiting,
         Returning
  <2> QED BY <1>3, <2>1 DEF DeclareParam
<1>6. ASSUME Enters \/ Begins_function
      PROVE  ~ Looping /\ ~ DeclareParam
  BY <1>3, <1>6 DEF Enters, Begins_function, DeclareParam
<1>7. ASSUME Leaves PROVE ~ DeclareParam
  BY <1>7 DEF Leaves, DeclareParam
<1>8. ASSUME Leaves PROVE ~ Looping'
  <2>1. calls' = Front(calls)
    BY <1>8 DEF Leaves
  <2>2. \A n \in OnStack(Front(calls)) : symbol(n) # "TOK_PARAMLIST"
    BY <1>1, ShapedPopped DEF symbol
  <2>3. ASSUME calls' # <<>> PROVE Last(calls').node \in OnStack(Front(calls))
    <3>1. Front(calls) \in Seq(Frames(ast)) /\ Front(calls) # <<>>
      BY <1>1, <2>1, <2>3, FrontFacts
    <3> DEFINE cs == Front(calls)
    <3> HIDE DEF cs
    <3>2. cs \in Seq(Frames(ast)) /\ cs # <<>>
      BY <3>1 DEF cs
    <3>3. Last(cs) = cs[Len(cs)] /\ Len(cs) \in 1..Len(cs)
      <4>1. Last(cs) = cs[Len(cs)] /\ Len(cs) \in Nat \ {0}
        BY <3>2, FrontFacts
      <4>2. \A k \in Nat \ {0} : k \in 1..k
        OBVIOUS
      <4> QED BY <4>1, <4>2
    <3> QED BY <2>1, <3>3 DEF OnStack, cs
  <2> QED BY <1>2, <2>2, <2>3
<1>9. ASSUME Enters PROVE ~ Looping'
  <2> DEFINE h == Frame(Next_node)
             cs == Append(Advanced, h)
  <2>1. HasNext /\ calls' = cs /\ Advanced \in Seq(Frames(ast))
    BY <1>1, <1>9, AdvancedIs DEF Enters
  <2>2. symbol(Next_node) # "TOK_PARAMLIST" /\ Next_node \in DOMAIN ast
    BY <1>1, <2>1, NoListNext, Goes
  <2>3. h \in Frames(ast) /\ h.node = Next_node
    BY <2>2 DEF Frame, Frames
  <2> HIDE DEF h
  <2>4. /\ Len(cs) = Len(Advanced) + 1 /\ Len(Advanced) \in Nat
        /\ cs[Len(Advanced) + 1] = h
    BY <2>1, <2>3, AppendProperties
  <2> HIDE DEF cs
  <2>5. Last(cs) = h
    BY <2>4 DEF Last
  <2> QED BY <1>2, <2>1, <2>2, <2>3, <2>5
<1> QED BY <1>1, <1>2, <1>3, <1>4, <1>5, <1>6, <1>7, <1>8, <1>9

(* What DeclareParam does to the parameters of a symbol. *)
LEMMA ParamAdded ==
  ASSUME TraversalInv, DataInv, DeclareParam, NEW d \in Declared
  PROVE  info'[d].params = IF d = GlobalSymbol(current_function)
                           THEN Append(info[d].params, NextParam)
                           ELSE info[d].params
<1>1. Known(info, Declared) /\ d \in DOMAIN info
  BY DEF DataInv, InfoTyped, Known
<1> DEFINE e == declared(Next_node)
           s == NewSymbol(Next_node, {"param"})
           f == GlobalSymbol(current_function)
           with(q) == [info EXCEPT ![f].params = Append(@, q)]
           does == Symbolized(Next_node, {"param"})
<1>2. /\ Running /\ HasNext /\ symbol(Caller.node) = "TOK_PARAMLIST"
      /\ does => info' = Extend(with(e), e, s)
      /\ ~ does => info' = with(NULL)
  BY DEF DeclareParam
<1>3. e # d
  BY <1>2, NextDeclares, NewDeclaration
<1>4. ASSUME NEW q
      PROVE  /\ with(q)[d].params = IF d = f THEN Append(info[f].params, q)
                                    ELSE info[d].params
             /\ d \in DOMAIN with(q)
  <2>1. with(q) = [info EXCEPT ![f].params = Append(info[f].params, q)]
    OBVIOUS
  <2>2. DOMAIN with(q) = DOMAIN info
    BY <2>1
  <2> HIDE DEF f, with
  <2> QED BY <1>1, <2>1, <2>2, ParamsKept
<1>5. NextParam = IF does THEN e ELSE NULL
  BY DEF NextParam
<1> HIDE DEF e, s, with, does
<1>6. info'[d] = with(NextParam)[d]
  <2>1. CASE does
    <3>1. info' = Extend(with(e), e, s) /\ NextParam = e
      BY <1>2, <1>5, <2>1
    <3>2. Extend(with(e), e, s)[d] = with(e)[d]
      BY <1>3, <1>4 DEF Extend
    <3> QED BY <3>1, <3>2
  <2> QED BY <1>2, <1>5, <2>1
<1> HIDE DEF f
<1>7. info'[d].params = IF d = f THEN Append(info[f].params, NextParam)
                        ELSE info[d].params
  BY <1>4, <1>6
<1> QED BY <1>7 DEF f

(* A parameter that is added fits the list if it has the next type of it.  *)
LEMMA FittingAdds ==
  ASSUME TraversalInv, DataInv, SymbolsTrue, Next,
         NEW g \in Declared, NEW l, NEW k \in Nat, Fitting(g, l, k), NEW d,
         info'[g].params = Append(info[g].params, d), d \in Declared',
         info'[d].attributes \cap ANY
           = NewSymbol(child(l, k), {"param"}).attributes \cap ANY
  PROVE  Fitting(g, l, k + 1)'
<1>1. /\ ast' = ast /\ [ScopesNext]_scopeVars /\ ScopesInv
      /\ Declared \subseteq Declared'
  BY Moves, TraversalStep, GlobalGrows DEF TraversalInv
<1> DEFINE ps == info[g].params
           qs == Append(ps, d)
<1>2. ps \in Seq(Node \cup {NULL}) /\ Len(ps) = k
  <2>1. info[g] \in Symbol
    BY DEF DataInv, InfoTyped, Known
  <2> QED BY <2>1, SymbolFields DEF Fitting
<1>3. \A i \in 1..k :
        /\ ps[i] \in Declared
        /\ info[ps[i]].attributes \cap ANY
             = NewSymbol(child(l, i - 1), {"param"}).attributes \cap ANY
  BY DEF Fitting
<1>4. ASSUME NEW i \in 1..k
      PROVE  /\ ps[i] \in Declared'
             /\ info'[ps[i]].attributes \cap ANY
                  = NewSymbol(child(l, i - 1), {"param"}).attributes \cap ANY
  <2>1. info'[ps[i]].attributes = info[ps[i]].attributes
    BY <1>3, SymbolsStep DEF SameSymbol
  <2> QED BY <1>1, <1>3, <2>1
<1>5. \A i : NewSymbol(child(l, i - 1), {"param"})'
               = NewSymbol(child(l, i - 1), {"param"})
  BY <1>1 DEF NewSymbol, base_type, IsArray, symbol, child, children, lexinfo
<1> HIDE DEF ps
<1>6. /\ Len(qs) = k + 1 /\ qs[k + 1] = d
      /\ \A i \in 1..k : qs[i] = ps[i]
  <2> DEFINE S == Node \cup {NULL} \cup {d}
  <2>1. ps \in Seq(S) /\ d \in S
    BY <1>2, AppendOne
  <2> HIDE DEF S
  <2> QED BY <1>2, <2>1, AppendProperties
<1> DEFINE nl(i) == NewSymbol(child(l, i - 1), {"param"}).attributes \cap ANY
<1>7. ASSUME NEW i \in 1..k + 1
      PROVE  /\ qs[i] \in Declared'
             /\ info'[qs[i]].attributes \cap ANY = nl(i)
  <2>1. CASE i \in 1..k
    BY <1>4, <1>6, <2>1
  <2>2. CASE i = k + 1
    <3>1. i - 1 = k
      BY <2>2
    <3>2. nl(i) = NewSymbol(child(l, k), {"param"}).attributes \cap ANY
      BY <3>1
    <3> HIDE DEF nl, qs
    <3> QED BY <1>6, <2>2, <3>2
  <2>3. i \in 1..k \/ i = k + 1
    BY <1>7
  <2> QED BY <2>1, <2>2, <2>3
<1>8. info'[g].params = qs
  BY DEF ps
<1> HIDE DEF qs
<1> QED BY <1>5, <1>6, <1>7, <1>8 DEF Fitting

(* The loop over the parameters, as a step finds and leaves it. *)
LEMMA LoopIs ==
  ASSUME TraversalInv, Next, Shaped(ast, calls), Looping
  PROVE  /\ Caller.node \in DOMAIN ast /\ symbol(Caller.node) = "TOK_PARAMLIST"
         /\ Visits(Caller.node) = children(Caller.node)
         /\ arity(Caller.node) = Len(Visits(Caller.node))
         /\ arity(Caller.node) \in Nat /\ Caller.next \in Nat \ {0}
         /\ Caller.node \in OnStack(calls)
<1>1. /\ Running /\ WellFormed(ast, Name) /\ Caller \in Frames(ast)
      /\ calls \in Seq(Frames(ast)) /\ calls # <<>>
      /\ Caller = calls[Len(calls)]
  BY Moves, CallerIs
<1> DEFINE c == Caller
<1> HIDE DEF c
<1>2. c \in Frames(ast) /\ symbol(c.node) = "TOK_PARAMLIST"
  BY <1>1 DEF Looping, c
<1>3. c.node \in DOMAIN ast /\ c.next \in Nat \ {0}
  BY <1>2 DEF Frames
<1>4. /\ Visits(c.node) = children(c.node)
      /\ arity(c.node) = Len(Visits(c.node)) /\ arity(c.node) \in Nat
  <2>1. Visits(c.node) = children(c.node)
    BY <1>2 DEF Visits
  <2>2. ast[c.node].children \in Seq(DOMAIN ast)
    BY <1>1, <1>3, KidsFollow
  <2> QED BY <2>1, <2>2 DEF arity, children
<1>5. c.node \in OnStack(calls)
  <2>1. Len(calls) \in 1..Len(calls)
    <3>1. Len(calls) \in Nat \ {0}
      BY <1>1
    <3>2. \A k \in Nat \ {0} : k \in 1..k
      OBVIOUS
    <3> QED BY <3>1, <3>2
  <2> QED BY <1>1, <2>1 DEF OnStack, c
<1> QED BY <1>2, <1>3, <1>4, <1>5 DEF c

(* The symbol of the current function. *)
LEMMA EntersBegins ==
  ASSUME TraversalInv, Next, VisitFunction,
         EnterFunction(Next_node,
           GlobalSymbol(lexinfo(declared(child(Next_node, 0)))))
  PROVE  Begins_function
<1> DEFINE n == Next_node
           f == [node |-> n, next |-> 2]
           h == Frame(child(n, 1))
<1>1. /\ Running /\ WellFormed(ast, Name) /\ HasNext /\ n \in DOMAIN ast
      /\ symbol(n) \in {"TOK_FUNCTION", "TOK_PROTOTYPE"}
      /\ symbol(Caller.node) # "TOK_PARAMLIST"
      /\ Advanced \in Seq(Frames(ast))
  BY Moves, CallerIs, Goes DEF VisitFunction, Visiting
<1>2. calls' = Advanced \o <<f, h>>
  BY DEF EnterFunction, Call
<1>3. f \in Frames(ast) /\ h \in Frames(ast)
  <2>1. child(n, 1) \in DOMAIN ast
    BY <1>1, FunctionDeclares
  <2> QED BY <1>1, <2>1 DEF Frame, Frames
<1> HIDE DEF f, h
<1>4. calls' = Append(Append(Advanced, f), h)
  BY <1>1, <1>2, <1>3, AppendTwice
<1> QED BY <1>1, <1>4 DEF Begins_function, Callables, f, h

(* A function that is begun without an error is looped over next.          *)
LEMMA BeginsLoop ==
  ASSUME TraversalInv, DataInv, SymbolsTrue, NoGlobalParameter, Next,
         Begins_function, Silently,
         NEW m, m = Next_node
  PROVE  /\ Looping' /\ current_function' = FunctionName(ast, m)
         /\ Last(calls') = Frame(child(m, 1)) /\ calls' # <<>>
<1>1. /\ Running /\ WellFormed(ast, Name) /\ ast' = ast /\ HasNext
      /\ m \in DOMAIN ast /\ symbol(m) \in Callables
  <2>1. Running /\ WellFormed(ast, Name) /\ ast' = ast
    BY Moves, CallerIs
  <2> QED BY <2>1, Goes DEF Begins_function
<1>2. /\ current_function' = FunctionName(ast, m) /\ calls' # <<>>
      /\ Last(calls') = Frame(child(m, 1))
  BY BeginsAgreed
<1>3. symbol(child(m, 1)) = "TOK_PARAMLIST"
  BY <1>1, FunctionDeclares DEF Callables
<1>4. Last(calls').node = child(m, 1)
  BY <1>2 DEF Frame
<1>5. Looping' <=> /\ calls' # <<>>
                   /\ symbol(Last(calls').node) = "TOK_PARAMLIST"
  BY <1>1 DEF Looping, Caller, symbol
<1> QED BY <1>2, <1>3, <1>4, <1>5

(* A global symbol gets other parameters only in the loop that is about    *)
(* them, or where it begins.                                               *)
LEMMA GlobalKeeps ==
  ASSUME TraversalInv, DataInv, SymbolsTrue, NoGlobalParameter, Next, Silently,
         Shaped(ast, calls), LoopFits,
         NEW name \in DOMAIN TableAt(1), NEW g, g = TableAt(1)[name]
  PROVE  \/ info'[g].params = info[g].params
         \/ /\ Begins_function /\ FunctionName(ast, Next_node) = name
            /\ Looping' /\ current_function' = name
         \/ /\ DeclareParam /\ Looping /\ current_function = name
            /\ info'[g].params = Append(info[g].params, NextParam)
<1>1. /\ Running /\ ScopesInv /\ g \in Declared
      /\ WellFormed(ast, Name) /\ ast' = ast
  BY Moves, CallerIs, GlobalsDiffer
<1>2. \A other \in DOMAIN TableAt(1) : TableAt(1)[other] = g => other = name
  BY <1>1, GlobalsDiffer
<1>3. ASSUME NEW other, g = GlobalSymbol(other) PROVE other = name
  <2>1. g # NULL
    BY <1>1, NullAssumption DEF DataInv, InfoTyped, Known
  <2>2. other \in DOMAIN TableAt(1) /\ g = TableAt(1)[other]
    BY <1>3, <2>1 DEF GlobalSymbol, find_symbol_in_table
  <2> QED BY <1>2, <2>2
<1>4. CASE /\ VisitFunction
           /\ EnterFunction(Next_node,
                GlobalSymbol(lexinfo(declared(child(Next_node, 0)))))
           /\ g = GlobalSymbol(lexinfo(declared(child(Next_node, 0))))
  <2>1. Begins_function
    BY <1>4, EntersBegins
  <2>2. /\ HasNext /\ Next_node \in DOMAIN ast
        /\ symbol(Next_node) \in Callables
    BY <1>1, <2>1, Goes DEF Begins_function
  <2>3. FunctionName(ast, Next_node) = lexinfo(declared(child(Next_node, 0)))
    BY <1>1, <2>2, ListsDiffer
  <2>4. FunctionName(ast, Next_node) = name
    BY <1>3, <1>4, <2>3
  <2> QED BY <2>1, <2>4, BeginsLoop
<1>5. CASE /\ DeclareParam /\ g = GlobalSymbol(current_function)
           /\ info'[g].params = Append(info[g].params, NextParam)
  <2>1. Looping
    BY <1>5 DEF DeclareParam, Looping, Running
  <2> QED BY <1>3, <1>5, <2>1
<1> QED BY <1>1, <1>4, <1>5, ParamsMove

GlobalFits(name, g, l) ==
  symbol(Prototype(g)) \in Callables /\ ~ (Looping /\ current_function = name)
    => Fitting(g, l, arity(l))

LEMMA GlobalFitsStep ==
  ASSUME TraversalInv, DataInv, SymbolsTrue, NoGlobalParameter, Next, Silently,
         Shaped(ast, calls), LoopFits,
         NEW name \in DOMAIN TableAt(1), NEW g, g = TableAt(1)[name],
         NEW l, l = FirstList(g), GlobalFits(name, g, l)
  PROVE  GlobalFits(name, g, l)'
<1> SUFFICES ASSUME symbol(Prototype(g)) \in Callables,
                    ~ (Looping' /\ current_function' = name)
             PROVE  Fitting(g, l, arity(l))'
  <2>1. ast' = ast
    BY Moves
  <2> QED BY <2>1, ListsKept DEF GlobalFits, Callables
<1>1. /\ Running /\ ast' = ast /\ arity(l)' = arity(l)
      /\ Passes \/ Enters \/ Begins_function \/ Leaves
  <2>1. Running /\ ast' = ast /\ (Passes \/ Enters \/ Begins_function \/ Leaves)
    BY Moves
  <2> QED BY <2>1, ListsKept
<1> DEFINE k == arity(l)
<1>2. /\ Fitting(g, l, k)
      /\ info'[g].params = info[g].params
  <2>1. CASE ~ (Looping /\ current_function = name)
    BY <2>1, GlobalKeeps DEF GlobalFits
  <2>2. CASE Looping /\ current_function = name
    <3> DEFINE m == Caller.node
    <3>1. ~ HasNext /\ ~ Passes /\ ~ DeclareParam
      <4>1. ~ Passes
        BY <2>2, LoopMoves
      <4>2. ~ Enters /\ ~ Begins_function
        BY <2>2, LoopMoves
      <4> QED BY <1>1, <4>1, <4>2, LoopMoves DEF Leaves
    <3>2. info'[g].params = info[g].params
      BY <2>2, <3>1, GlobalKeeps DEF Begins_function
    <3>3. /\ Fitting(g, m, Caller.next - 1) /\ Caller.next <= arity(m) + 1
          /\ Agreed(g, m)
      BY <2>2 DEF LoopFits
    <3>4. /\ arity(m) \in Nat /\ Caller.next \in Nat \ {0}
          /\ Caller.next > arity(m)
      BY <2>2, <3>1, LoopIs DEF HasNext
    <3>5. Caller.next - 1 = arity(m)
      <4> DEFINE a == arity(m)
                 b == Caller.next
      <4>1. a \in Nat /\ b \in Nat \ {0} /\ b > a /\ b <= a + 1
        BY <3>3, <3>4
      <4> HIDE DEF a, b
      <4>2. b - 1 = a
        BY <4>1
      <4> QED BY <4>2 DEF a, b
    <3>6. Fitting(g, m, arity(m))
      BY <3>3, <3>5
    <3>7. SameLists(m, l)
      BY <3>3, ListsTurned DEF Agreed
    <3> HIDE DEF m
    <3>8. Fitting(g, l, arity(l))
      BY <3>4, <3>6, <3>7, FittingSame DEF m
    <3> QED BY <3>2, <3>8
  <2> QED BY <2>1, <2>2
<1> HIDE DEF k
<1>3. ASSUME NEW q, q = k PROVE Fitting(g, l, q)'
  BY <1>2, <1>3, FittingStays
<1>4. arity(l)' = k
  BY <1>1 DEF k
<1> QED BY <1>3, <1>4 DEF Fitting

LEMMA GlobalsFitIs ==
  GlobalsFit <=> \A name \in DOMAIN TableAt(1) :
                   \A g : g = TableAt(1)[name] =>
                     \A l : l = FirstList(g) => GlobalFits(name, g, l)
BY DEF GlobalsFit, GlobalFits

LEMMA GlobalsFitStep ==
  ASSUME TraversalInv, DataInv, SymbolsTrue, FramesInv, Next, Silently,
         Shaped(ast, calls), LoopFits, GlobalsFit
  PROVE  GlobalsFit'
<1>1. /\ ast' = ast /\ [ScopesNext]_scopeVars /\ Keeps(TableAt(1), TableAt(1)')
      /\ Running /\ WellFormed(ast, Name)
  BY Moves, TraversalStep, GlobalGrows, CallerIs DEF TraversalInv
<1>2. ASSUME NEW name \in DOMAIN TableAt(1)', NEW g, g = TableAt(1)'[name],
             NEW l, l = FirstList(g)'
      PROVE  GlobalFits(name, g, l)'
  <2>1. l = FirstList(g)
    BY <1>1, <1>2, ListsKept
  <2>2. CASE name \in DOMAIN TableAt(1)
    <3>1. g = TableAt(1)[name]
      BY <1>1, <1>2, <2>2 DEF Keeps
    <3>2. GlobalFits(name, g, l)
      BY <2>1, <2>2, <3>1, GlobalsFitIs
    <3> QED BY <2>1, <2>2, <3>1, <3>2, GlobalFitsStep DEF FramesInv
  <2>3. CASE name \notin DOMAIN TableAt(1)
    <3>1. \/ symbol(Prototype(g)) \notin Callables
          \/ /\ Begins_function /\ name = FunctionName(ast, Next_node)
      BY <1>2, <2>3, NewGlobals DEF FramesInv
    <3>2. CASE symbol(Prototype(g)) \notin Callables
      BY <1>1, <3>2, ListsKept DEF GlobalFits, Callables
    <3>3. CASE Begins_function /\ name = FunctionName(ast, Next_node)
      <4>1. Looping' /\ current_function' = name
        BY <3>3, BeginsLoop DEF FramesInv
      <4> QED BY <4>1 DEF GlobalFits
    <3> QED BY <3>1, <3>2, <3>3
  <2> QED BY <2>2, <2>3
<1>3. \A name \in DOMAIN TableAt(1)' :
        \A g : g = TableAt(1)'[name] =>
          \A l : l = FirstList(g)' => GlobalFits(name, g, l)'
  BY <1>2
<1> QED BY <1>3 DEF GlobalsFit, GlobalFits

(* When the loop is over, all parameters are there. *)
LEMMA LoopDone ==
  ASSUME TraversalInv, Next, Shaped(ast, calls), LoopFits, Looping, ~ HasNext,
         NEW l, l = Caller.node, NEW g, g = TableAt(1)[current_function]
  PROVE  Fitting(g, l, arity(l))
<1>1. /\ Fitting(g, l, Caller.next - 1) /\ Caller.next <= arity(l) + 1
  BY DEF LoopFits
<1>2. /\ arity(l) \in Nat /\ Caller.next \in Nat \ {0}
      /\ Caller.next > arity(l)
  BY LoopIs DEF HasNext
<1> DEFINE a == arity(l)
           b == Caller.next
<1>3. a \in Nat /\ b \in Nat \ {0} /\ b > a /\ b <= a + 1
  BY <1>1, <1>2
<1> HIDE DEF a, b
<1>4. b - 1 = a
  BY <1>3
<1> QED BY <1>1, <1>4 DEF a, b

DefinitionFits(g, l) ==
  /\ Agreed(g, l)
  /\ l \notin OnStack(calls) => Fitting(g, l, arity(l))

LEMMA DefinitionFitsStep ==
  ASSUME TraversalInv, DataInv, SymbolsTrue, NoGlobalParameter, Next, Silently,
         DefinitionInv, LoopFits,
         NEW f \in MetFunctions(ast, calls),
         NEW g, g = TableAt(1)[FunctionName(ast, f)], NEW l, l = child(f, 1),
         DefinitionFits(g, l)
  PROVE  DefinitionFits(g, l)' /\ g = TableAt(1)'[FunctionName(ast, f)]
<1> DEFINE name == FunctionName(ast, f)
<1>1. /\ ast' = ast /\ Keeps(TableAt(1), TableAt(1)') /\ Running
      /\ WellFormed(ast, Name) /\ ScopesInv /\ Shaped(ast, calls)
      /\ f \in DOMAIN ast /\ symbol(f) = "TOK_FUNCTION"
      /\ name \in DOMAIN TableAt(1)
      /\ info[g].fnblock # NULL \/ ParamList(ast, f) \in OnStack(calls)
      /\ semantic_errors = 0
  <2>1. Running /\ WellFormed(ast, Name) /\ ast' = ast /\ ScopesInv
    BY Moves, CallerIs
  <2>2. Placed(ast, calls, TableAt(1), info, f)
    BY DEF DefinitionInv, Silently, Defined
  <2> QED BY <2>1, <2>2, TraversalStep, GlobalGrows
       DEF Placed, MetFunctions, symbol, DefinitionInv, Silently
<1>2. g \in Declared /\ g = TableAt(1)'[name]
  BY <1>1, GlobalsDiffer DEF Keeps
<1>3. /\ l = ParamList(ast, f) /\ symbol(l) = "TOK_PARAMLIST"
      /\ symbol(f) \in Callables
  BY <1>1, ListsDiffer DEF Callables, symbol
<1>4. ASSUME l \notin OnStack(calls)
      PROVE  Fitting(g, l, arity(l)) /\ info'[g].params = info[g].params
  <2>1. Fitting(g, l, arity(l)) /\ info[g].fnblock # NULL
    BY <1>1, <1>3, <1>4 DEF DefinitionFits
  <2>2. ASSUME DeclareParam, Looping, current_function = name PROVE FALSE
    <3>1. l = Caller.node
      BY <2>2 DEF LoopFits
    <3> QED BY <1>1, <1>4, <2>2, <3>1, LoopIs
  <2>3. ASSUME DeclareParam PROVE ~ Begins_function
    BY <2>3 DEF DeclareParam, Begins_function
  <2>4. info'[g].params = info[g].params
    <3> HIDE DEF name
    <3>1. \/ info'[g].params = info[g].params
          \/ DeclareParam
      BY <1>2, <2>1, ParamsMove
    <3>2. \/ info'[g].params = info[g].params
          \/ Begins_function
          \/ DeclareParam /\ Looping /\ current_function = name
      BY <1>1, <1>2, GlobalKeeps DEF name
    <3> QED BY <2>2, <2>3, <3>1, <3>2
  <2> QED BY <2>1, <2>4
<1>5. ASSUME l \in OnStack(calls), l \notin OnStack(calls')
      PROVE  Fitting(g, l, arity(l)) /\ info'[g].params = info[g].params
  <2>1. ~ HasNext /\ l = Caller.node
    BY <1>5, StackKeeps
  <2>2. Looping
    BY <1>1, <1>3, <2>1 DEF Looping, Running
  <2>3. current_function = name
    BY <1>1, <1>3, <1>5 DEF DefinitionInv, Naming, symbol
  <2>4. Fitting(g, l, arity(l))
    BY <1>1, <2>1, <2>2, <2>3, LoopDone
  <2>5. info'[g].params = info[g].params
    BY <1>1, <2>1, GlobalKeeps DEF Begins_function, DeclareParam
  <2> QED BY <2>4, <2>5
<1>6. ASSUME l \notin OnStack(calls'), NEW q, q = arity(l)
      PROVE  Fitting(g, l, q)'
  BY <1>4, <1>5, <1>6, FittingStays
<1>7. arity(l)' = arity(l) /\ Agreed(g, l)' = Agreed(g, l)
  BY <1>1, ListsKept
<1>8. OnStack(calls)' = OnStack(calls')
  BY DEF OnStack
<1>9. DefinitionFits(g, l)'
  BY <1>6, <1>7, <1>8 DEF DefinitionFits, Fitting
<1> QED BY <1>2, <1>9

LEMMA DefinitionsFitStep ==
  ASSUME TraversalInv, DataInv, SymbolsTrue, FramesInv, Next, Silently,
         DefinitionInv, LoopFits, DefinitionsFit
  PROVE  DefinitionsFit'
<1>1. /\ ast' = ast /\ Running /\ WellFormed(ast, Name)
      /\ Shaped(ast, calls)
  BY Moves, CallerIs DEF DefinitionInv
<1>2. ASSUME NEW f \in MetFunctions(ast, calls'),
             NEW g, g = TableAt(1)'[FunctionName(ast, f)],
             NEW l, l = child(f, 1)
      PROVE  DefinitionFits(g, l)'
  <2>1. CASE f \in MetFunctions(ast, calls)
    <3>1. ASSUME NEW h, h = TableAt(1)[FunctionName(ast, f)]
          PROVE  DefinitionFits(h, l)' /\ h = TableAt(1)'[FunctionName(ast, f)]
      <4>1. DefinitionFits(h, l)
        BY <1>2, <2>1, <3>1 DEF DefinitionsFit, DefinitionFits
      <4> QED BY <1>2, <2>1, <3>1, <4>1, DefinitionFitsStep DEF FramesInv
    <3>2. g = TableAt(1)[FunctionName(ast, f)]
      BY <1>2, <3>1
    <3> QED BY <3>1, <3>2
  <2>2. CASE f \notin MetFunctions(ast, calls)
    <3>1. /\ HasNext /\ f = Next_node /\ symbol(f) = "TOK_FUNCTION"
      BY <1>1, <1>2, <2>2, MetMoves DEF MetFunctions, symbol
    <3>2. Begins_function
      BY <1>1, <3>1, FunctionBegins
    <3>3. Agreed(g, l)
      BY <1>2, <3>1, <3>2, BeginsAgreed DEF FramesInv
    <3>4. l \in OnStack(calls')
      BY <1>2, <3>1, <3>2, StackMoves
    <3>5. Agreed(g, l)' = Agreed(g, l)
      BY <1>1, ListsKept
    <3>6. OnStack(calls)' = OnStack(calls')
      BY DEF OnStack
    <3> QED BY <3>3, <3>4, <3>5, <3>6 DEF DefinitionFits
  <2> QED BY <2>1, <2>2
<1>3. /\ \A f : FunctionName(ast, f)' = FunctionName(ast, f)
      /\ \A f : child(f, 1)' = child(f, 1)
      /\ MetFunctions(ast, calls)' = MetFunctions(ast, calls')
  <2>1. /\ \A f : FunctionName(ast, f)' = FunctionName(ast, f)
        /\ \A f : child(f, 1)' = child(f, 1)
    BY <1>1, ListsKept
  <2> QED BY <1>1, <2>1 DEF MetFunctions, Path, Body
<1> QED BY <1>2, <1>3 DEF DefinitionsFit, DefinitionFits

LoopFitsAt(l, i, name, g) ==
  /\ name \in DOMAIN TableAt(1)
  /\ Fitting(g, l, i - 1)
  /\ i <= arity(l) + 1
  /\ Agreed(g, l)
  /\ \A f \in MetFunctions(ast, calls) :
       FunctionName(ast, f) = name => child(f, 1) = l

(* The next parameter. *)
LEMMA LoopGoesOn ==
  ASSUME TraversalInv, DataInv, SymbolsTrue, NoGlobalParameter, Next, Silently,
         Shaped(ast, calls), LoopFits, Looping, Passes,
         NEW l, l = Caller.node, NEW i, i = Caller.next,
         NEW name, name = current_function, NEW g, g = TableAt(1)[name]
  PROVE  LoopFitsAt(l, i + 1, name, g)' /\ g = TableAt(1)'[name]
<1> DEFINE n == Next_node
           d == declared(n)
           k == i - 1
<1>1. /\ ast' = ast /\ Keeps(TableAt(1), TableAt(1)') /\ Running /\ HasNext
      /\ WellFormed(ast, Name) /\ ScopesInv /\ DeclareParam
      /\ symbol(l) = "TOK_PARAMLIST" /\ calls' = Advanced
  <2>1. ast' = ast /\ Running /\ WellFormed(ast, Name) /\ ScopesInv
    BY Moves, CallerIs
  <2> QED BY <2>1, TraversalStep, GlobalGrows, LoopMoves DEF Passes, Looping
<1>2. /\ name \in DOMAIN TableAt(1) /\ Fitting(g, l, k) /\ Agreed(g, l)
      /\ \A f \in MetFunctions(ast, calls) :
           FunctionName(ast, f) = name => child(f, 1) = l
  BY DEF LoopFits
<1>3. /\ g \in Declared /\ g = TableAt(1)'[name] /\ name \in DOMAIN TableAt(1)'
      /\ g = GlobalSymbol(name)
  BY <1>1, <1>2, GlobalIsDeclared DEF Keeps
<1>4. /\ i \in Nat \ {0} /\ i <= arity(l) /\ arity(l) \in Nat
      /\ n = child(l, k)
  <2>1. /\ i \in Nat \ {0} /\ arity(l) \in Nat /\ Visits(l) = children(l)
        /\ arity(l) = Len(Visits(l)) /\ i <= Len(Visits(l)) /\ n = Visits(l)[i]
    BY <1>1, LoopIs DEF HasNext, Next_node
  <2>2. i - 1 + 1 = i
    BY <2>1
  <2>3. n = child(l, k)
    BY <2>1, <2>2 DEF child
  <2> QED BY <2>1, <2>3
<1>5. Symbolized(n, {"param"})
  <2> SUFFICES ASSUME ~ Symbolized(n, {"param"}) PROVE FALSE
    OBVIOUS
  <2>1. Report(1)
    BY <1>1 DEF DeclareParam
  <2> QED BY <2>1, SilentSteps
<1>6. NextParam = d
  BY <1>5 DEF NextParam
<1>7. d \in Declared'
  BY <1>1, <1>5, Symbolizes DEF DeclareParam
<1>8. info'[d].attributes = NewSymbol(n, {"param"}).attributes
  BY <1>1, <1>5 DEF DeclareParam, Extend
<1>9. info'[g].params = Append(info[g].params, d)
  BY <1>1, <1>3, <1>6, ParamAdded
<1>10. ASSUME NEW q, q = k PROVE Fitting(g, l, q + 1)'
  <2>1. q \in Nat
    BY <1>4, <1>10
  <2>2. info'[d].attributes \cap ANY
          = NewSymbol(child(l, q), {"param"}).attributes \cap ANY
    BY <1>4, <1>8, <1>10
  <2> HIDE DEF k, d
  <2> QED BY <1>2, <1>3, <1>7, <1>9, <1>10, <2>1, <2>2, FittingAdds
<1>11. ASSUME NEW q, q = i PROVE Fitting(g, l, q)'
  <2>1. i = k + 1
    BY <1>4
  <2> QED BY <1>10, <1>11, <2>1
<1>12. \A f \in MetFunctions(ast, calls') :
         FunctionName(ast, f) = name => child(f, 1) = l
  <2>1. symbol(n) # "TOK_FUNCTION"
    <3> SUFFICES ASSUME symbol(n) = "TOK_FUNCTION" PROVE FALSE
      OBVIOUS
    <3>1. Caller.node = 1
      BY <1>1, MetFromRoot DEF Callables
    <3>2. symbol(1) = "TOK_ROOT"
      BY <1>1 DEF WellFormed, symbol
    <3> QED BY <1>1, <3>1, <3>2
  <2>2. \A f \in MetFunctions(ast, calls') : f \in MetFunctions(ast, calls)
    BY <2>1, MetMoves DEF MetFunctions, symbol
  <2> QED BY <1>2, <2>2
<1>13. /\ arity(l)' = arity(l) /\ Agreed(g, l)' = Agreed(g, l)
       /\ \A f : FunctionName(ast, f)' = FunctionName(ast, f)
       /\ \A f : child(f, 1)' = child(f, 1)
  BY <1>1, ListsKept
<1>14. MetFunctions(ast, calls)' = MetFunctions(ast, calls')
  BY <1>1 DEF MetFunctions, Path, Body
<1>15. i + 1 - 1 = i /\ i + 1 <= arity(l) + 1
  BY <1>4
<1> HIDE DEF k, d
<1> QED BY <1>2, <1>3, <1>11, <1>12, <1>13, <1>14, <1>15
     DEF LoopFitsAt, Fitting

(* The first one. *)
LEMMA LoopBegins ==
  ASSUME TraversalInv, DataInv, SymbolsTrue, NoGlobalParameter, Next, Silently,
         DefinitionInv, Begins_function,
         NEW m, m = Next_node, NEW l, l = child(m, 1),
         NEW name, name = FunctionName(ast, m), NEW g, g = TableAt(1)'[name]
  PROVE  LoopFitsAt(l, 1, name, g)'
<1>1. /\ ast' = ast /\ Running /\ HasNext /\ WellFormed(ast, Name)
      /\ m \in DOMAIN ast /\ symbol(m) \in Callables
      /\ Shaped(ast, calls)
  <2>1. ast' = ast /\ Running /\ WellFormed(ast, Name)
    BY Moves, CallerIs
  <2> QED BY <2>1, Goes DEF Begins_function, DefinitionInv
<1>2. /\ name \in DOMAIN TableAt(1)' /\ Agreed(g, l)
      /\ info'[g].params = <<>>
  BY BeginsAgreed
<1>3. arity(l) \in Nat
  <2>1. l \in DOMAIN ast
    BY <1>1, FunctionDeclares DEF Callables
  <2> QED BY <1>1, <2>1, KidsFollow DEF arity, children
<1>4. Fitting(g, l, 0)'
  BY <1>2 DEF Fitting
<1>5. \A f \in MetFunctions(ast, calls') :
         FunctionName(ast, f) = name => child(f, 1) = l
  <2>1. \A f \in MetFunctions(ast, calls) : FunctionName(ast, f) # name
    BY <1>1, BeginsFresh DEF DefinitionInv, Silently
  <2> QED BY <1>1, <2>1, MetMoves
<1>6. /\ arity(l)' = arity(l) /\ Agreed(g, l)' = Agreed(g, l)
      /\ \A f : FunctionName(ast, f)' = FunctionName(ast, f)
      /\ \A f : child(f, 1)' = child(f, 1)
  BY <1>1, ListsKept
<1>7. MetFunctions(ast, calls)' = MetFunctions(ast, calls')
  BY <1>1 DEF MetFunctions, Path, Body
<1>8. 1 <= arity(l) + 1 /\ 1 - 1 = 0
  BY <1>3
<1> QED BY <1>2, <1>4, <1>5, <1>6, <1>7, <1>8 DEF LoopFitsAt, Fitting

LEMMA LoopFitsStep ==
  ASSUME TraversalInv, DataInv, SymbolsTrue, FramesInv, Next, Silently,
         DefinitionInv, LoopFits
  PROVE  LoopFits'
<1>1. /\ ast' = ast /\ Shaped(ast, calls)
      /\ Passes \/ Enters \/ Begins_function \/ Leaves
  BY Moves DEF DefinitionInv
<1>2. ASSUME Looping',
             NEW l, l = Last(calls').node, NEW i, i = Last(calls').next,
             NEW name, name = current_function', NEW g, g = TableAt(1)'[name]
      PROVE  LoopFitsAt(l, i, name, g)'
  <2>1. CASE Passes
    <3>1. /\ Looping /\ l = Caller.node /\ i = Caller.next + 1
          /\ name = current_function
      BY <1>1, <1>2, <2>1, LoopMoves
    <3>2. ASSUME NEW j, j = Caller.next, NEW h, h = TableAt(1)[name]
          PROVE  LoopFitsAt(l, j + 1, name, h)' /\ h = TableAt(1)'[name]
      BY <1>1, <2>1, <3>1, <3>2, LoopGoesOn DEF FramesInv
    <3>3. ASSUME NEW j, j = Caller.next PROVE LoopFitsAt(l, j + 1, name, g)'
      BY <1>2, <3>2, <3>3
    <3> QED BY <3>1, <3>3
  <2>2. CASE Begins_function
    <3>1. /\ name = FunctionName(ast, Next_node)
          /\ Last(calls') = Frame(child(Next_node, 1))
      BY <1>2, <2>2, BeginsLoop DEF FramesInv
    <3>2. l = child(Next_node, 1) /\ i = 1
      BY <1>2, <3>1 DEF Frame
    <3> QED BY <1>2, <2>2, <3>1, <3>2, LoopBegins DEF FramesInv
  <2>3. CASE Enters \/ Leaves
    BY <1>1, <1>2, <2>3, LoopMoves
  <2> QED BY <1>1, <2>1, <2>2, <2>3
<1> QED BY <1>2 DEF LoopFits, LoopFitsAt, Caller

-----------------------------------------------------------------------------
(* Calls.                                                                  *)

(* What is found under a name has this name. *)
LEMMA FoundIsNamed ==
  ASSUME ScopesInv, NEW n, find_symbol(n) # NULL
  PROVE  symbols[find_symbol(n)].lexinfo = n
<1>1. \A i \in LevelsWith(n) : symbols[TableAt(i)[n]].lexinfo = n
  <2> SUFFICES ASSUME NEW i \in LevelsWith(n)
               PROVE  symbols[TableAt(i)[n]].lexinfo = n
    OBVIOUS
  <2>1. /\ i \in 1..Len(symbol_stack)
        /\ TableAt(i) = TableIn(symbol_stack, i)
        /\ n \in DOMAIN TableIn(symbol_stack, i)
    BY DEF LevelsWith, TableAt, TableIn, Depth
  <2> DEFINE s == symbols[TableAt(i)[n]]
  <2>2. s = [lexinfo |-> n, block_nr |-> block_num_stack[i]]
    BY <2>1 DEF ScopesInv, Good, Sound
  <2> HIDE DEF s
  <2>3. s.lexinfo = n
    BY <2>2
  <2> QED BY <2>3 DEF s
<1>2. LevelsWith(n) # {}
  BY DEF find_symbol
<1>3. Depth \in Nat /\ LevelsWith(n) \in SUBSET (1..Depth)
  BY DEF ScopesInv, Good, Stacks, Depth, LevelsWith
<1>4. \E i \in LevelsWith(n) : \A j \in LevelsWith(n) : j <= i
  BY <1>2, <1>3, Greatest
<1> QED BY <1>1, <1>2, <1>4 DEF find_symbol

LEMMA NamesAgreeStep ==
  ASSUME TraversalInv, DataInv, Next, NamesAgree
  PROVE  NamesAgree'
<1>1. /\ ast' = ast /\ [ScopesNext]_scopeVars /\ ScopesInv
      /\ DOMAIN ast \subseteq Node /\ TraversalInv'
  BY Moves, CallerIs, TraversalStep
<1> SUFFICES ASSUME NEW n \in DOMAIN ast, symbol(n) = "TOK_IDENT",
                    symentry'[n] # NULL
             PROVE  symbols'[symentry'[n]].lexinfo = lexinfo(n)
  BY <1>1 DEF NamesAgree, symbol, lexinfo
<1>2. n \in Node /\ symentry[n] \in Declared \cup {NULL}
  BY <1>1 DEF DataInv, LinksTyped
<1>3. CASE symentry'[n] = symentry[n]
  <2>1. symentry[n] \in Declared /\ symbols[symentry[n]].lexinfo = lexinfo(n)
    BY <1>2, <1>3 DEF NamesAgree
  <2>2. symbols'[symentry[n]] = symbols[symentry[n]]
    BY <1>1, <2>1, SymbolsKept
  <2> QED BY <1>3, <2>1, <2>2
<1>4. CASE symentry'[n] # symentry[n]
  <2>1. Leaves /\ n = Caller.node
    BY <1>2, <1>4, BindingStays
  <2>2. symentry'[n] = find_symbol(lexinfo(n))
    <3>1. symentry \in [Node -> Declared \cup {NULL}]
      BY DEF DataInv, LinksTyped
    <3> QED BY <1>2, <1>4, <2>1, <3>1, BindingChanges
  <2>3. find_symbol(lexinfo(n)) \in Declared
    BY <1>1, <2>2, FoundIsDeclared
  <2>4. symbols[find_symbol(lexinfo(n))].lexinfo = lexinfo(n)
    BY <1>1, <2>2, FoundIsNamed
  <2>5. symbols'[find_symbol(lexinfo(n))] = symbols[find_symbol(lexinfo(n))]
    BY <1>1, <2>3, SymbolsKept
  <2> QED BY <2>2, <2>4, <2>5
<1> QED BY <1>3, <1>4

(* What a call is made of. *)
LEMMA CallParts ==
  ASSUME WellFormed(ast, Name), NEW n \in DOMAIN ast, symbol(n) = "TOK_CALL"
  PROVE  /\ arity(n) \in Nat \ {0} /\ symbol(child(n, 0)) = "TOK_IDENT"
         /\ child(n, 0) \in DOMAIN ast
         /\ \A i \in 0..arity(n) - 1 :
              /\ child(n, i) \in DOMAIN ast
              /\ symbol(child(n, i)) \in Expression
              /\ \E k \in 1..Len(Path(ast, n)) : child(n, i) = Path(ast, n)[k]
<1> DEFINE s == ast[n].children
<1>1. /\ Built(ast, n) /\ ast[n].symbol = "TOK_CALL" /\ s \in Seq(DOMAIN ast)
  BY KidsFollow DEF WellFormed, symbol
<1>2. /\ Path(ast, n) = s /\ 1 \in 1..Len(s) /\ arity(n) = Len(s)
      /\ child(n, 0) \in DOMAIN ast
  BY PathOperands DEF arity, children
<1>3. /\ ast[s[1]].symbol = "TOK_IDENT"
      /\ \A i \in DOMAIN s : ast[s[i]].symbol \in Expression
  BY <1>1, <1>2 DEF Built, Expression, NoOperand
<1>4. symbol(child(n, 0)) = "TOK_IDENT"
  BY <1>3 DEF symbol, child, children
<1>5. ASSUME NEW i \in 0..arity(n) - 1
      PROVE  /\ child(n, i) \in DOMAIN ast
             /\ symbol(child(n, i)) \in Expression
             /\ \E k \in 1..Len(Path(ast, n)) : child(n, i) = Path(ast, n)[k]
  <2>1. i + 1 \in 1..Len(s) /\ child(n, i) = s[i + 1]
    <3>1. child(n, i) = s[i + 1]
      BY DEF child, children
    <3> HIDE DEF s
    <3> QED BY <1>1, <1>2, <3>1
  <2> HIDE DEF s
  <2> QED BY <1>1, <1>2, <1>3, <2>1 DEF symbol
<1>6. arity(n) \in Nat \ {0}
  <2> HIDE DEF s
  <2> QED BY <1>1, <1>2
<1> QED BY <1>2, <1>4, <1>5, <1>6

(* The arguments of a call fit the parameters in a list. *)
Fits(c, l) ==
  /\ arity(c) - 1 = arity(l)
  /\ \A i \in 1..arity(c) - 1 :
       Compatible(get_node_attributes(child(c, i)),
                  NewSymbol(child(l, i - 1), {"param"}).attributes)

(* They fit every list that agrees with it. *)
LEMMA FitsSame ==
  ASSUME NEW c, NEW l, NEW m, Fits(c, l), SameLists(l, m), arity(l) \in Nat
  PROVE  Fits(c, m)
<1>1. arity(c) - 1 = arity(l) /\ arity(m) = arity(l)
  BY DEF Fits, SameLists
<1>2. ASSUME NEW i \in 1..arity(l)
      PROVE  Compatible(get_node_attributes(child(c, i)),
                        NewSymbol(child(m, i - 1), {"param"}).attributes)
  <2>1. i - 1 \in 0..arity(l) - 1
    OBVIOUS
  <2>2. SameType(child(l, i - 1), child(m, i - 1))
    BY <2>1 DEF SameLists
  <2>3. NewSymbol(child(l, i - 1), {"param"}).attributes \cap ANY
          = NewSymbol(child(m, i - 1), {"param"}).attributes \cap ANY
    BY <2>2, SameTypes
  <2>4. Compatible(get_node_attributes(child(c, i)),
                   NewSymbol(child(l, i - 1), {"param"}).attributes)
    BY <1>1 DEF Fits
  <2> QED BY <2>3, <2>4, ComparesAny
<1> QED BY <1>1, <1>2 DEF Fits

(* They go on to do so. *)
LEMMA FitsStays ==
  ASSUME TraversalInv, DataInv, Next, SymbolsTrue,
         NEW c \in DOMAIN ast, symbol(c) = "TOK_CALL", NEW l, Fits(c, l),
         \A i \in 0..arity(c) - 1 :
           WellTyped(child(c, i)) /\ ~ (Leaves /\ child(c, i) = Caller.node)
  PROVE  Fits(c, l)'
<1>1. ast' = ast /\ WellFormed(ast, Name)
  BY Moves, CallerIs
<1>2. arity(c) \in Nat \ {0}
  BY <1>1, CallParts
<1>3. \A i \in 1..arity(c) - 1 :
        Compatible(get_node_attributes(child(c, i)),
                   NewSymbol(child(l, i - 1), {"param"}).attributes)
  BY DEF Fits
<1>4. ASSUME NEW i \in 1..arity(c) - 1, NEW d, d = child(c, i)
      PROVE  get_node_attributes(d)' = get_node_attributes(d)
  <2>1. i \in 0..arity(c) - 1
    BY <1>2
  <2> QED BY <1>1, <1>4, <2>1, CallParts, AttributesStay
<1>5. /\ arity(c)' = arity(c) /\ arity(l)' = arity(l)
      /\ \A i : child(c, i)' = child(c, i)
      /\ \A i : NewSymbol(child(l, i - 1), {"param"})'
                  = NewSymbol(child(l, i - 1), {"param"})
  BY <1>1 DEF NewSymbol, base_type, IsArray, symbol, child, children, lexinfo,
              arity
<1>6. \A i \in 1..arity(c) - 1 :
        get_node_attributes(child(c, i))' = get_node_attributes(child(c, i))
  <2> SUFFICES ASSUME NEW i \in 1..arity(c) - 1
               PROVE  get_node_attributes(child(c, i))'
                        = get_node_attributes(child(c, i))
    OBVIOUS
  <2>1. PICK d : d = child(c, i)
    OBVIOUS
  <2>2. get_node_attributes(d)' = get_node_attributes(d)
    BY <1>4, <2>1
  <2>3. child(c, i)' = d
    BY <1>5, <2>1
  <2> QED BY <2>1, <2>2, <2>3
<1>7. arity(c) - 1 = arity(l)
  BY DEF Fits
<1>8. \A i \in 1..arity(c) - 1 :
        Compatible(get_node_attributes(child(c, i))',
                   NewSymbol(child(l, i - 1), {"param"})'.attributes)
  BY <1>3, <1>5, <1>6
<1> QED BY <1>5, <1>7, <1>8 DEF Fits, Compatible

(* Whatever fits the parameters of a symbol fits a list that they fit. *)
LEMMA CallFits ==
  ASSUME TraversalInv, DataInv, CrashInv, SymbolsTrue, LeaveCall, Next,
         Silently,
         NEW n, n = Caller.node,
         NEW g, g = symentry[child(n, 0)], g # NULL,
         NEW l, Fitting(g, l, arity(l))
  PROVE  Fits(n, l)
<1> DEFINE ps == info[g].params
           params == CallParams(n)
           args == CallArgs(n)
           res == CallResult(n)
           m == arity(n) - 1
<1>1. /\ Running /\ symbol(n) = "TOK_CALL" /\ WellFormed(ast, Name)
      /\ n \in DOMAIN ast /\ DOMAIN ast \subseteq Node
  BY CallerIs DEF LeaveCall, Returning
<1>2. /\ child(n, 0) \in Node /\ arity(n) \in Nat \ {0}
  BY <1>1, CallParts
<1>3. ~ CallBroken(n)
  BY <1>2, BrokenHasNull DEF DataInv, CrashInv, Silently
<1>4. Tell(res)
  BY <1>3 DEF LeaveCall, CallResult, CallParams, CallArgs, CallBroken
<1>5. res.ok
  BY <1>4, SilentSteps
<1>6. ps \in Seq(Node \cup {NULL}) /\ Len(ps) = arity(l)
  <2>1. g \in Declared
    BY <1>2 DEF DataInv, LinksTyped
  <2>2. info[g] \in Symbol
    BY <2>1 DEF DataInv, InfoTyped, Known
  <2> QED BY <2>2, SymbolFields DEF Fitting
<1>7. /\ m \in Nat /\ params = [i \in DOMAIN ps |-> IF ps[i] = NULL THEN {}
                                          ELSE info[ps[i]].attributes]
      /\ args = [i \in 1..m |-> get_node_attributes(child(n, i))]
  BY <1>2 DEF CallParams, CallArgs
<1>8. Len(params) = Len(ps) /\ Len(args) = m /\ DOMAIN args = 1..m
  <2> HIDE DEF ps, m
  <2> QED BY <1>6, <1>7
<1>9. res = attr_handle_call(info[g].attributes, info[g].type_name,
                             params, args)
  BY DEF CallResult
<1> HIDE DEF ps, params, args, res, m
<1>10. Len(args) = Len(params)
  <2> SUFFICES ASSUME Len(args) # Len(params) PROVE FALSE
    OBVIOUS
  <2>1. res = Result({}, NULL, Complain)
    BY <1>9 DEF attr_handle_call
  <2>2. ~ Complain.ok
    BY DEF Complain
  <2> QED BY <1>5, <2>1, <2>2, ResultIs
<1>11. m = arity(l)
  BY <1>6, <1>8, <1>10
<1>12. \A i \in 1..m : attr_compare_params(args[i], params[i]).ok
  <2> DEFINE cs == [i \in DOMAIN args |->
                      attr_compare_params(args[i], params[i])]
             a == (info[g].attributes \cup {"vreg"}) \ {"function"}
  <2>1. res = Result(a, info[g].type_name, All(cs))
    BY <1>9, <1>10 DEF attr_handle_call
  <2> HIDE DEF cs, a
  <2>2. All(cs).ok
    BY <1>5, <2>1, ResultIs
  <2>3. \A i \in DOMAIN cs : cs[i].ok
    BY <2>2 DEF All
  <2> QED BY <1>8, <2>3 DEF cs
<1>13. ASSUME NEW i \in 1..m
       PROVE  Compatible(get_node_attributes(child(n, i)),
                         NewSymbol(child(l, i - 1), {"param"}).attributes)
  <2>1. attr_compare_params(args[i], params[i]).ok
    BY <1>12
  <2>2. Compatible(args[i], params[i])
    <3> DEFINE c1 == attr_check_compatible(args[i], params[i])
               c2 == attr_check_any(args[i], ANY)
    <3>1. All(<<c1, c2>>).ok
      BY <2>1 DEF attr_compare_params
    <3> HIDE DEF c1, c2
    <3>2. c1.ok
      BY <3>1, AllHold
    <3> USE DEF c1
    <3> QED BY <3>2, CompatibleHolds
  <2>3. args[i] = get_node_attributes(child(n, i))
    BY <1>7
  <2>4. /\ ps[i] \in Declared
        /\ info[ps[i]].attributes \cap ANY
             = NewSymbol(child(l, i - 1), {"param"}).attributes \cap ANY
    BY <1>11 DEF Fitting, ps
  <2>5. ps[i] # NULL
    BY <2>4, NullAssumption DEF DataInv, InfoTyped, Known
  <2>6. i \in DOMAIN ps
    BY <1>6, <1>11
  <2>7. params[i] = info[ps[i]].attributes
    BY <1>7, <2>5, <2>6
  <2> QED BY <2>2, <2>3, <2>4, <2>7, ComparesAny
<1> QED BY <1>11, <1>13 DEF Fits, m

(* A call fits the first list that its symbol was declared with, and that  *)
(* of every definition of it that was met before.                          *)
CallFitsSymbol(c, name, g) ==
  symentry[child(c, 0)] = g =>
    /\ symbol(Prototype(g)) \in Callables => Fits(c, FirstList(g))
    /\ \A f \in MetFunctions(ast, calls) :
         FunctionName(ast, f) = name /\ f < c => Fits(c, child(f, 1))

CallRight(c) ==
  symbol(c) = "TOK_CALL" =>
    \A name \in DOMAIN TableAt(1) : CallFitsSymbol(c, name, TableAt(1)[name])

(* A call that is left without an error. *)
LEMMA CallIsRight ==
  ASSUME TraversalInv, DataInv, CrashInv, SymbolsTrue, DefinitionInv, Next,
         Leaves, Silently, GlobalsFit, DefinitionsFit,
         NEW c, c = Caller.node, symbol(c) = "TOK_CALL"
  PROVE  CallRight(c)
<1>1. /\ Running /\ WellFormed(ast, Name) /\ c \in DOMAIN ast /\ ~ HasNext
      /\ calls \in Seq(Frames(ast)) /\ calls # <<>> /\ ScopesInv
      /\ Caller = calls[Len(calls)] /\ Shaped(ast, calls)
  BY Moves, CallerIs DEF Leaves, DefinitionInv
<1>2. LeaveCall
  BY <1>1 DEF Next, VisitDeclaration, VisitVoid, VisitStruct, VisitFunction,
     DeclareParam, EndParams, EndFunction, VisitNode, LeaveIdent,
     LeaveSelector, LeaveAllocator, LeaveNode, Visiting, Returning
<1>3. ~ Looping
  BY DEF Looping
<1>4. \A m \in OnStack(calls) : symbol(m) # "TOK_PARAMLIST"
  <2>1. OnStack(calls) = OnStack(Front(calls)) \cup {c}
    BY <1>1, PoppedStack
  <2>2. \A m \in OnStack(Front(calls)) : symbol(m) # "TOK_PARAMLIST"
    BY <1>1, ShapedPopped DEF symbol
  <2> QED BY <2>1, <2>2
<1> SUFFICES ASSUME NEW name \in DOMAIN TableAt(1),
                    NEW g, g = TableAt(1)[name], symentry[child(c, 0)] = g
             PROVE  /\ symbol(Prototype(g)) \in Callables
                         => Fits(c, FirstList(g))
                    /\ \A f \in MetFunctions(ast, calls) :
                         FunctionName(ast, f) = name => Fits(c, child(f, 1))
  BY DEF CallRight, CallFitsSymbol
<1>5. g # NULL
  <2>1. g \in Declared
    BY <1>1, GlobalsDiffer
  <2> QED BY <2>1, NullAssumption DEF DataInv, InfoTyped, Known
<1>6. ASSUME symbol(Prototype(g)) \in Callables PROVE Fits(c, FirstList(g))
  <2>1. Fitting(g, FirstList(g), arity(FirstList(g)))
    BY <1>3, <1>6 DEF GlobalsFit
  <2> QED BY <1>2, <1>5, <2>1, CallFits
<1>7. ASSUME NEW f \in MetFunctions(ast, calls), FunctionName(ast, f) = name
      PROVE  Fits(c, child(f, 1))
  <2>1. f \in DOMAIN ast /\ symbol(f) = "TOK_FUNCTION"
    BY DEF MetFunctions, symbol
  <2>2. symbol(child(f, 1)) = "TOK_PARAMLIST"
    BY <1>1, <2>1, FunctionDeclares
  <2>3. Fitting(g, child(f, 1), arity(child(f, 1)))
    BY <1>4, <1>7, <2>2 DEF DefinitionsFit
  <2> QED BY <1>2, <1>5, <2>3, CallFits
<1> QED BY <1>6, <1>7

LEMMA CallStays ==
  ASSUME TraversalInv, DataInv, SymbolsTrue, Next, Shaped(ast, calls),
         FramesInv, NEW c \in DOMAIN ast, CallRight(c),
         HasNext => c < Next_node,
         symbol(c) = "TOK_CALL" =>
           \A i \in 0..arity(c) - 1 :
             WellTyped(child(c, i)) /\ ~ (Leaves /\ child(c, i) = Caller.node)
  PROVE  CallRight(c)'
<1>1. /\ ast' = ast /\ WellFormed(ast, Name) /\ DOMAIN ast \subseteq Node
      /\ DOMAIN ast \subseteq Nat /\ symbol(c)' = symbol(c) /\ ScopesInv
      /\ Keeps(TableAt(1), TableAt(1)')
  <2>1. /\ ast' = ast /\ WellFormed(ast, Name) /\ DOMAIN ast \subseteq Node
        /\ ScopesInv
    BY Moves, CallerIs
  <2> QED BY <2>1, TraversalStep, GlobalGrows, SameTree DEF WellFormed
<1>2. ASSUME symbol(c) # "TOK_CALL" PROVE CallRight(c)'
  BY <1>1, <1>2 DEF CallRight
<1>3. ASSUME symbol(c) = "TOK_CALL",
             NEW name \in DOMAIN TableAt(1)', NEW g, g = TableAt(1)'[name]
      PROVE  CallFitsSymbol(c, name, g)'
  <2>1. PICK d : d = child(c, 0)
    OBVIOUS
  <2>2. /\ d \in DOMAIN ast /\ symbol(d) = "TOK_IDENT" /\ child(c, 0)' = d
        /\ 0 \in 0..arity(c) - 1
    BY <1>1, <1>3, <2>1, CallParts, SameTree
  <2>3. symentry'[d] = symentry[d] /\ symentry[d] \in Declared \cup {NULL}
    <3>1. ~ (Leaves /\ d = Caller.node)
      BY <1>3, <2>1, <2>2
    <3> QED BY <1>1, <2>2, <3>1, BindingStays DEF DataInv, LinksTyped
  <2>4. CASE name \notin DOMAIN TableAt(1)
    <3>1. g \in Declared' /\ g \notin Declared
      BY <1>3, <2>4, NewGlobals DEF FramesInv
    <3>2. g # NULL
      <4>1. Declared' \subseteq Node
        BY InfoStep DEF InfoTyped, Known
      <4> QED BY <3>1, <4>1, NullAssumption
    <3>3. symentry'[d] # g
      BY <2>3, <3>1, <3>2
    <3> QED BY <2>2, <3>3 DEF CallFitsSymbol
  <2>5. CASE name \in DOMAIN TableAt(1) /\ symentry'[d] = g
    <3>1. g = TableAt(1)[name] /\ symentry[child(c, 0)] = g
      BY <1>1, <1>3, <2>1, <2>3, <2>5 DEF Keeps
    <3>2. CallFitsSymbol(c, name, g)
      BY <1>3, <2>5, <3>1 DEF CallRight
    <3>3. \A l : Fits(c, l) => Fits(c, l)'
      BY <1>3, FitsStays
    <3>4. PICK l : l = FirstList(g)
      OBVIOUS
    <3>5. /\ symbol(Prototype(g))' = symbol(Prototype(g))
          /\ FirstList(g)' = l
      BY <1>1, <3>4, ListsKept
    <3>6. symbol(Prototype(g)) \in Callables => Fits(c, l)'
      BY <3>1, <3>2, <3>3, <3>4 DEF CallFitsSymbol
    <3>7. ASSUME NEW f \in MetFunctions(ast, calls'),
                 FunctionName(ast, f) = name, f < c,
                 NEW m, m = child(f, 1)
          PROVE  Fits(c, m)'
      <4>1. f \in DOMAIN ast
        BY <1>1, <3>7 DEF MetFunctions
      <4>2. ~ (HasNext /\ f = Next_node)
        <5>1. f \in Nat /\ c \in Nat
          BY <1>1, <4>1
        <5>2. ~ (c < f)
          BY <3>7, <5>1
        <5> QED BY <5>2
      <4>3. f \in MetFunctions(ast, calls)
        BY <3>7, <4>1, <4>2, MetMoves
      <4> QED BY <3>1, <3>2, <3>3, <3>7, <4>3 DEF CallFitsSymbol
    <3>8. /\ \A f : FunctionName(ast, f)' = FunctionName(ast, f)
          /\ \A f : child(f, 1)' = child(f, 1)
      BY <1>1, ListsKept
    <3>9. MetFunctions(ast, calls)' = MetFunctions(ast, calls')
      BY <1>1 DEF MetFunctions, Path, Body
    <3> QED BY <3>5, <3>6, <3>7, <3>8, <3>9
         DEF CallFitsSymbol, Fits, Callables
  <2>6. CASE symentry'[d] # g
    BY <2>2, <2>6 DEF CallFitsSymbol
  <2> QED BY <2>4, <2>5, <2>6
<1>4. ASSUME symbol(c) = "TOK_CALL" PROVE CallRight(c)'
  BY <1>3, <1>4 DEF CallRight, CallFitsSymbol
<1> QED BY <1>2, <1>4

Called(S) == \A c \in S : CallRight(c)

(* The pass is done with the arguments of a call that it is done with.     *)
LEMMA ArgumentsDone ==
  ASSUME TraversalInv, Running, NEW S \in SUBSET DOMAIN ast,
         Covered(S), Returned(S), NEW c \in DOMAIN ast, symbol(c) = "TOK_CALL",
         c \in S \/ (~ HasNext /\ c = Caller.node)
  PROVE  \A i \in 0..arity(c) - 1 :
           WellTyped(child(c, i)) /\ child(c, i) # Caller.node
<1>1. /\ WellFormed(ast, Name) /\ calls \in Seq(Frames(ast)) /\ calls # <<>>
      /\ Caller = calls[Len(calls)]
  BY CallerIs
<1>2. Caller.node \in OnStack(calls)
  <2>1. Len(calls) \in 1..Len(calls)
    BY <1>1
  <2> QED BY <1>1, <2>1 DEF OnStack
<1>3. \A k \in 1..Len(Path(ast, c)) : Path(ast, c)[k] \in S
  <2>1. CASE c \in S
    <3>1. symbol(c) \notin PassedOver
      BY DEF PassedOver, VariableTypes, TypeName, Callables
    <3> QED BY <2>1, <3>1 DEF Covered
  <2>2. CASE ~ HasNext /\ c = Caller.node
    BY <2>2, LeftIsMet DEF Covered
  <2> QED BY <2>1, <2>2
<1>4. \A i \in 0..arity(c) - 1 : child(c, i) \in S
  BY <1>1, <1>3, CallParts
<1> QED BY <1>2, <1>4 DEF Covered, Returned, Past

LEMMA CalledStep ==
  ASSUME TraversalInv, DataInv, CrashInv, SymbolsTrue, DefinitionInv,
         FramesInv, Next, Silently, GlobalsFit, DefinitionsFit,
         NEW S \in SUBSET DOMAIN ast, Covered(S), Returned(S), Called(S),
         NEW v, v = Next_node, NEW c, c = Caller.node
  PROVE  /\ Passes => Called(S \cup {v})'
         /\ Enters \/ Begins_function => Called(S)'
         /\ Leaves => Called(S \cup {c})'
<1>1. /\ Running /\ ast' = ast /\ WellFormed(ast, Name) /\ Shaped(ast, calls)
      /\ calls \in Seq(Frames(ast)) /\ calls # <<>> /\ c \in DOMAIN ast
  BY Moves, CallerIs DEF DefinitionInv
<1>2. \A n \in S : HasNext => n < v
  <2> SUFFICES ASSUME NEW n \in S, HasNext PROVE n < v
    OBVIOUS
  <2> DEFINE k == Len(calls)
  <2>1. /\ k \in 1..k /\ calls[k].next \in Nat \ {0}
        /\ v = Path(ast, calls[k].node)[calls[k].next]
        /\ calls[k].next <= Len(Path(ast, calls[k].node))
    BY <1>1, AdvancedIs
  <2>2. Behind(ast, calls, n)
    BY DEF Returned, Past
  <2>3. v \in Todo(ast, calls[k])
    <3>1. Path(ast, calls[k].node) \in Seq(DOMAIN ast)
      <4>1. calls[k].node \in DOMAIN ast
        BY <1>1, CallerIs
      <4> QED BY <1>1, <4>1, PathFollows
    <3> DEFINE i == calls[k].next
               p == Path(ast, calls[k].node)
    <3>2. Len(p) \in Nat /\ i \in Nat /\ i <= Len(p)
      BY <2>1, <3>1
    <3> HIDE DEF i, p
    <3>3. i \in i..Len(p)
      BY <3>2
    <3> QED BY <2>1, <3>3 DEF Todo, i, p
  <2> QED BY <2>1, <2>2, <2>3 DEF Behind
<1>3. \A n \in S : CallRight(n)'
  <2> SUFFICES ASSUME NEW n \in S PROVE CallRight(n)'
    OBVIOUS
  <2>1. symbol(n) = "TOK_CALL" =>
          \A i \in 0..arity(n) - 1 :
            WellTyped(child(n, i)) /\ child(n, i) # Caller.node
    BY <1>1, ArgumentsDone
  <2> QED BY <1>1, <1>2, <2>1, CallStays DEF Called
<1>4. Passes => CallRight(v)'
  <2> SUFFICES ASSUME Passes PROVE CallRight(v)'
    OBVIOUS
  <2>1. symbol(v) # "TOK_CALL"
    BY DEF Passes, PassedOver, VariableTypes, TypeName, Callables
  <2>2. symbol(v)' = symbol(v)
    BY <1>1, SameTree
  <2> QED BY <2>1, <2>2 DEF CallRight
<1>5. Leaves => CallRight(c)'
  <2> SUFFICES ASSUME Leaves PROVE CallRight(c)'
    OBVIOUS
  <2>1. ~ HasNext
    BY DEF Leaves
  <2>2. CASE symbol(c) = "TOK_CALL"
    <3>1. CallRight(c)
      BY <2>2, CallIsRight
    <3>2. \A i \in 0..arity(c) - 1 :
            WellTyped(child(c, i)) /\ child(c, i) # Caller.node
      BY <1>1, <2>1, <2>2, ArgumentsDone
    <3> QED BY <1>1, <2>1, <3>1, <3>2, CallStays
  <2>3. CASE symbol(c) # "TOK_CALL"
    <3>1. symbol(c)' = symbol(c)
      BY <1>1, SameTree
    <3> QED BY <2>3, <3>1 DEF CallRight
  <2> QED BY <2>2, <2>3
<1> QED BY <1>3, <1>4, <1>5 DEF Called

(* Until the first error, the lists of parameters, the symbols and the     *)
(* calls that the pass is done with fit each other.                        *)
CallInv ==
  /\ NamesAgree
  /\ semantic_errors = 0 =>
       /\ GlobalsFit /\ DefinitionsFit /\ LoopFits
       /\ \E S \in SUBSET DOMAIN ast : Covered(S) /\ Returned(S) /\ Called(S)

LEMMA CallStep ==
  TraversalInv /\ DataInv /\ CrashInv /\ DefinitionInv /\ CoverInv
    /\ ReturnInv /\ CallInv /\ [Next]_vars => CallInv'
<1> SUFFICES ASSUME TraversalInv, DataInv, CrashInv, DefinitionInv, CoverInv,
                    ReturnInv, CallInv, [Next]_vars
             PROVE  CallInv'
  OBVIOUS
<1>1. CASE Next
  <2>1. NamesAgree'
    BY <1>1, NamesAgreeStep DEF CallInv
  <2>2. ast' = ast
    BY <1>1, Moves
  <2>3. ASSUME semantic_errors' = 0
        PROVE  /\ GlobalsFit' /\ DefinitionsFit' /\ LoopFits'
               /\ \E T \in SUBSET DOMAIN ast :
                    Covered(T)' /\ Returned(T)' /\ Called(T)'
    <3>1. semantic_errors = 0
      <4>1. /\ semantic_errors \in Nat
            /\ semantic_errors' >= semantic_errors
        BY <1>1, StepCounts DEF Counting, DataInv, CountsTyped
      <4> QED BY <2>3, <4>1
    <3>2. PICK S \in SUBSET DOMAIN ast :
            Covered(S) /\ Returned(S) /\ Called(S)
      BY <3>1 DEF CallInv
    <3>3. /\ SymbolsTrue /\ Shaped(ast, calls) /\ Silently /\ FramesInv
          /\ GlobalsFit /\ DefinitionsFit /\ LoopFits
      BY <2>3, <3>1 DEF CoverInv, DefinitionInv, Silently, ReturnInv, CallInv
    <3>4. PICK v, c : v = Next_node /\ c = Caller.node
      OBVIOUS
    <3>5. Passes \/ Enters \/ Begins_function \/ Leaves
      BY <1>1, Moves
    <3>6. /\ Passes => v \in DOMAIN ast /\ Covered(S \cup {v})'
          /\ Enters \/ Begins_function => Covered(S)'
          /\ Leaves => c \in DOMAIN ast /\ Covered(S \cup {c})'
      BY <1>1, <3>2, <3>3, <3>4, CoveredStep
    <3>7. /\ Passes => Returned(S \cup {v})'
          /\ Enters \/ Begins_function => Returned(S)'
          /\ Leaves => Returned(S \cup {c})'
      BY <1>1, <3>2, <3>3, <3>4, ReturnedStep
    <3>8. /\ Passes => Called(S \cup {v})'
          /\ Enters \/ Begins_function => Called(S)'
          /\ Leaves => Called(S \cup {c})'
      BY <1>1, <3>2, <3>3, <3>4, CalledStep
    <3>9. GlobalsFit' /\ DefinitionsFit' /\ LoopFits'
      BY <1>1, <3>3, GlobalsFitStep, DefinitionsFitStep, LoopFitsStep
    <3>10. ASSUME Passes
           PROVE  \E T \in SUBSET DOMAIN ast :
                    Covered(T)' /\ Returned(T)' /\ Called(T)'
      <4> DEFINE T == S \cup {v}
      <4>1. T \in SUBSET DOMAIN ast /\ Covered(T)' /\ Returned(T)' /\ Called(T)'
        BY <3>6, <3>7, <3>8, <3>10
      <4> QED BY <4>1
    <3>11. ASSUME Leaves
           PROVE  \E T \in SUBSET DOMAIN ast :
                    Covered(T)' /\ Returned(T)' /\ Called(T)'
      <4> DEFINE T == S \cup {c}
      <4>1. T \in SUBSET DOMAIN ast /\ Covered(T)' /\ Returned(T)' /\ Called(T)'
        BY <3>6, <3>7, <3>8, <3>11
      <4> QED BY <4>1
    <3> QED BY <3>5, <3>6, <3>7, <3>8, <3>9, <3>10, <3>11
  <2> QED BY <2>1, <2>2, <2>3 DEF CallInv
<1>2. CASE UNCHANGED vars
  <2>1. /\ ast' = ast /\ calls' = calls /\ attributes' = attributes
        /\ type_name' = type_name /\ info' = info /\ member' = member
        /\ semantic_errors' = semantic_errors /\ symentry' = symentry
        /\ symbols' = symbols /\ symbol_stack' = symbol_stack
        /\ current_function' = current_function
    BY <1>2 DEF vars, semVars, scopeVars
  <2>2. ASSUME NEW n
        PROVE  /\ WellTyped(n)' = WellTyped(n) /\ Ready(n)' = Ready(n)
               /\ FunctionReady(n)' = FunctionReady(n)
               /\ ReturnRight(n) => ReturnRight(n)'
               /\ FunctionTyped(n)' = FunctionTyped(n)
    <3>1. WellTyped(n)' = WellTyped(n)
      BY <2>1 DEF WellTyped, VoidArray, symbol, child, children
    <3>2. Ready(n)' = Ready(n)
      BY <2>1 DEF Ready, Declaration, Type, declared, IsArray, symbol, child,
                  children, arity
    <3>3. FunctionReady(n)' = FunctionReady(n)
      BY <2>1 DEF FunctionReady, declared, IsArray, symbol, child, children,
                  lexinfo, Declared
    <3>4. ReturnRight(n) => ReturnRight(n)'
      <4>1. get_node_attributes(child(n, 0))' = get_node_attributes(child(n, 0))
        BY <2>1 DEF get_node_attributes, child, children, symbol, Entry
      <4> QED BY <2>1, <4>1, ReturnKept
    <3>5. FunctionTyped(n)' = FunctionTyped(n)
      BY <2>1 DEF FunctionTyped, FunctionName, declared, symbol, child,
                  children, NewSymbol, base_type, IsArray, lexinfo, TableAt
    <3> QED BY <3>1, <3>2, <3>3, <3>4, <3>5
  <2>3. ASSUME NEW S, Covered(S), Returned(S), Called(S)
        PROVE  Covered(S)' /\ Returned(S)' /\ Called(S)'
    <3>1. Covered(S)'
      BY <2>1, <2>2, <2>3 DEF Covered, symbol
    <3>2. Past(ast, calls, S)' = Past(ast, calls, S)
      BY <2>1 DEF Past, Behind, Todo, Path, Body, OnStack, Kids
    <3>3. OnStack(calls)' = OnStack(calls)
      BY <2>1 DEF OnStack
    <3>4. ASSUME NEW c, NEW l, Fits(c, l) PROVE Fits(c, l)'
      <4>1. \A i : get_node_attributes(child(c, i))'
                    = get_node_attributes(child(c, i))
        BY <2>1 DEF get_node_attributes, child, children, symbol, Entry
      <4>2. \A i : NewSymbol(child(l, i - 1), {"param"})'
                    = NewSymbol(child(l, i - 1), {"param"})
        BY <2>1 DEF NewSymbol, base_type, IsArray, symbol, child, children,
                    lexinfo
      <4>3. arity(c)' = arity(c) /\ arity(l)' = arity(l)
        BY <2>1 DEF arity, children
      <4> QED BY <3>4, <4>1, <4>2, <4>3 DEF Fits, Compatible
    <3>5. /\ TableAt(1)' = TableAt(1)
          /\ MetFunctions(ast, calls)' = MetFunctions(ast, calls)
          /\ \A n : symbol(n)' = symbol(n)
          /\ \A n : symentry[child(n, 0)]' = symentry[child(n, 0)]
          /\ \A n : child(n, 1)' = child(n, 1)
          /\ \A n : FunctionName(ast, n)' = FunctionName(ast, n)
      BY <2>1 DEF TableAt, MetFunctions, Path, Body, symbol, child, children,
         FunctionName
    <3>6. ASSUME NEW c, NEW name, NEW g, CallFitsSymbol(c, name, g)
          PROVE  CallFitsSymbol(c, name, g)'
      <4>1. PICK l : l = FirstList(g)
        OBVIOUS
      <4>2. /\ FirstList(g)' = l
            /\ symbol(Prototype(g))' = symbol(Prototype(g))
        BY <2>1, <4>1, ListsKept
      <4>3. symbol(Prototype(g)) \in Callables /\ symentry[child(c, 0)] = g
              => Fits(c, l)'
        BY <3>4, <3>6, <4>1 DEF CallFitsSymbol
      <4>4. ASSUME NEW f \in MetFunctions(ast, calls),
                   FunctionName(ast, f) = name, f < c,
                   symentry[child(c, 0)] = g, NEW m, m = child(f, 1)
            PROVE  Fits(c, m)'
        BY <3>4, <3>6, <4>4 DEF CallFitsSymbol
      <4> QED BY <3>5, <4>2, <4>3, <4>4 DEF CallFitsSymbol, Fits, Callables
    <3>7. Called(S)'
      <4> SUFFICES ASSUME NEW c \in S, symbol(c) = "TOK_CALL",
                          NEW name \in DOMAIN TableAt(1),
                          NEW g, g = TableAt(1)'[name]
                   PROVE  CallFitsSymbol(c, name, g)'
        BY <3>5 DEF Called, CallRight, CallFitsSymbol
      <4>1. CallFitsSymbol(c, name, g)
        BY <2>3, <3>5 DEF Called, CallRight
      <4> QED BY <3>6, <4>1
    <3> QED BY <2>2, <2>3, <3>1, <3>2, <3>3, <3>7 DEF Returned
  <2>4. NamesAgree' = NamesAgree
    BY <2>1 DEF NamesAgree, symbol, lexinfo
  <2>5. /\ GlobalsFit' = GlobalsFit
    BY <2>1 DEF GlobalsFit, Looping, Caller, Fitting, FirstList, Prototype,
       parent, symbol, child, children, arity, lexinfo, NewSymbol, base_type,
       IsArray, TableAt, Declared
  <2>6. DefinitionsFit' = DefinitionsFit
    BY <2>1 DEF DefinitionsFit, Fitting, FirstList, Prototype, Agreed,
       SameLists, SameType, OnStack, MetFunctions, Path, Body, FunctionName,
       parent, symbol, child, children, arity, lexinfo, NewSymbol, base_type,
       IsArray, TableAt, Declared
  <2>7. LoopFits' = LoopFits
    BY <2>1 DEF LoopFits, Looping, Caller, Fitting, FirstList, Prototype,
       Agreed, SameLists, SameType, MetFunctions, Path, Body, FunctionName,
       parent, symbol, child, children, arity, lexinfo, NewSymbol, base_type,
       IsArray, TableAt, Declared
  <2> QED BY <2>1, <2>3, <2>4, <2>5, <2>6, <2>7 DEF CallInv
<1> QED BY <1>1, <1>2

LEMMA CallInit == Init => CallInv
<1> SUFFICES ASSUME Init PROVE CallInv
  OBVIOUS
<1>1. calls = <<Frame(1)>> /\ WellFormed(ast, Name)
  BY Tree DEF Init
<1>2. /\ Len(calls) = 1 /\ calls[1].node = 1 /\ calls[1].next = 1
      /\ calls # <<>> /\ Caller = calls[1]
  BY <1>1 DEF Frame, Caller, Last
<1>3. 1 \in DOMAIN ast /\ symbol(1) = "TOK_ROOT"
  BY <1>1 DEF WellFormed, symbol
<1>4. NamesAgree
  <2>1. symentry = [n \in Node |-> NULL] /\ DOMAIN ast \subseteq Node
    BY Tree DEF Init, ScopesInit
  <2> QED BY <2>1 DEF NamesAgree
<1>5. GlobalsFit
  <2>1. TableAt(1) = EmptyTable
    BY DEF Init, ScopesInit, TableAt
  <2> QED BY <2>1, EmptyTableType DEF GlobalsFit
<1>6. DefinitionsFit
  <2>1. Path(ast, 1) \in Seq(DOMAIN ast)
    BY <1>1, <1>3, PathFollows DEF symbol
  <2>2. \A k \in 1..Len(Path(ast, 1)) : ~ (k < 1)
    BY <2>1
  <2> QED BY <1>2, <2>2 DEF DefinitionsFit, MetFunctions
<1>7. LoopFits
  BY <1>2, <1>3 DEF LoopFits, Looping
<1>8. Covered({}) /\ Returned({}) /\ Called({})
  BY NothingMet DEF Called
<1> QED BY <1>4, <1>5, <1>6, <1>7, <1>8 DEF CallInv

THEOREM CallCorrect ==
  Spec => [](/\ TraversalInv /\ DataInv /\ CrashInv /\ DefinitionInv
             /\ CoverInv /\ ReturnInv /\ CallInv)
<1> DEFINE Inv == /\ TraversalInv /\ DataInv /\ CrashInv /\ DefinitionInv
                  /\ CoverInv /\ ReturnInv /\ CallInv
<1>1. Init => Inv
  BY TraversalInit, DataInit, CrashInit, DefinitionInit, CoverInit, ReturnInit,
     CallInit
<1>2. Inv /\ [Next]_vars => Inv'
  BY TraversalStep, DataStep, CrashStep, DefinitionStep, CoverStep, ReturnStep,
     CallStep
<1> QED BY <1>1, <1>2, PTL DEF Spec

(* In an accepted program a call fits the parameters that the definition   *)
(* of its function has, although attr_handle_call (typecheck.cpp) compares *)
(* it with the symbol that a prototype may have left, and a definition     *)
(* that follows is only compared with that prototype (handle_function).    *)
THEOREM CallsFitDefinitions == Spec => []CallsMatchDefinitions
<1>1. ASSUME TraversalInv, DataInv, DefinitionInv, CoverInv, ReturnInv,
             CallInv, Accepted,
             NEW c \in NodesWith({"TOK_CALL"}),
             NEW fn \in NodesWith({"TOK_FUNCTION"}),
             lexinfo(child(c, 0)) = lexinfo(declared(child(fn, 0))),
             symentry[child(c, 0)] \in Range(TableAt(1)),
             ~ CallsVariable(c, fn)
      PROVE  Fits(c, child(fn, 1))
  <2>1. /\ c \in DOMAIN ast /\ symbol(c) = "TOK_CALL"
        /\ fn \in DOMAIN ast /\ symbol(fn) = "TOK_FUNCTION"
        /\ c # fn /\ c \in Nat /\ fn \in Nat
        /\ WellFormed(ast, Name) /\ ScopesInv
    <3>1. /\ c \in DOMAIN ast /\ symbol(c) = "TOK_CALL"
          /\ fn \in DOMAIN ast /\ symbol(fn) = "TOK_FUNCTION"
      BY DEF NodesWith
    <3>2. WellFormed(ast, Name) /\ ScopesInv
      BY <1>1, Tree DEF TraversalInv
    <3>3. DOMAIN ast \subseteq Nat
      BY <3>2 DEF WellFormed
    <3> QED BY <3>1, <3>2, <3>3
  <2>2. calls = <<>> /\ semantic_errors = 0
    BY <1>1 DEF Accepted, Analysed
  <2>3. PICK S \in SUBSET DOMAIN ast : Covered(S) /\ Returned(S) /\ Called(S)
    BY <1>1, <2>2 DEF CallInv
  <2>4. c \in S
    <3>1. \A f \in DOMAIN ast : ~ IsBody(ast, f, c)
      BY <2>1, NoBody
    <3>2. symbol(c) \in Upper
      BY <2>1 DEF Upper, Statement, Expression, NoOperand, OneOperand,
                  TwoOperands
    <3> QED BY <1>1, <2>1, <2>2, <2>3, <3>1, <3>2, CoveredIsAll
  <2>5. PICK name \in DOMAIN TableAt(1) :
          symentry[child(c, 0)] = TableAt(1)[name]
    BY <1>1 DEF Range
  <2>6. PICK g : g = TableAt(1)[name]
    OBVIOUS
  <2>7. g \in Declared /\ symbols[g].lexinfo = name /\ g # NULL
    <3>1. g \in Declared /\ symbols[g] = [lexinfo |-> name, block_nr |-> 0]
      BY <2>1, <2>6, GlobalsDiffer
    <3>2. symbols[g].lexinfo = name
      <4> DEFINE s == symbols[g]
      <4>1. s = [lexinfo |-> name, block_nr |-> 0]
        BY <3>1
      <4> HIDE DEF s
      <4>2. s.lexinfo = name
        BY <4>1
      <4> QED BY <4>2 DEF s
    <3>3. g # NULL
      BY <1>1, <3>1, NullAssumption DEF DataInv, InfoTyped, Known
    <3> QED BY <3>1, <3>2, <3>3
  <2>8. FunctionName(ast, fn) = name
    <3>1. /\ child(c, 0) \in DOMAIN ast
          /\ symbol(child(c, 0)) = "TOK_IDENT"
      BY <2>1, CallParts
    <3>2. symbols[symentry[child(c, 0)]].lexinfo = lexinfo(child(c, 0))
      BY <1>1, <2>5, <2>6, <2>7, <3>1 DEF CallInv, NamesAgree
    <3>3. FunctionName(ast, fn) = lexinfo(declared(child(fn, 0)))
      BY <2>1, ListsDiffer DEF Callables
    <3> QED BY <1>1, <2>5, <2>6, <2>7, <3>2, <3>3
  <2>9. fn \in MetFunctions(ast, calls)
    BY <2>1, <2>2 DEF MetFunctions, symbol
  <2>10. CallFitsSymbol(c, name, g)
    BY <2>1, <2>3, <2>4, <2>6 DEF Called, CallRight
  <2>11. CASE fn < c
    BY <2>5, <2>6, <2>8, <2>9, <2>10, <2>11 DEF CallFitsSymbol
  <2>12. CASE ~ (fn < c)
    <3>1. c < fn
      BY <2>1, <2>12
    <3>2. symbol(Prototype(g)) \in Callables
      <4>1. symbol(Prototype(g)) \in Callables \cup {"TOK_VARDECL"}
        BY <1>1, <2>6, GlobalDeclaration DEF CoverInv, ReturnInv, FramesInv
      <4>2. symbol(Prototype(g)) # "TOK_VARDECL"
        BY <1>1, <2>5, <2>6, <3>1 DEF CallsVariable
      <4> QED BY <4>1, <4>2
    <3>3. Fits(c, FirstList(g))
      BY <2>5, <2>6, <2>10, <3>2 DEF CallFitsSymbol
    <3>4. SameLists(FirstList(g), child(fn, 1))
      <4>1. Agreed(g, child(fn, 1))
        BY <1>1, <2>2, <2>6, <2>8, <2>9 DEF CallInv, DefinitionsFit
      <4> QED BY <3>2, <4>1 DEF Agreed
    <3>5. arity(FirstList(g)) \in Nat
      <4>1. Prototype(g) \in DOMAIN ast
        BY <1>1, <2>6, GlobalDeclaration DEF CoverInv, ReturnInv, FramesInv
      <4>2. FirstList(g) \in DOMAIN ast
        BY <2>1, <3>2, <4>1, FunctionDeclares DEF FirstList, Callables
      <4> DEFINE l == FirstList(g)
      <4> HIDE DEF l
      <4>3. ast[l].children \in Seq(DOMAIN ast)
        BY <2>1, <4>2, KidsFollow DEF l
      <4>4. arity(l) \in Nat
        BY <4>3 DEF arity, children
      <4> QED BY <4>4 DEF l
    <3> QED BY <3>3, <3>4, <3>5, FitsSame
  <2> QED BY <2>11, <2>12
<1>2. TraversalInv /\ DataInv /\ DefinitionInv /\ CoverInv /\ ReturnInv
        /\ CallInv => CallsMatchDefinitions
  <2> SUFFICES ASSUME TraversalInv, DataInv, DefinitionInv, CoverInv,
                      ReturnInv, CallInv, Accepted,
                      NEW c \in NodesWith({"TOK_CALL"}),
                      NEW fn \in NodesWith({"TOK_FUNCTION"}),
                      lexinfo(child(c, 0)) = lexinfo(declared(child(fn, 0))),
                      symentry[child(c, 0)] \in Range(TableAt(1)),
                      ~ CallsVariable(c, fn)
               PROVE  /\ arity(c) - 1 = arity(child(fn, 1))
                      /\ \A i \in 1..arity(c) - 1 :
                           Compatible(get_node_attributes(child(c, i)),
                             NewSymbol(child(child(fn, 1), i - 1),
                                       {"param"}).attributes)
    BY DEF CallsMatchDefinitions
  <2>1. Fits(c, child(fn, 1))
    BY <1>1
  <2> QED BY <2>1 DEF Fits
<1> QED BY <1>2, CallCorrect, PTL
=============================================================================
