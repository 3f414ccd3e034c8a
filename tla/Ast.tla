-------------------------------- MODULE Ast --------------------------------
(***************************************************************************)
(* The abstract syntax tree that the parser hands to the semantic pass and *)
(* the emitter (astree.h): node 1 is the root, the nodes are numbered in   *)
(* preorder, which keeps declarations and uses in the order of the source  *)
(* text, and a node has a token, the text of the token and its children.   *)
(* Source locations are left out: the number of a node stands for its      *)
(* place.                                                                  *)
(***************************************************************************)
EXTENDS Integers, Sequences, SequencesExt

VARIABLE ast   \* node -> [symbol, lexinfo, children]

symbol(n) == ast[n].symbol
lexinfo(n) == ast[n].lexinfo
children(n) == ast[n].children
child(n, i) == children(n)[i + 1]   \* numbered from 0, as the code does
arity(n) == Len(children(n))

parent(n) == CHOOSE m \in DOMAIN ast : n \in Range(children(m))

(* A declaration {BASETYPE {DECLID}} or {ARRAY {BASETYPE} {DECLID}} (with a *)
(* FIELD instead of the DECLID in a structure): its base type and what it  *)
(* declares.                                                               *)
IsArray(n) == symbol(n) = "TOK_ARRAY"
base_type(n) == IF IsArray(n) THEN child(n, 0) ELSE n
declared(n) == IF IsArray(n) THEN child(n, 1) ELSE child(n, 0)

-----------------------------------------------------------------------------
(* The trees that parser.y builds; p is such a tree.                       *)

NoOperand == {"TOK_IDENT", "TOK_INTCON", "TOK_CHARCON", "TOK_STRINGCON",
              "TOK_TRUE", "TOK_FALSE", "TOK_NULL"}
OneOperand == {"TOK_POS", "TOK_NEG", "!", "TOK_ORD", "TOK_CHR",
               "TOK_NEWSTRING"}
TwoOperands == {"+", "-", "*", "/", "%", "TOK_EQ", "TOK_NE", "TOK_LE",
                "TOK_GE", ">", "<", "=", "TOK_INDEX"}

Expression == NoOperand \cup OneOperand \cup TwoOperands
                \cup {".", "TOK_CALL", "TOK_NEW", "TOK_NEWARRAY"}

Statement == Expression \cup {"TOK_BLOCK", ";", "TOK_VARDECL", "TOK_WHILE",
                              "TOK_IF", "TOK_IFELSE", "TOK_RETURN",
                              "TOK_RETURNVOID"}

TypeName == {"TOK_VOID", "TOK_BOOL", "TOK_INT", "TOK_CHAR", "TOK_STRING",
             "TOK_TYPEID"}

Token == Statement \cup TypeName
           \cup {"TOK_ROOT", "TOK_FUNCTION", "TOK_PROTOTYPE", "TOK_STRUCT",
                 "TOK_PARAMLIST", "TOK_ARRAY", "TOK_DECLID", "TOK_FIELD"}

(* basetype, and identdecl or fielddecl. *)
Type(p, n) == p[n].symbol \in TypeName /\ p[n].children = <<>>

Declaration(p, n, what) ==
  LET kids == p[n].children IN
  \/ /\ p[n].symbol \in TypeName
     /\ Len(kids) = 1 /\ p[kids[1]].symbol = what
  \/ /\ p[n].symbol = "TOK_ARRAY"
     /\ Len(kids) = 2 /\ Type(p, kids[1]) /\ p[kids[2]].symbol = what

(* The children of a node, by its token. *)
Built(p, n) ==
  LET s == p[n].symbol
      kids == p[n].children
      is(i, tokens) == p[kids[i]].symbol \in tokens
      all(tokens) == \A i \in DOMAIN kids : is(i, tokens)
  IN
  /\ s \in Token
  /\ s = "TOK_ROOT" =>
       all(Statement \cup {"TOK_FUNCTION", "TOK_PROTOTYPE", "TOK_STRUCT"})
  /\ s \in {"TOK_FUNCTION", "TOK_PROTOTYPE"} =>
       /\ Len(kids) = IF s = "TOK_FUNCTION" THEN 3 ELSE 2
       /\ Declaration(p, kids[1], "TOK_DECLID")
       /\ is(2, {"TOK_PARAMLIST"})
  /\ s = "TOK_FUNCTION" => is(3, {"TOK_BLOCK"})
  /\ s = "TOK_PARAMLIST" =>
       \A i \in DOMAIN kids : Declaration(p, kids[i], "TOK_DECLID")
  /\ s = "TOK_STRUCT" =>
       /\ Len(kids) > 0 /\ is(1, {"TOK_TYPEID"}) /\ Type(p, kids[1])
       /\ \A i \in 2..Len(kids) : Declaration(p, kids[i], "TOK_FIELD")
  /\ s \in TypeName \cup {"TOK_ARRAY"} =>
       Type(p, n) \/ Declaration(p, n, "TOK_DECLID")
                  \/ Declaration(p, n, "TOK_FIELD")
  /\ s = "TOK_BLOCK" => all(Statement)
  /\ s = "TOK_VARDECL" =>
       /\ Len(kids) = 2
       /\ Declaration(p, kids[1], "TOK_DECLID") /\ is(2, Expression)
  /\ s \in {"TOK_WHILE", "TOK_IF"} =>
       Len(kids) = 2 /\ is(1, Expression) /\ is(2, Statement)
  /\ s = "TOK_IFELSE" =>
       /\ Len(kids) = 3
       /\ is(1, Expression) /\ is(2, Statement) /\ is(3, Statement)
  /\ s \in OneOperand \cup {"TOK_RETURN"} =>
       Len(kids) = 1 /\ is(1, Expression)
  /\ s \in TwoOperands => Len(kids) = 2 /\ all(Expression)
  /\ s = "." => Len(kids) = 2 /\ is(1, Expression) /\ is(2, {"TOK_FIELD"})
  /\ s = "TOK_CALL" =>
       Len(kids) > 0 /\ is(1, {"TOK_IDENT"}) /\ all(Expression)
  /\ s = "TOK_NEW" =>
       Len(kids) = 1 /\ is(1, {"TOK_TYPEID"}) /\ Type(p, kids[1])
  /\ s = "TOK_NEWARRAY" =>
       Len(kids) = 2 /\ Type(p, kids[1]) /\ is(2, Expression)
  /\ s \in NoOperand \cup {";", "TOK_RETURNVOID", "TOK_DECLID", "TOK_FIELD"} =>
       kids = <<>>

(* The numbers are those of preorder: a child comes after its parent, and  *)
(* after all that is below its elder siblings.                             *)
InOrder(p, n) ==
  \A i \in DOMAIN p[n].children :
    LET c == p[n].children[i] IN
    /\ c \in DOMAIN p /\ n < c
    /\ \A j \in DOMAIN p[n].children : i < j => c < p[n].children[j]
    /\ \A m \in n + 1..c - 1 : \A e \in Range(p[m].children) : e < c

(* A tree over the given identifiers. *)
WellFormed(p, names) ==
  /\ Len(p) \in Nat /\ DOMAIN p = 1..Len(p)
  /\ 1 \in DOMAIN p /\ p[1].symbol = "TOK_ROOT"
  /\ \A n \in DOMAIN p :
       /\ p[n].children \in Seq(Nat)
       /\ InOrder(p, n) /\ Built(p, n)
       /\ p[n].symbol \in {"TOK_IDENT", "TOK_DECLID", "TOK_FIELD",
                           "TOK_TYPEID"} => p[n].lexinfo \in names
  /\ UNION {Range(p[n].children) : n \in DOMAIN p} = DOMAIN p \ {1}

=============================================================================
