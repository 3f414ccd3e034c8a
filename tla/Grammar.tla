------------------------------ MODULE Grammar ------------------------------
(***************************************************************************)
(* What the productions of parser.y build, as terms [symbol, lexinfo,      *)
(* kids], and the arena (Ast) of a term.  The runs write their programs    *)
(* with these, so every program they analyse is one the parser can build.  *)
(***************************************************************************)
EXTENDS Integers, Sequences, SequencesExt

CONSTANT NULL   \* the text of a token whose text does not matter

Tree(symbol, lexinfo, kids) ==
  [symbol |-> symbol, lexinfo |-> lexinfo, kids |-> kids]

Leaf(symbol) == Tree(symbol, NULL, <<>>)

-----------------------------------------------------------------------------
(* Expressions. *)

number(v) == Tree("TOK_INTCON", v, <<>>)
intcon == number(NULL)
charcon == Leaf("TOK_CHARCON")
stringcon == Leaf("TOK_STRINGCON")
true == Leaf("TOK_TRUE")
null == Leaf("TOK_NULL")

ident(x) == Tree("TOK_IDENT", x, <<>>)
unary(op, e) == Tree(op, NULL, <<e>>)
binary(op, e1, e2) == Tree(op, NULL, <<e1, e2>>)
index(e1, e2) == binary("TOK_INDEX", e1, e2)
select(e, f) == binary(".", e, Tree("TOK_FIELD", f, <<>>))
call(f, args) == Tree("TOK_CALL", NULL, <<ident(f)>> \o args)
new(t) == Tree("TOK_NEW", NULL, <<Tree("TOK_TYPEID", t, <<>>)>>)
new_string(e) == Tree("TOK_NEWSTRING", NULL, <<e>>)
new_array(t, e) == Tree("TOK_NEWARRAY", NULL, <<t, e>>)

-----------------------------------------------------------------------------
(* Types and declarations; a type is the term of its token. *)

int == Leaf("TOK_INT")
char == Leaf("TOK_CHAR")
bool == Leaf("TOK_BOOL")
string == Leaf("TOK_STRING")
void == Leaf("TOK_VOID")
typeid(t) == Tree("TOK_TYPEID", t, <<>>)

Decl(what, type, x) ==
  [type EXCEPT !.kids = <<Tree(what, x, <<>>)>>]

ArrayDecl(what, type, x) ==
  Tree("TOK_ARRAY", NULL, <<type, Tree(what, x, <<>>)>>)

identdecl(type, x) == Decl("TOK_DECLID", type, x)
arraydecl(type, x) == ArrayDecl("TOK_DECLID", type, x)
fielddecl(type, x) == Decl("TOK_FIELD", type, x)
arrayfielddecl(type, x) == ArrayDecl("TOK_FIELD", type, x)

-----------------------------------------------------------------------------
(* Statements. *)

vardecl(decl, e) == binary("TOK_VARDECL", decl, e)
assign(e1, e2) == binary("=", e1, e2)
block(ss) == Tree("TOK_BLOCK", NULL, ss)
empty == Leaf(";")
while(e, s) == Tree("TOK_WHILE", NULL, <<e, s>>)
if(e, s) == Tree("TOK_IF", NULL, <<e, s>>)
ifelse(e, s1, s2) == Tree("TOK_IFELSE", NULL, <<e, s1, s2>>)
return(e) == Tree("TOK_RETURN", NULL, <<e>>)
returnvoid == Leaf("TOK_RETURNVOID")

-----------------------------------------------------------------------------
(* The top level. *)

(* tree_function: a function whose body is ';' is a prototype. *)
function(decl, params, body) ==
  LET paramlist == Tree("TOK_PARAMLIST", NULL, params) IN
  IF body = empty THEN Tree("TOK_PROTOTYPE", NULL, <<decl, paramlist>>)
  ELSE Tree("TOK_FUNCTION", NULL, <<decl, paramlist, body>>)

structdef(t, fields) == Tree("TOK_STRUCT", NULL, <<typeid(t)>> \o fields)

program(parts) == Tree("TOK_ROOT", NULL, parts)

-----------------------------------------------------------------------------

RECURSIVE Size(_)
Size(tree) == 1 + SumFunction([i \in DOMAIN tree.kids |-> Size(tree.kids[i])])

(* The nodes of a term in the order of the text, the first of them being   *)
(* number first.                                                           *)
RECURSIVE Nodes(_, _)
Nodes(tree, first) ==
  LET kids == tree.kids
      size == [i \in DOMAIN kids |-> Size(kids[i])]
      ids == [i \in DOMAIN kids |->
                first + 1 + SumFunctionOnSet(size, 1..i - 1)]
  IN  <<[symbol |-> tree.symbol, lexinfo |-> tree.lexinfo, children |-> ids]>>
        \o FlattenSeq([i \in DOMAIN kids |-> Nodes(kids[i], ids[i])])

(* The tree of a program made of the given parts. *)
AstOf(parts) == Nodes(program(parts), 1)
=============================================================================
