---------------------------- MODULE LexicalScope ----------------------------
(***************************************************************************)
(* What block-structured name lookup promises, without symbol tables.      *)
(*                                                                         *)
(* A block gets a number nobody had before; a declaration belongs to the   *)
(* block that was innermost when it was met and stays known for ever (the  *)
(* emitter names it long after its block has been closed); an identifier   *)
(* is bound to the declaration of that name in the innermost open block    *)
(* that has one.  Scopes (symbol.cpp) implements this with a stack of      *)
(* lazily allocated tables; Scopes!Lexical is the refinement.              *)
(***************************************************************************)
EXTENDS Integers, Sequences

CONSTANTS
  Name,     \* identifiers
  Node,     \* AST nodes: declaring ones and using ones
  NULL      \* no declaration

VARIABLES
  path,     \* numbers of the open blocks, outermost first
  fresh,    \* the next block number
  decls,    \* declaring node -> its name and the number of its block
  binding   \* node -> the declaration it stands for, or NULL

vars == <<path, fresh, decls, binding>>

Declares(d, n, b) ==
  d \in DOMAIN decls /\ decls[d] = [lexinfo |-> n, block_nr |-> b]

DeclaredIn(n, b) == \E d \in DOMAIN decls : Declares(d, n, b)

(* The open blocks that declare n, by their depth. *)
Visible(n) == {i \in 1..Len(path) : DeclaredIn(n, path[i])}

(* The declaration of n in the innermost of them. *)
Resolve(n) ==
  IF Visible(n) = {} THEN NULL
  ELSE LET i == CHOOSE i \in Visible(n) : \A j \in Visible(n) : j <= i
       IN  CHOOSE d \in DOMAIN decls : Declares(d, n, path[i])

Init ==
  /\ path = <<0>>
  /\ fresh = 1
  /\ decls = [d \in {} |-> NULL]
  /\ binding = [u \in Node |-> NULL]

(* Declare d as n in block b, unless b has an n already. *)
Declare(d, n, b) ==
  IF DeclaredIn(n, b) THEN UNCHANGED <<decls, binding>>
  ELSE /\ decls' = [e \in DOMAIN decls \cup {d} |->
                      IF e = d THEN [lexinfo |-> n, block_nr |-> b]
                      ELSE decls[e]]
       /\ binding' = [binding EXCEPT ![d] = d]

Open ==
  /\ path' = Append(path, fresh)
  /\ fresh' = fresh + 1

OpenBlock == Open /\ UNCHANGED <<decls, binding>>

CloseBlock ==
  /\ Len(path) > 1
  /\ path' = SubSeq(path, 1, Len(path) - 1)
  /\ UNCHANGED <<fresh, decls, binding>>

DeclareHere(d, n) ==
  /\ d \notin DOMAIN decls
  /\ Declare(d, n, path[Len(path)])
  /\ UNCHANGED <<path, fresh>>

(* A function is declared outside every block and opens its own. *)
OpenFunction(d, n) ==
  /\ d \notin DOMAIN decls
  /\ path = <<0>>
  /\ Declare(d, n, 0)
  /\ Open

Use(u, n) ==
  /\ u \notin DOMAIN decls
  /\ binding' = [binding EXCEPT ![u] = Resolve(n)]
  /\ UNCHANGED <<path, fresh, decls>>

Next ==
  \/ OpenBlock
  \/ CloseBlock
  \/ \E d \in Node, n \in Name :
       \/ DeclareHere(d, n)
       \/ OpenFunction(d, n)
       \/ Use(d, n)

Spec == Init /\ [][Next]_vars
=============================================================================
