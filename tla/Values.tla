------------------------------- MODULE Values -------------------------------
(***************************************************************************)
(* The values of a running program and the operations of C on them, as far *)
(* as they are defined: NULL stands for a value that is not, and whatever  *)
(* is made of it is not either.  An integer, character or truth value is   *)
(* an integer; object k of the heap is pointed to by -k; 0 is also the     *)
(* null pointer.  An object maps its offsets, which are indices or fields, *)
(* to values.                                                              *)
(***************************************************************************)
EXTENDS Integers, Sequences

CONSTANTS
  NULL,
  MaxInt,     \* bound: the largest int; the smallest is -MaxInt
  CharSize,   \* bound: the number of characters
  MaxDepth,   \* bound: calls that may be active
  MaxHeap,    \* bound: objects that may be allocated
  exit, assert_fail   \* library functions that end the program

(* f with x mapped to v, or unset if v is NULL, and what f maps x to.      *)
Put(f, x, v) ==
  LET set == IF v = NULL THEN DOMAIN f \ {x} ELSE DOMAIN f \cup {x}
  IN  [y \in set |-> IF y = x THEN v ELSE f[y]]
Read(f, x) == IF x \in DOMAIN f THEN f[x] ELSE NULL

Truth(holds) == IF holds THEN 1 ELSE 0

InRange(v) == IF v \in -MaxInt..MaxInt THEN v ELSE NULL

Abs(v) == IF v < 0 THEN -v ELSE v
Sign(v) == IF v < 0 THEN -1 ELSE 1

(* Division truncates. *)
Quotient(a, b) == Sign(a) * Sign(b) * (Abs(a) \div Abs(b))

Binary(op, a, b) ==
  CASE op = "+" -> InRange(a + b)
    [] op = "-" -> InRange(a - b)
    [] op = "*" -> InRange(a * b)
    [] op = "/" -> IF b = 0 THEN NULL ELSE Quotient(a, b)
    [] op = "%" -> IF b = 0 THEN NULL ELSE a - b * Quotient(a, b)
    [] op = "<" -> Truth(a < b)
    [] op = ">" -> Truth(a > b)
    [] op = "TOK_LE" -> Truth(a <= b)
    [] op = "TOK_GE" -> Truth(a >= b)
    [] op = "TOK_EQ" -> Truth(a = b)
    [] op = "TOK_NE" -> Truth(a # b)

Unary(op, a) ==
  CASE op \in {"TOK_POS", "TOK_ORD"} -> a
    [] op = "TOK_NEG" -> -a
    [] op = "!" -> Truth(a = 0)
    [] op = "TOK_CHR" -> a % CharSize

Known(args) == \A i \in DOMAIN args : args[i] # NULL

Compute(op, args) ==
  CASE ~ Known(args) -> NULL
    [] Known(args) /\ Len(args) = 2 -> Binary(op, args[1], args[2])
    [] Known(args) /\ Len(args) = 1 -> Unary(op, args[1])

-----------------------------------------------------------------------------
(* The heap. *)

(* The address of an offset of the object p points to; one that is not in  *)
(* the object is not computed, although C allows the one behind the last.  *)
Address(heap, p, offset) ==
  IF /\ Known(<<p, offset>>)
     /\ -p \in DOMAIN heap
     /\ offset \in DOMAIN heap[-p]
  THEN <<p, offset>> ELSE NULL

Load(heap, address) ==
  IF address = NULL THEN NULL ELSE heap[-address[1]][address[2]]

Store(heap, address, v) == [heap EXCEPT ![-address[1]][address[2]] = v]

(* Memory that is all zero. *)
Allocate(heap, offsets) == Append(heap, [o \in offsets |-> 0])

(* The elements of an array of n, and a string constant of one character.  *)
Elements(n) == 0..n - 1
StringObject == [i \in 0..1 |-> 1 - i]

(* What a call of a library function may come to: the value it returns,    *)
(* the heap, and how the program goes on.  getc reads a character or the   *)
(* end of the input; getw and getln return null there, and otherwise what  *)
(* strdup made of the input (Oclib), or their assertion fails.             *)
Outcome(value, heap, status) ==
  [value |-> value, heap |-> heap, status |-> status]

LibraryOutcomes(name, kind, heap) ==
  CASE name = exit -> {Outcome(NULL, heap, "done")}
    [] name = assert_fail -> {Outcome(NULL, heap, "aborted")}
    [] name \notin {exit, assert_fail} /\ kind = "nothing" ->
         {Outcome(NULL, heap, "running")}
    [] kind = "number" ->
         {Outcome(c, heap, "running") : c \in -1..CharSize - 1}
    [] kind = "pointer" ->
         {Outcome(0, heap, "running"),
          IF Len(heap) = MaxHeap THEN Outcome(NULL, heap, "exhausted")
          ELSE Outcome(-Len(heap) - 1, Append(heap, StringObject), "running")}
=============================================================================
