------------------------------- MODULE Source -------------------------------
(***************************************************************************)
(* What an oc program means: a walk over its tree, one operation, test,    *)
(* assignment, call or return at a time.  There are no registers, labels,  *)
(* jumps or mangled names here; an operation leaves its value at its node, *)
(* and a variable is its declaration.  The emitted program implements this *)
(* (Execution).                                                            *)
(***************************************************************************)
EXTENDS Ast, Values, FiniteSetsExt

VARIABLES
  symentry,   \* identifier -> its declaration; what the analysis found
  member,     \* selected field -> its declaration
  stack,      \* activations [at, values, locals]: the node to perform, what
              \*   nodes performed have left, declaration -> value
  globals,    \* declaration -> value
  heap,       \* the objects
  output,     \* the last call of a library function, and what it was given
  status      \* "ready", "running", or how the program ended

stateVars == <<stack, globals, heap, output, status>>

-----------------------------------------------------------------------------
(* Control. *)

Tests == {"TOK_IF", "TOK_IFELSE", "TOK_WHILE"}
Allocations == {"TOK_NEW", "TOK_NEWARRAY", "TOK_NEWSTRING"}
Operations ==
  {"+", "-", "*", "/", "%", "<", ">", "TOK_LE", "TOK_GE", "TOK_EQ", "TOK_NE",
   "TOK_POS", "TOK_NEG", "!", "TOK_ORD", "TOK_CHR"}

(* What is performed when its children are done, and has an effect.        *)
Performed == Operations \cup Allocations \cup
  {"=", "TOK_VARDECL", "TOK_CALL", "TOK_RETURN", "TOK_RETURNVOID",
   "TOK_INDEX", ".", "TOK_ROOT"}

Skipped == {"TOK_FUNCTION", "TOK_PROTOTYPE", "TOK_STRUCT"}

(* The next node to be performed when node is entered, or left.            *)
Following(entering, node) ==
  LET to[enter \in BOOLEAN, n \in DOMAIN ast] ==
        LET p == parent(n)
            i == CHOOSE i \in 0..arity(p) - 1 : child(p, i) = n
            done(m) == IF symbol(m) \in Performed THEN m ELSE to[FALSE, m]
        IN
        CASE enter -> IF arity(n) > 0 /\ symbol(n) \notin Skipped
                      THEN to[TRUE, child(n, 0)] ELSE done(n)
          [] ~ enter /\ symbol(p) \in Tests /\ i = 0 -> p
          [] ~ enter /\ symbol(p) \in Tests /\ i > 0 ->
               to[symbol(p) = "TOK_WHILE", p]
          [] ~ enter /\ symbol(p) = "TOK_FUNCTION" -> p
          [] OTHER -> IF i < arity(p) - 1 THEN to[TRUE, child(p, i + 1)]
                      ELSE done(p)
  IN  to[entering, node]

Entering(n) == Following(TRUE, n)
Leaving(n) == Following(FALSE, n)

-----------------------------------------------------------------------------
(* Data. *)

Top == Last(stack)
n == Top.at

(* The top level of the program declares global variables. *)
IsGlobal(d) == \E i \in 0..arity(1) - 1 :
  symbol(child(1, i)) = "TOK_VARDECL" /\ declared(child(child(1, i), 0)) = d

Strings == {m \in DOMAIN ast : symbol(m) = "TOK_STRINGCON"}

(* The structure and name of a declared field. *)
FieldOffset(d) ==
  <<lexinfo(child(parent(parent(d)), 0)), lexinfo(d)>>

(* What an expression stands for when its value is needed. *)
Place(m) ==
  CASE symbol(m) = "TOK_IDENT" /\ IsGlobal(symentry[m]) ->
         globals[symentry[m]]
    [] symbol(m) = "TOK_IDENT" /\ ~ IsGlobal(symentry[m]) ->
         Read(Top.locals, symentry[m])
    [] symbol(m) \in {"TOK_INDEX", "."} -> Load(heap, Read(Top.values, m))
    [] symbol(m) \in {"TOK_INTCON", "TOK_CHARCON"} -> lexinfo(m)
    [] symbol(m) = "TOK_TRUE" -> 1
    [] symbol(m) \in {"TOK_FALSE", "TOK_NULL"} -> 0
    [] symbol(m) = "TOK_STRINGCON" -> -Cardinality({k \in Strings : k <= m})
    [] OTHER -> Read(Top.values, m)

Value(m) == IF symbol(m) = "=" THEN Place(child(m, 0)) ELSE Place(m)

Args(nodes) == [i \in DOMAIN nodes |-> Value(nodes[i])]

-----------------------------------------------------------------------------
(* Steps. *)

Running(tokens) == status = "running" /\ symbol(n) \in tokens

Stop(how) == status' = how /\ UNCHANGED <<stack, globals, heap, output>>

(* Going on behind node n, which left v or nothing. *)
With(activation) == stack' = Front(stack) \o <<activation>>
Continue(activation) == With([activation EXCEPT !.at = Leaving(n)])
Leave(v) == Continue([Top EXCEPT !.values = Put(@, n, v)])

Set(d, v) ==
  IF IsGlobal(d)
  THEN globals' = [globals EXCEPT ![d] = v] /\ Continue(Top)
  ELSE UNCHANGED globals /\ Continue([Top EXCEPT !.locals = Put(@, d, v)])

Start ==
  /\ status = "ready"
  /\ status' = "running"
  /\ stack' = <<[at |-> Entering(1), values |-> [m \in {} |-> NULL],
                 locals |-> [d \in {} |-> NULL]]>>
  /\ globals' = [d \in {d \in DOMAIN ast : IsGlobal(d)} |-> 0]
  /\ heap' = [i \in 1..Cardinality(Strings) |-> StringObject]
  /\ UNCHANGED output

Operate ==
  LET v == CASE symbol(n) = "TOK_INDEX" ->
                  Address(heap, Value(child(n, 0)), Value(child(n, 1)))
             [] symbol(n) = "." -> Address(heap, Value(child(n, 0)),
                                           FieldOffset(member[n]))
             [] OTHER -> Compute(symbol(n), Args(children(n)))
  IN
  /\ Running(Operations \cup {"TOK_INDEX", "."})
  /\ IF v = NULL THEN Stop("undefined")
     ELSE Leave(v) /\ UNCHANGED <<globals, heap, output, status>>

Assign ==
  LET target == child(n, 0)
      v == Value(child(n, 1))
  IN
  /\ Running({"=", "TOK_VARDECL"})
  /\ CASE v = NULL -> Stop("undefined")
       [] v # NULL /\ symbol(n) = "TOK_VARDECL" ->
            Set(declared(target), v) /\ UNCHANGED heap
       [] v # NULL /\ symbol(target) = "TOK_IDENT" ->
            Set(symentry[target], v) /\ UNCHANGED heap
       [] OTHER -> /\ heap' = Store(heap, Top.values[target], v)
                   /\ Continue(Top)
                   /\ UNCHANGED globals
  /\ v # NULL => UNCHANGED <<output, status>>

(* The fields of the structure that n allocates. *)
Fields ==
  LET t == CHOOSE t \in DOMAIN ast : /\ symbol(t) = "TOK_STRUCT"
                                     /\ lexinfo(child(t, 0))
                                          = lexinfo(child(n, 0))
  IN  {FieldOffset(declared(f)) : f \in Range(Tail(children(t)))}

(* Memory for size elements that cannot be had. *)
Exhausted(size) == size < 0 \/ Len(heap) = MaxHeap

New ==
  LET size == IF symbol(n) = "TOK_NEW" THEN 1 ELSE Value(Last(children(n))) IN
  /\ Running(Allocations)
  /\ CASE size = NULL -> Stop("undefined")
       [] size # NULL /\ Exhausted(size) -> Stop("exhausted")
       [] OTHER -> /\ heap' = Allocate(heap, IF symbol(n) = "TOK_NEW"
                                             THEN Fields ELSE Elements(size))
                   /\ Leave(-Len(heap'))
                   /\ UNCHANGED <<globals, output, status>>

Test ==
  LET v == Value(child(n, 0))
      next == CASE v # 0 -> Entering(child(n, 1))
                [] v = 0 /\ symbol(n) = "TOK_IFELSE" -> Entering(child(n, 2))
                [] v = 0 /\ symbol(n) # "TOK_IFELSE" -> Leaving(n)
  IN
  /\ Running(Tests)
  /\ IF v = NULL THEN Stop("undefined")
     ELSE /\ With([Top EXCEPT !.at = next])
          /\ UNCHANGED <<globals, heap, output, status>>

(* The definitions of the function that n calls. *)
Callees == {f \in DOMAIN ast :
              /\ symbol(f) = "TOK_FUNCTION"
              /\ lexinfo(declared(child(f, 0))) = lexinfo(child(n, 0))}

Call ==
  LET f == CHOOSE f \in Callees : TRUE
      args == Args(Tail(children(n)))
      param(i) == declared(child(child(f, 1), i - 1))
  IN
  /\ Running({"TOK_CALL"}) /\ Callees # {}
  /\ CASE ~ Known(args) -> Stop("undefined")
       [] Known(args) /\ Len(stack) = MaxDepth -> Stop("exhausted")
       [] OTHER ->
            /\ stack' = Append(stack,
                 [at |-> Entering(child(f, 2)), values |-> [m \in {} |-> NULL],
                  locals |-> [d \in {param(i) : i \in DOMAIN args} |->
                                args[CHOOSE i \in DOMAIN args : param(i) = d]]])
            /\ UNCHANGED <<globals, heap, output, status>>

(* A function that is only declared is in the library. *)
CallLibrary ==
  LET args == Args(Tail(children(n)))
      type == symbol(parent(symentry[child(n, 0)]))
      returned == CASE type = "TOK_VOID" -> "nothing"
                    [] type \in {"TOK_INT", "TOK_CHAR", "TOK_BOOL"} -> "number"
                    [] OTHER -> "pointer"
  IN
  /\ Running({"TOK_CALL"}) /\ Callees = {}
  /\ IF ~ Known(args) THEN Stop("undefined")
     ELSE /\ output' = <<lexinfo(child(n, 0)), args>>
          /\ \E o \in LibraryOutcomes(lexinfo(child(n, 0)), returned, heap) :
               /\ heap' = o.heap /\ status' = o.status
               /\ IF o.status = "running" THEN Leave(o.value)
                  ELSE UNCHANGED stack
          /\ UNCHANGED globals

(* A return, or the end of a function, which leaves no value. *)
Return ==
  LET v == IF symbol(n) = "TOK_RETURN" THEN Value(child(n, 0)) ELSE NULL
      caller == stack[Len(stack) - 1]
  IN
  /\ Running({"TOK_RETURN", "TOK_RETURNVOID", "TOK_FUNCTION", "TOK_ROOT"})
  /\ CASE symbol(n) = "TOK_RETURN" /\ v = NULL -> Stop("undefined")
       [] symbol(n) \in {"TOK_RETURNVOID", "TOK_ROOT"} /\ Len(stack) = 1 ->
            Stop("done")
       [] OTHER ->
            /\ stack' = SubSeq(stack, 1, Len(stack) - 2)
                 \o <<[caller EXCEPT !.at = Leaving(@),
                                     !.values = Put(@, caller.at, v)]>>
            /\ UNCHANGED <<globals, heap, output, status>>

-----------------------------------------------------------------------------

SourceInit ==
  /\ stack = <<>>
  /\ globals = [d \in {} |-> NULL]
  /\ heap = <<>>
  /\ output = NULL
  /\ status = "ready"

Step == Operate \/ Assign \/ New \/ Test \/ Call \/ CallLibrary \/ Return

SourceNext == Start \/ Step

(* A program that was started goes on. *)
SourceSpec == SourceInit /\ [][SourceNext]_stateVars /\ WF_stateVars(Step)
=============================================================================
