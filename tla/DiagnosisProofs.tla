--------------------------- MODULE DiagnosisProofs ---------------------------
(***************************************************************************)
(* What the error count of the semantic pass means: a crash comes only     *)
(* after an error, an error is always accompanied by a diagnostic, and a   *)
(* program without errors defines a function at most once.                 *)
(***************************************************************************)
EXTENDS SemanticsProofs

-----------------------------------------------------------------------------
(* Crashes. *)

(* Some function has a parameter that is no symbol. *)
HasNull(I) ==
  \E d \in DOMAIN I : \E i \in DOMAIN I[d].params : I[d].params[i] = NULL

CrashInv == HasNull(info) \/ crashed => semantic_errors > 0

LEMMA NoNewNull ==
  ASSUME NEW I, NEW J,
         \A x \in DOMAIN J : \/ x \in DOMAIN I /\ J[x].params = I[x].params
                             \/ \A i \in DOMAIN J[x].params :
                                  J[x].params[i] # NULL
                             \/ /\ x \in DOMAIN I
                                /\ \A i \in DOMAIN J[x].params :
                                     \/ J[x].params[i] # NULL
                                     \/ /\ i \in DOMAIN I[x].params
                                        /\ I[x].params[i] = J[x].params[i],
         HasNull(J)
  PROVE  HasNull(I)
BY DEF HasNull

LEMMA AppendDomain ==
  ASSUME NEW S, NEW s \in Seq(S), NEW e, e # NULL,
         NEW i \in DOMAIN Append(s, e)
  PROVE  Append(s, e)[i] # NULL \/ (i \in DOMAIN s /\ s[i] = Append(s, e)[i])
<1>1. Len(s) \in Nat /\ DOMAIN s = 1..Len(s)
  BY LenProperties
<1>2. i \in 1..Len(s) + 1 /\ Append(s, e)[Len(s) + 1] = e
      /\ \A k \in 1..Len(s) : Append(s, e)[k] = s[k]
  BY <1>1
<1>3. i = Len(s) + 1 \/ i \in 1..Len(s)
  BY <1>1, <1>2
<1> QED BY <1>1, <1>2, <1>3

(* New symbols have no parameters, and a parameter that is a symbol is no  *)
(* null pointer.                                                           *)
LEMMA NullsExtend ==
  ASSUME NEW I, NEW d, NEW s, s.params = <<>>, HasNull(Extend(I, d, s))
  PROVE  HasNull(I)
<1> DEFINE J == Extend(I, d, s)
<1>1. DOMAIN J = DOMAIN I \cup {d} /\ J[d] = s
      /\ \A x \in DOMAIN I : x # d => J[x] = I[x]
  BY DEF Extend
<1>2. HasNull(J)
  OBVIOUS
<1> HIDE DEF J
<1>3. DOMAIN J[d].params = {}
  BY <1>1
<1>4. \A x \in DOMAIN J : \/ x \in DOMAIN I /\ J[x].params = I[x].params
                          \/ \A i \in DOMAIN J[x].params : J[x].params[i] # NULL
  BY <1>1, <1>3
<1> QED BY <1>2, <1>4, NoNewNull

LEMMA NullsUpdate ==
  ASSUME NEW I, NEW D, Known(I, D), NEW f, NEW b
  PROVE  /\ HasNull([I EXCEPT ![f].fnblock = b]) => HasNull(I)
         /\ HasNull([I EXCEPT ![f].params = <<>>, ![f].fnblock = NULL])
              => HasNull(I)
         /\ b # NULL /\ HasNull([I EXCEPT ![f].params = Append(@, b)])
              => HasNull(I)
<1> DEFINE J1 == [I EXCEPT ![f].fnblock = b]
           J2 == [I EXCEPT ![f].params = <<>>, ![f].fnblock = NULL]
           J3 == [I EXCEPT ![f].params = Append(@, b)]
<1>1. /\ DOMAIN J1 = DOMAIN I /\ DOMAIN J2 = DOMAIN I /\ DOMAIN J3 = DOMAIN I
      /\ \A x \in DOMAIN I : x # f => J1[x] = I[x] /\ J2[x] = I[x]
                                      /\ J3[x] = I[x]
      /\ f \in DOMAIN I =>
           /\ J1[f] = [I[f] EXCEPT !.fnblock = b]
           /\ J2[f] = [I[f] EXCEPT !.params = <<>>, !.fnblock = NULL]
           /\ J3[f] = [I[f] EXCEPT !.params = Append(I[f].params, b)]
  BY DEF Known
<1> HIDE DEF J1, J2, J3
<1>2. ASSUME f \in DOMAIN I
      PROVE  /\ J1[f].params = I[f].params
             /\ J2[f].params = <<>>
             /\ J3[f].params = Append(I[f].params, b)
             /\ I[f].params \in Seq(DOMAIN I \cup {NULL})
  <2>1. I[f] \in Symbol /\ I[f].params \in Seq(DOMAIN I \cup {NULL})
    BY <1>2 DEF Known
  <2> DEFINE s == I[f]
  <2> HIDE DEF s
  <2>2. s \in Symbol
    BY <2>1 DEF s
  <2>3. /\ [s EXCEPT !.fnblock = b].params = s.params
        /\ [s EXCEPT !.params = <<>>, !.fnblock = NULL].params = <<>>
        /\ [s EXCEPT !.params = Append(s.params, b)].params
             = Append(s.params, b)
    BY <2>2 DEF Symbol
  <2> QED BY <1>1, <1>2, <2>1, <2>3 DEF s
<1>3. HasNull(J1) => HasNull(I)
  BY <1>1, <1>2, NoNewNull
<1>4. HasNull(J2) => HasNull(I)
  <2>1. DOMAIN <<>> = {}
    OBVIOUS
  <2>2. \A x \in DOMAIN J2 :
          \/ x \in DOMAIN I /\ J2[x].params = I[x].params
          \/ \A i \in DOMAIN J2[x].params : J2[x].params[i] # NULL
    BY <1>1, <1>2, <2>1
  <2> QED BY <2>2, NoNewNull
<1>5. ASSUME b # NULL, HasNull(J3) PROVE HasNull(I)
  <2>1. ASSUME NEW x \in DOMAIN J3, x = f
        PROVE  /\ x \in DOMAIN I
               /\ \A i \in DOMAIN J3[x].params :
                    \/ J3[x].params[i] # NULL
                    \/ /\ i \in DOMAIN I[x].params
                       /\ I[x].params[i] = J3[x].params[i]
    <3>1. f \in DOMAIN I
      BY <1>1, <2>1
    <3> QED BY <1>2, <1>5, <2>1, <3>1, AppendDomain
  <2>2. ASSUME NEW x \in DOMAIN J3, x # f
        PROVE  x \in DOMAIN I /\ J3[x].params = I[x].params
    BY <1>1, <2>2
  <2> QED BY <1>5, <2>1, <2>2, NoNewNull
<1> QED BY <1>3, <1>4, <1>5 DEF J1, J2, J3

(* A parameter gets no symbol only where an error is reported. *)
LEMMA NullsReported ==
  ASSUME TraversalInv, DataInv, Next, HasNull(info')
  PROVE  HasNull(info) \/ semantic_errors' > semantic_errors
<1> DEFINE Goal == HasNull(info) \/ semantic_errors' > semantic_errors
<1> SUFFICES Goal
  OBVIOUS
<1>1. Known(info, Declared) /\ CountsTyped
  BY DEF DataInv, InfoTyped
<1>2. ASSUME info' = info PROVE Goal
  BY <1>2
<1>3. CASE VisitDeclaration
  <2> DEFINE n == Next_node
             d == declared(n)
             sym == NewSymbol(n, {})
  <2>1. Running /\ HasNext /\ symbol(Next_node) \in VariableTypes
    BY <1>3 DEF VisitDeclaration, Visiting
  <2>2. Declaration(ast, n, "TOK_DECLID")
    BY <2>1, NextDeclares
  <2>3. sym.params = <<>>
    BY <2>1, <2>2, NextSymbol, RolesOf
  <2>4. info' = info \/ info' = Extend(info, d, sym)
    BY <1>3 DEF VisitDeclaration
  <2> HIDE DEF d, sym
  <2> QED BY <1>2, <2>3, <2>4, NullsExtend
<1>4. CASE DeclareParam
  <2> DEFINE n == Next_node
             d == declared(n)
             f == GlobalSymbol(current_function)
             sym == NewSymbol(n, {"param"})
             with == [info EXCEPT ![f].params = Append(@, d)]
  <2>1. Running /\ HasNext /\ symbol(Caller.node) = "TOK_PARAMLIST"
    BY <1>4 DEF DeclareParam
  <2>2. Declaration(ast, n, "TOK_DECLID")
    BY <2>1, NextDeclares
  <2>3. sym.params = <<>> /\ d # NULL
    BY <2>1, <2>2, NextSymbol, RolesOf, NullAssumption
  <2>4. Report(1) \/ info' = Extend(with, d, sym)
    BY <1>4 DEF DeclareParam
  <2>5. CASE Report(1)
    BY <1>1, <2>5, ReportCounts
  <2>6. CASE info' = Extend(with, d, sym)
    <3> HIDE DEF with, d, sym, f
    <3>1. HasNull(with)
      BY <2>3, <2>6, NullsExtend
    <3> QED BY <1>1, <2>3, <3>1, NullsUpdate DEF with
  <2> QED BY <2>4, <2>5, <2>6
<1>5. CASE VisitStruct
  <2> DEFINE n == Next_node
             fields == {declared(child(n, i)) : i \in 1..arity(n) - 1}
             sym(d) == NewSymbol(parent(d), {"field"})
             more == [d \in DOMAIN info \cup fields |->
                        IF d \in fields THEN sym(d) ELSE info[d]]
  <2>1. WellFormed(ast, Name) /\ n \in DOMAIN ast /\ symbol(n) = "TOK_STRUCT"
    BY <1>5, Goes DEF VisitStruct, Visiting
  <2>2. info' = info \/ info' = more
    BY <1>5 DEF VisitStruct
  <2>3. \A d \in fields : sym(d).params = <<>>
    BY <2>1, FieldSymbol
  <2> HIDE DEF fields, sym
  <2>4. /\ DOMAIN more = DOMAIN info \cup fields
        /\ \A d \in DOMAIN more :
             more[d] = IF d \in fields THEN sym(d) ELSE info[d]
    OBVIOUS
  <2> HIDE DEF more
  <2>5. DOMAIN <<>> = {}
    OBVIOUS
  <2>6. \A x \in DOMAIN more :
          \/ x \in DOMAIN info /\ more[x].params = info[x].params
          \/ \A i \in DOMAIN more[x].params : more[x].params[i] # NULL
    BY <2>3, <2>4, <2>5
  <2> QED BY <1>2, <2>2, <2>6, NoNewNull
<1>6. CASE VisitFunction
  <2> DEFINE n == Next_node
             d == declared(child(n, 0))
             prev == GlobalSymbol(lexinfo(d))
             sym == NewSymbol(child(n, 0), {"function"})
  <2>1. /\ Running /\ HasNext
        /\ symbol(Next_node) \in {"TOK_FUNCTION", "TOK_PROTOTYPE"}
    BY <1>6 DEF VisitFunction, Visiting
  <2>2. sym.params = <<>>
    BY <2>1, FunctionSymbol
  <2>3. \/ info' = info \/ info' = Extend(info, d, sym)
        \/ info' = [info EXCEPT ![prev].params = <<>>, ![prev].fnblock = NULL]
    BY <1>6 DEF VisitFunction, Redeclare, SkipFunction, EnterFunction
  <2> HIDE DEF d, prev, sym
  <2> QED BY <1>1, <1>2, <2>2, <2>3, NullsExtend, NullsUpdate
<1>7. CASE EndParams
  <2> DEFINE f == GlobalSymbol(current_function)
             b == child(parent(Caller.node), 2)
  <2>1. info' = info \/ info' = [info EXCEPT ![f].fnblock = b]
    BY <1>7 DEF EndParams
  <2> HIDE DEF f, b
  <2> QED BY <1>1, <1>2, <2>1, NullsUpdate
<1> HIDE DEF Goal
<1>8. CASE VisitVoid
  BY <1>2, <1>8 DEF VisitVoid, Report
<1>9. CASE EndFunction
  BY <1>2, <1>9 DEF EndFunction
<1>10. CASE VisitNode
  BY <1>2, <1>10 DEF VisitNode
<1>11. CASE LeaveIdent
  BY <1>2, <1>11 DEF LeaveIdent
<1>12. CASE LeaveSelector
  BY <1>2, <1>12 DEF LeaveSelector
<1>13. CASE LeaveAllocator
  BY <1>2, <1>13 DEF LeaveAllocator
<1>14. CASE LeaveCall
  BY <1>2, <1>14 DEF LeaveCall
<1>15. CASE LeaveNode
  BY <1>2, <1>15 DEF LeaveNode
<1> QED BY <1>3, <1>4, <1>5, <1>6, <1>7, <1>8, <1>9, <1>10, <1>11, <1>12,
           <1>13, <1>14, <1>15 DEF Next

(* A call that is broken calls a function with such a parameter. *)
LEMMA BrokenHasNull ==
  ASSUME InfoTyped, LinksTyped, NEW n, child(n, 0) \in Node,
         symentry[child(n, 0)] # NULL, CallBroken(n)
  PROVE  HasNull(info)
<1> DEFINE f == symentry[child(n, 0)]
<1>1. f \in DOMAIN info
  BY DEF LinksTyped, InfoTyped, Known
<1> QED BY <1>1 DEF CallBroken, HasNull

LEMMA CrashStep ==
  TraversalInv /\ DataInv /\ CrashInv /\ [Next]_vars => CrashInv'
<1> SUFFICES ASSUME TraversalInv, DataInv, CrashInv, [Next]_vars
             PROVE  CrashInv'
  OBVIOUS
<1>1. CASE Next
  <2>1. /\ semantic_errors \in Nat /\ semantic_errors' \in Nat
        /\ semantic_errors' >= semantic_errors
    BY <1>1, StepCounts DEF Counting, DataInv, CountsTyped
  <2>2. HasNull(info') => semantic_errors' > 0
    <3>1. HasNull(info') => HasNull(info) \/ semantic_errors' > semantic_errors
      BY <1>1, NullsReported
    <3>2. HasNull(info) => semantic_errors > 0
      BY DEF CrashInv
    <3> QED BY <2>1, <3>1, <3>2
  <2>3. crashed' => semantic_errors' > 0
    <3>1. \/ crashed' = crashed
          \/ semantic_errors' > semantic_errors
          \/ /\ LeaveCall /\ CallBroken(Caller.node)
             /\ symentry[child(Caller.node, 0)] # NULL
      BY <1>1, StepCrashes
    <3>2. CASE /\ LeaveCall /\ CallBroken(Caller.node)
               /\ symentry[child(Caller.node, 0)] # NULL
      <4>1. Running /\ symbol(Caller.node) = "TOK_CALL"
        BY <3>2 DEF LeaveCall, Returning
      <4>2. child(Caller.node, 0) \in Node
        BY <4>1, CallerIs, Operands
      <4>3. HasNull(info)
        BY <3>2, <4>2, BrokenHasNull DEF DataInv
      <4> QED BY <2>1, <4>3 DEF CrashInv
    <3>3. CASE crashed' = crashed
      <4>1. crashed' => semantic_errors > 0
        BY <3>3 DEF CrashInv
      <4> QED BY <2>1, <4>1
    <3>4. CASE semantic_errors' > semantic_errors
      BY <2>1, <3>4
    <3> QED BY <3>1, <3>2, <3>3, <3>4
  <2> QED BY <2>2, <2>3 DEF CrashInv
<1>2. CASE UNCHANGED vars
  BY <1>2 DEF vars, semVars, CrashInv
<1> QED BY <1>1, <1>2

LEMMA CrashInit == Init => CrashInv
BY DEF Init, CrashInv, HasNull

(* The pass dereferences a null pointer (a field or a parameter that got   *)
(* no symbol) only in a program that has an error: a program that is right *)
(* is never the cause of a crash.                                          *)
THEOREM CrashesAfterErrors == Spec => []CrashOnlyAfterError
<1>1. Init => TraversalInv /\ DataInv /\ CrashInv
  BY TraversalInit, DataInit, CrashInit
<1>2. TraversalInv /\ DataInv /\ CrashInv /\ [Next]_vars
        => (TraversalInv /\ DataInv /\ CrashInv)'
  BY TraversalStep, DataStep, CrashStep
<1>3. CrashInv => CrashOnlyAfterError
  BY DEF CrashInv, CrashOnlyAfterError
<1> QED BY <1>1, <1>2, <1>3, PTL DEF Spec

-----------------------------------------------------------------------------
(* How the call stack moves. *)

Callables == {"TOK_FUNCTION", "TOK_PROTOTYPE"}

(* What dfs_traverse does not go into. *)
PassedOver == VariableTypes \cup TypeName \cup {"TOK_STRUCT"} \cup Callables

Passes == /\ HasNext /\ calls' = Advanced
          /\ symbol(Next_node) \in PassedOver

Enters == /\ HasNext /\ calls' = Append(Advanced, Frame(Next_node))
          /\ symbol(Next_node) \notin Special
          /\ symbol(Caller.node) # "TOK_PARAMLIST"

Begins_function ==
  /\ HasNext /\ symbol(Next_node) \in Callables
  /\ symbol(Caller.node) # "TOK_PARAMLIST"
  /\ calls' = Append(Append(Advanced, [node |-> Next_node, next |-> 2]),
                     Frame(child(Next_node, 1)))
  /\ VisitFunction
  /\ EnterFunction(Next_node,
       GlobalSymbol(lexinfo(declared(child(Next_node, 0)))))

Leaves == ~ HasNext /\ calls' = Front(calls)

LEMMA Moves ==
  ASSUME TraversalInv, Next
  PROVE  /\ Running /\ ast' = ast
         /\ Passes \/ Enters \/ Begins_function \/ Leaves
<1>1. Running /\ HasNext => /\ Advanced \in Seq(Frames(ast))
                            /\ Advanced \o <<>> = Advanced
                            /\ Next_node \in DOMAIN ast
                            /\ WellFormed(ast, Name)
  BY Goes
<1>2. CASE VisitDeclaration
  <2>1. /\ Running /\ HasNext /\ symbol(Next_node) \in VariableTypes
        /\ Call(<<>>) /\ ast' = ast
    BY <1>2 DEF VisitDeclaration, Visiting
  <2> QED BY <1>1, <2>1 DEF Call, Passes, PassedOver
<1>3. CASE VisitVoid
  <2>1. /\ Running /\ HasNext /\ symbol(Next_node) \in {"TOK_VOID"}
        /\ Call(<<>>) /\ ast' = ast
    BY <1>3 DEF VisitVoid, Visiting
  <2> QED BY <1>1, <2>1 DEF Call, Passes, PassedOver, TypeName
<1>4. CASE VisitStruct
  <2>1. /\ Running /\ HasNext /\ symbol(Next_node) \in {"TOK_STRUCT"}
        /\ Call(<<>>) /\ ast' = ast
    BY <1>4 DEF VisitStruct, Visiting
  <2> QED BY <1>1, <2>1 DEF Call, Passes, PassedOver
<1>5. CASE DeclareParam
  <2>1. /\ Running /\ HasNext /\ symbol(Caller.node) = "TOK_PARAMLIST"
        /\ Call(<<>>) /\ ast' = ast
    BY <1>5 DEF DeclareParam
  <2>2. Declaration(ast, Next_node, "TOK_DECLID")
    BY <2>1, NextDeclares
  <2>3. symbol(Next_node) \in TypeName \cup {"TOK_ARRAY"}
    BY <2>2 DEF Declaration, symbol
  <2> QED BY <1>1, <2>1, <2>3 DEF Call, Passes, PassedOver, VariableTypes
<1>6. CASE VisitFunction
  <2>1. /\ Running /\ HasNext /\ symbol(Next_node) \in Callables
        /\ symbol(Caller.node) # "TOK_PARAMLIST" /\ ast' = ast
    BY <1>6 DEF VisitFunction, Visiting, Callables
  <2> DEFINE prev == GlobalSymbol(lexinfo(declared(child(Next_node, 0))))
  <2>2. Call(<<>>) \/ EnterFunction(Next_node, prev)
    BY <1>6 DEF VisitFunction, Redeclare, SkipFunction
  <2>3. CASE Call(<<>>)
    BY <1>1, <2>1, <2>3 DEF Call, Passes, PassedOver
  <2>4. CASE EnterFunction(Next_node, prev)
    <3> DEFINE f == [node |-> Next_node, next |-> 2]
               g == Frame(child(Next_node, 1))
    <3>1. calls' = Advanced \o <<f, g>>
      BY <2>4 DEF EnterFunction, Call
    <3>2. f \in Frames(ast) /\ g \in Frames(ast)
      BY <1>1, <2>1, FunctionDeclares DEF Callables, Frame, Frames
    <3> HIDE DEF f, g
    <3>3. calls' = Append(Append(Advanced, f), g)
      BY <1>1, <2>1, <3>1, <3>2, AppendTwice
    <3> QED BY <1>6, <2>1, <2>4, <3>3 DEF Begins_function, f, g
  <2> QED BY <2>2, <2>3, <2>4
<1>7. CASE VisitNode
  <2>1. /\ Running /\ HasNext /\ symbol(Next_node) \notin Special
        /\ symbol(Caller.node) # "TOK_PARAMLIST" /\ ast' = ast
        /\ calls' = Advanced \o <<Frame(Next_node)>>
    BY <1>7 DEF VisitNode, Call
  <2>2. Frame(Next_node) \in Frames(ast)
    BY <1>1, <2>1 DEF Frame, Frames
  <2>3. Advanced \o <<Frame(Next_node)>> = Append(Advanced, Frame(Next_node))
    BY <1>1, <2>1, <2>2, AppendIsConcat
  <2> QED BY <2>1, <2>3 DEF Enters
<1>8. CASE EndParams
  BY <1>8 DEF EndParams, Returning, Return, Leaves
<1>9. CASE EndFunction
  BY <1>9 DEF EndFunction, Returning, Return, Leaves
<1>10. CASE LeaveIdent
  BY <1>10 DEF LeaveIdent, Returning, Return, Leaves
<1>11. CASE LeaveSelector
  BY <1>11 DEF LeaveSelector, Returning, Return, Leaves
<1>12. CASE LeaveAllocator
  BY <1>12 DEF LeaveAllocator, Returning, Return, Leaves
<1>13. CASE LeaveCall
  BY <1>13 DEF LeaveCall, Returning, Return, Leaves
<1>14. CASE LeaveNode
  BY <1>14 DEF LeaveNode, Return, Leaves
<1> QED BY <1>2, <1>3, <1>4, <1>5, <1>6, <1>7, <1>8, <1>9, <1>10, <1>11,
           <1>12, <1>13, <1>14 DEF Next

-----------------------------------------------------------------------------
(* What the frames went over. *)

OnStack(cs) == {cs[i].node : i \in 1..Len(cs)}

(* The nodes that the frames went over are in the set. *)
Met(p, cs, set) ==
  \A i \in 1..Len(cs) : \A k \in 1..Len(Path(p, cs[i].node)) :
    k < cs[i].next => Path(p, cs[i].node)[k] \in set

LEMMA MetWidens ==
  ASSUME NEW p, NEW cs, NEW set, Met(p, cs, set), NEW more, set \subseteq more
  PROVE  Met(p, cs, more)
BY DEF Met

LEMMA MetAdvanced ==
  ASSUME NEW p, NEW names, WellFormed(p, names),
         NEW cs \in Seq(Frames(p)), cs # <<>>, NEW set, Met(p, cs, set),
         Path(p, cs[Len(cs)].node)[cs[Len(cs)].next] \in set
  PROVE  /\ Met(p, AdvancedIn(cs), set)
         /\ OnStack(AdvancedIn(cs)) = OnStack(cs)
<1> DEFINE as == AdvancedIn(cs)
           k == Len(cs)
           f == cs[k]
           s == Path(p, f.node)
<1>1. /\ k \in 1..Len(cs) /\ f \in Frames(p)
  BY FrontFacts, ElementOfSeq
<1>2. f.next \in Nat
  BY <1>1 DEF Frames
<1>3. /\ Len(as) = Len(cs) /\ \A i \in 1..Len(cs) : i # k => as[i] = cs[i]
      /\ as[k] = [f EXCEPT !.next = f.next + 1]
  BY <1>1 DEF AdvancedIn
<1> HIDE DEF as, k, f
<1>4. as[k].node = f.node /\ as[k].next = f.next + 1
  BY <1>1, <1>3 DEF Frames
<1>5. ASSUME NEW i \in 1..Len(as), NEW j \in 1..Len(Path(p, as[i].node)),
             j < as[i].next
      PROVE  Path(p, as[i].node)[j] \in set
  <2>1. CASE i # k
    BY <1>3, <1>5, <2>1 DEF Met
  <2>2. CASE i = k
    <3> DEFINE t == f.next
    <3>1. j < t \/ j = t
      <4>1. t \in Nat /\ as[i].next = t + 1
        BY <1>2, <1>4, <2>2
      <4>2. Len(Path(p, as[i].node)) \in Nat
        <5> DEFINE n == f.node
        <5>1. n \in DOMAIN p /\ as[i].node = n
          BY <1>1, <1>4, <2>2 DEF Frames
        <5> HIDE DEF n
        <5>2. Path(p, n) \in Seq(DOMAIN p)
          BY <5>1, PathFollows
        <5> QED BY <5>1, <5>2
      <4> HIDE DEF t
      <4>3. j \in Nat /\ j < t + 1
        BY <1>5, <4>1, <4>2
      <4> QED BY <4>1, <4>3
    <3>2. CASE j < f.next
      BY <1>1, <1>4, <1>5, <2>2, <3>2 DEF Met, f
    <3>3. CASE j = f.next
      BY <1>4, <1>5, <2>2, <3>3 DEF f, k
    <3> QED BY <3>1, <3>2, <3>3
  <2> QED BY <2>1, <2>2
<1>6. \A i \in 1..Len(cs) : as[i].node = cs[i].node
  BY <1>3, <1>4 DEF f
<1> QED BY <1>3, <1>5, <1>6 DEF Met, OnStack, as

LEMMA MetPushed ==
  ASSUME NEW p, NEW cs \in Seq(Frames(p)), NEW set, Met(p, cs, set),
         NEW f \in Frames(p),
         \A k \in 1..Len(Path(p, f.node)) :
           k < f.next => Path(p, f.node)[k] \in set
  PROVE  /\ Met(p, Append(cs, f), set)
         /\ OnStack(Append(cs, f)) = OnStack(cs) \cup {f.node}
         /\ Append(cs, f) \in Seq(Frames(p))
<1> DEFINE as == Append(cs, f)
<1>1. /\ Len(as) = Len(cs) + 1 /\ as[Len(cs) + 1] = f /\ Len(cs) \in Nat
      /\ \A i \in 1..Len(cs) : as[i] = cs[i]
      /\ as \in Seq(Frames(p))
  BY AppendProperties
<1>2. /\ \A i \in 1..Len(cs) + 1 : i = Len(cs) + 1 \/ i \in 1..Len(cs)
      /\ \A i \in 1..Len(cs) : i \in 1..Len(cs) + 1
      /\ Len(cs) + 1 \in 1..Len(cs) + 1
  BY <1>1
<1> HIDE DEF as
<1>3. Met(p, as, set)
  BY <1>1, <1>2 DEF Met
<1>4. OnStack(as) = OnStack(cs) \cup {f.node}
  BY <1>1, <1>2 DEF OnStack
<1> QED BY <1>1, <1>3, <1>4 DEF as

LEMMA MetPushedTwice ==
  ASSUME NEW p, NEW cs \in Seq(Frames(p)), NEW set, Met(p, cs, set),
         NEW f \in Frames(p), NEW g \in Frames(p),
         \A k \in 1..Len(Path(p, f.node)) :
           k < f.next => Path(p, f.node)[k] \in set,
         \A k \in 1..Len(Path(p, g.node)) :
           k < g.next => Path(p, g.node)[k] \in set
  PROVE  /\ Met(p, Append(Append(cs, f), g), set)
         /\ OnStack(Append(Append(cs, f), g))
              = OnStack(cs) \cup {f.node, g.node}
<1>1. /\ Met(p, Append(cs, f), set) /\ Append(cs, f) \in Seq(Frames(p))
      /\ OnStack(Append(cs, f)) = OnStack(cs) \cup {f.node}
  BY MetPushed
<1>2. ASSUME NEW as, Met(p, as, set), as \in Seq(Frames(p))
      PROVE  /\ Met(p, Append(as, g), set)
             /\ OnStack(Append(as, g)) = OnStack(as) \cup {g.node}
  <2>1. /\ Met(p, Append(as, g), set)
        /\ OnStack(Append(as, g)) = OnStack(as) \cup {g.node}
        /\ Append(as, g) \in Seq(Frames(p))
    BY <1>2, MetPushed
  <2> QED BY <2>1
<1>3. /\ Met(p, Append(Append(cs, f), g), set)
      /\ OnStack(Append(Append(cs, f), g))
           = OnStack(Append(cs, f)) \cup {g.node}
  BY <1>1, <1>2
<1> QED BY <1>1, <1>3

LEMMA MetPopped ==
  ASSUME NEW p, NEW cs \in Seq(Frames(p)), cs # <<>>, NEW set, Met(p, cs, set)
  PROVE  /\ Met(p, Front(cs), set)
         /\ OnStack(cs) = OnStack(Front(cs)) \cup {Last(cs).node}
<1> DEFINE as == Front(cs)
           k == Len(cs) - 1
<1>1. /\ Len(cs) \in Nat \ {0} /\ Len(as) = k
      /\ \A i \in 1..k : as[i] = cs[i]
      /\ Last(cs) = cs[Len(cs)]
  BY FrontFacts
<1>2. /\ \A i \in 1..Len(cs) : i = Len(cs) \/ i \in 1..k
      /\ \A i \in 1..k : i \in 1..Len(cs)
      /\ Len(cs) \in 1..Len(cs)
  BY <1>1
<1> HIDE DEF as, k
<1>3. Met(p, as, set)
  BY <1>1, <1>2 DEF Met
<1>4. OnStack(cs) = OnStack(as) \cup {Last(cs).node}
  BY <1>1, <1>2 DEF OnStack
<1> QED BY <1>3, <1>4 DEF as

-----------------------------------------------------------------------------
(* What becomes of expressions. *)

(* An identifier is bound, another expression has a type. *)
Settled(p, at, se, n) ==
  p[n].symbol \in Expression =>
    IF p[n].symbol = "TOK_IDENT" THEN se[n] # NULL ELSE at[n] # {}

Done(p, at, se) == {n \in DOMAIN p : Settled(p, at, se, n)}

(* Until the first error, whatever was gone over is settled, or entered.   *)
Finished(p, cs, at, se) == Met(p, cs, Done(p, at, se) \cup OnStack(cs))

DiagnosisInv ==
  /\ reported => semantic_errors > 0
  /\ semantic_errors > 0 => reported
  /\ reported \/ Finished(ast, calls, attributes, symentry)

(* What is bound stays so, but for the identifier that is left. *)
LEMMA StaysBound ==
  ASSUME TraversalInv, DataInv, Next, NEW n \in Node, symentry[n] # NULL,
         ~ (Leaves /\ n = Caller.node)
  PROVE  symentry'[n] # NULL
<1>1. symentry \in [Node -> Declared \cup {NULL}]
  BY DEF DataInv, LinksTyped
<1>2. ASSUME symentry' = symentry PROVE symentry'[n] # NULL
  BY <1>2
<1>3. ASSUME NEW d \in Node, symentry' = [symentry EXCEPT ![d] = d]
      PROVE  symentry'[n] # NULL
  BY <1>1, <1>3, NullAssumption
<1>4. ASSUME NEW m, NEW initial, declared(m) \in Node, Symbolize(m, initial)
      PROVE  symentry'[n] # NULL
  BY <1>2, <1>3, <1>4, Symbolizes
<1>5. CASE VisitDeclaration
  <2>1. /\ Running /\ HasNext /\ symbol(Next_node) \in VariableTypes
        /\ Symbolize(Next_node, {})
    BY <1>5 DEF VisitDeclaration, Visiting
  <2>2. declared(Next_node) \in Node
    BY <2>1, NextDeclares, NewDeclaration
  <2> QED BY <1>4, <2>1, <2>2
<1>6. CASE DeclareParam
  <2>1. /\ Running /\ HasNext /\ symbol(Caller.node) = "TOK_PARAMLIST"
        /\ Symbolize(Next_node, {"param"})
    BY <1>6 DEF DeclareParam
  <2>2. declared(Next_node) \in Node
    BY <2>1, NextDeclares, NewDeclaration
  <2> QED BY <1>4, <2>1, <2>2
<1>7. CASE VisitFunction
  <2> DEFINE d == declared(child(Next_node, 0))
             prev == GlobalSymbol(lexinfo(d))
  <2>1. /\ Running /\ HasNext
        /\ symbol(Next_node) \in {"TOK_FUNCTION", "TOK_PROTOTYPE"}
    BY <1>7 DEF VisitFunction, Visiting
  <2>2. UNCHANGED scopeVars \/ EnterFunction(Next_node, prev)
    BY <1>7 DEF VisitFunction, Redeclare, SkipFunction
  <2>3. CASE EnterFunction(Next_node, prev)
    <3>1. /\ d \in Node /\ lexinfo(d) \in Name /\ ScopesInv
          /\ BeginFunction(d, lexinfo(d))
      BY <2>1, <2>3, FunctionSymbol DEF EnterFunction, TraversalInv
    <3>2. symentry' = [symentry EXCEPT ![d] = d] \/ symentry' = symentry
      BY <3>1, Begins
    <3> HIDE DEF d
    <3> QED BY <1>2, <1>3, <3>1, <3>2
  <2>4. CASE UNCHANGED scopeVars
    BY <1>2, <2>4 DEF scopeVars
  <2> QED BY <2>2, <2>3, <2>4
<1>8. CASE LeaveIdent
  <2>1. /\ Leaves
        /\ symentry' = [symentry EXCEPT ![Caller.node] =
                          find_symbol(lexinfo(Caller.node))]
    BY <1>8 DEF LeaveIdent, Returning, Return, Leaves, UseSymbol
  <2> QED BY <1>1, <2>1
<1>9. CASE VisitVoid
  BY <1>2, <1>9 DEF VisitVoid, scopeVars
<1>10. CASE VisitStruct
  BY <1>2, <1>10 DEF VisitStruct, scopeVars
<1>11. CASE EndParams
  BY <1>2, <1>11 DEF EndParams, scopeVars
<1>12. CASE EndFunction
  BY <1>2, <1>12 DEF EndFunction, LeaveBlock
<1>13. CASE VisitNode
  BY <1>2, <1>13 DEF VisitNode, EnterBlock, scopeVars
<1>14. CASE LeaveSelector
  BY <1>2, <1>14 DEF LeaveSelector, scopeVars
<1>15. CASE LeaveAllocator
  BY <1>2, <1>15 DEF LeaveAllocator, scopeVars
<1>16. CASE LeaveCall
  BY <1>2, <1>16 DEF LeaveCall, scopeVars
<1>17. CASE LeaveNode
  BY <1>2, <1>17 DEF LeaveNode, LeaveBlock, scopeVars
<1> QED BY <1>5, <1>6, <1>7, <1>8, <1>9, <1>10, <1>11, <1>12, <1>13, <1>14,
           <1>15, <1>16, <1>17 DEF Next

(* The element type of an allocator is no expression. *)
LEMMA ElementIsType ==
  ASSUME WellFormed(ast, Name), NEW n \in DOMAIN ast,
         symbol(n) \in {"TOK_NEW", "TOK_NEWARRAY"}
  PROVE  symbol(child(n, 0)) \notin Expression /\ child(n, 0) # n
<1> DEFINE kids == ast[n].children
<1>1. /\ Built(ast, n) /\ child(n, 0) = kids[1]
      /\ symbol(child(n, 0)) = ast[kids[1]].symbol
  BY DEF WellFormed, child, children, symbol
<1>2. symbol(child(n, 0)) \in TypeName
  <2>1. CASE symbol(n) = "TOK_NEW"
    BY <1>1, <2>1 DEF Built, symbol, TypeName
  <2>2. CASE symbol(n) = "TOK_NEWARRAY"
    BY <1>1, <2>2 DEF Built, symbol, Type
  <2> QED BY <2>1, <2>2
<1> QED BY <1>2 DEF TypeName, Expression, NoOperand, OneOperand, TwoOperands

(* An expression that is not being left keeps its attributes. *)
LEMMA StaysTyped ==
  ASSUME TraversalInv, DataInv, Next,
         NEW n \in DOMAIN ast, ast[n].symbol \in Expression,
         ~ (Leaves /\ n = Caller.node)
  PROVE  attributes'[n] = attributes[n]
<1>1. symbol(n) \in Expression /\ attributes \in [Node -> SUBSET Attr]
      /\ n \in Node
  BY Tree DEF symbol, DataInv, NodesTyped, TraversalInv
<1>2. ASSUME attributes' = attributes PROVE attributes'[n] = attributes[n]
  BY <1>2
<1>3. ASSUME NEW a, Leaves, attributes' = [attributes EXCEPT ![Caller.node] = a]
      PROVE  attributes'[n] = attributes[n]
  BY <1>1, <1>3
<1>4. CASE VisitDeclaration
  <2> DEFINE a == NewSymbol(Next_node, {}).attributes
  <2>1. /\ symbol(Next_node) \in VariableTypes
        /\ \/ attributes' = attributes
           \/ attributes' = [attributes EXCEPT ![Next_node] = a]
    BY <1>4 DEF VisitDeclaration, Visiting
  <2> HIDE DEF a
  <2>2. n # Next_node
    BY <1>1, <2>1 DEF VariableTypes, Expression, NoOperand, OneOperand,
                      TwoOperands
  <2> QED BY <1>1, <2>1, <2>2
<1>5. CASE LeaveSelector
  BY <1>3, <1>5 DEF LeaveSelector, Returning, Return, Leaves
<1>6. CASE LeaveAllocator
  <2> DEFINE m == Caller.node
             e == ElementType(m)
             res == IF symbol(m) = "TOK_NEW"
                    THEN attr_handle_new(e.attributes, e.type_name)
                    ELSE attr_handle_newarray(e.attributes, e.type_name,
                           get_node_attributes(child(m, 1)))
  <2>1. /\ Running /\ symbol(m) \in {"TOK_NEW", "TOK_NEWARRAY"} /\ Leaves
        /\ attributes' = [attributes EXCEPT ![child(m, 0)] = e.attributes,
                                            ![m] = res.attributes]
    BY <1>6 DEF LeaveAllocator, Returning, Return, Leaves
  <2>2. n # child(m, 0)
    BY <1>1, <2>1, CallerIs, ElementIsType
  <2> HIDE DEF res, e
  <2> QED BY <1>1, <2>1, <2>2
<1>7. CASE LeaveCall
  <2> DEFINE res == CallResult(Caller.node)
  <2>1. /\ Leaves
        /\ \/ attributes' = attributes
           \/ attributes' = [attributes EXCEPT ![Caller.node] = res.attributes]
    BY <1>7 DEF LeaveCall, Returning, Return, Leaves, CallResult, CallParams,
                CallArgs
  <2> HIDE DEF res
  <2> QED BY <1>2, <1>3, <2>1
<1>8. CASE LeaveNode
  BY <1>3, <1>8 DEF LeaveNode, Return, Leaves
<1>9. CASE VisitVoid
  BY <1>2, <1>9 DEF VisitVoid
<1>10. CASE VisitStruct
  BY <1>2, <1>10 DEF VisitStruct
<1>11. CASE VisitFunction
  BY <1>2, <1>11 DEF VisitFunction
<1>12. CASE DeclareParam
  BY <1>2, <1>12 DEF DeclareParam
<1>13. CASE EndParams
  BY <1>2, <1>13 DEF EndParams
<1>14. CASE EndFunction
  BY <1>2, <1>14 DEF EndFunction
<1>15. CASE VisitNode
  BY <1>2, <1>15 DEF VisitNode
<1>16. CASE LeaveIdent
  BY <1>2, <1>16 DEF LeaveIdent
<1> QED BY <1>4, <1>5, <1>6, <1>7, <1>8, <1>9, <1>10, <1>11, <1>12, <1>13,
           <1>14, <1>15, <1>16 DEF Next

LEMMA StaysDone ==
  ASSUME TraversalInv, DataInv, Next, NEW n \in Done(ast, attributes, symentry)
  PROVE  \/ n \in Done(ast, attributes', symentry')
         \/ Leaves /\ n = Caller.node
<1>1. n \in DOMAIN ast /\ n \in Node /\ Settled(ast, attributes, symentry, n)
  BY Tree DEF Done, TraversalInv
<1>2. ASSUME ~ (Leaves /\ n = Caller.node), ast[n].symbol \in Expression
      PROVE  Settled(ast, attributes', symentry', n)
  <2>1. CASE ast[n].symbol = "TOK_IDENT"
    BY <1>1, <1>2, <2>1, StaysBound DEF Settled
  <2>2. CASE ast[n].symbol # "TOK_IDENT"
    BY <1>1, <1>2, <2>2, StaysTyped DEF Settled
  <2> QED BY <2>1, <2>2
<1> QED BY <1>1, <1>2 DEF Done, Settled

(* The first operand of what is left is settled. *)
LEMMA FirstOperand ==
  ASSUME TraversalInv, Running, ~ HasNext,
         Finished(ast, calls, attributes, symentry),
         symbol(Caller.node) \in {"TOK_INDEX", "TOK_RETURN", "TOK_CALL"}
  PROVE  child(Caller.node, 0) \in Done(ast, attributes, symentry)
<1> DEFINE n == Caller.node
           c == child(n, 0)
           k == Len(calls)
           done == Done(ast, attributes, symentry)
<1>1. /\ WellFormed(ast, Name) /\ calls \in Seq(Frames(ast)) /\ calls # <<>>
      /\ Caller = calls[k] /\ n \in DOMAIN ast
      /\ Caller \in Frames(ast)
  BY CallerIs
<1>2. c \in Kids(ast, n) /\ c = ast[n].children[1]
  <2>1. n \in DOMAIN ast
    BY <1>1
  <2>2. symbol(n) \in TwoOperands \cup {"TOK_RETURN", "TOK_CALL"}
    BY DEF TwoOperands
  <2> QED BY <1>1, <2>2, Operands DEF child, children
<1>3. Path(ast, n) = ast[n].children /\ Visits(n) = Path(ast, n)
  <2>1. Path(ast, n) = ast[n].children
    BY DEF Path, symbol
  <2> QED BY <2>1, VisitsArePath
<1>4. ast[n].children \in Seq(DOMAIN ast)
  BY <1>1, KidsFollow
<1> DEFINE s == ast[n].children
<1>5. Len(s) \in Nat /\ 1 \in 1..Len(s)
  <2>1. s \in Seq(DOMAIN ast) /\ \E i \in DOMAIN s : c = s[i]
    BY <1>2, <1>4 DEF Kids, Range
  <2> HIDE DEF s, c
  <2> QED BY <2>1
<1>6. Caller.next \in Nat /\ Caller.next > Len(s)
  <2>1. Caller.next \in Nat
    BY <1>1 DEF Frames
  <2>2. ~ (Caller.next <= Len(s))
    BY <1>3 DEF HasNext
  <2> HIDE DEF s
  <2> QED BY <1>5, <2>1, <2>2
<1>7. k \in 1..k /\ k \in Nat
  BY <1>1, FrontFacts
<1>8. 1 < Caller.next
  <2> HIDE DEF s
  <2> QED BY <1>5, <1>6
<1>9. c \in done \cup OnStack(calls)
  <2>1. calls[k].node = n /\ calls[k].next = Caller.next
    BY <1>1
  <2>2. 1 \in 1..Len(Path(ast, calls[k].node))
    BY <1>3, <1>5, <2>1
  <2>3. Path(ast, calls[k].node)[1] \in done \cup OnStack(calls)
    <3> HIDE DEF n, s, done
    <3> QED BY <1>7, <1>8, <2>1, <2>2 DEF Finished, Met, k, done
  <2> QED BY <1>2, <1>3, <2>1, <2>3
<1>10. c \notin OnStack(calls)
  <2> SUFFICES ASSUME NEW i \in 1..k, c = calls[i].node PROVE FALSE
    BY DEF OnStack
  <2>1. c \in Nat /\ n \in Nat /\ n < c
    BY <1>1, <1>2, KidsType
  <2>2. i = k \/ i < k
    BY <1>7
  <2>3. CASE i = k
    BY <1>1, <2>1, <2>3
  <2>4. CASE i < k
    <3>1. calls[i].node < calls[k].node
      BY <1>7, <2>4 DEF TraversalInv, Walk, Nested
    <3>2. c < n
      BY <1>1, <3>1
    <3> HIDE DEF c, n
    <3> QED BY <2>1, <3>2
  <2> QED BY <2>2, <2>3, <2>4
<1> QED BY <1>9, <1>10

(* So nothing fails without a word before the first error. *)
LEMMA NothingExcused ==
  ASSUME TraversalInv, DataInv,
         Finished(ast, calls, attributes, symentry)
  PROVE  ~ Excused
<1> SUFFICES ASSUME Excused PROVE FALSE
  OBVIOUS
<1> DEFINE n == Caller.node
           c == child(n, 0)
<1>1. /\ Running /\ ~ HasNext
      /\ symbol(n) \in {"TOK_INDEX", "TOK_RETURN", "TOK_CALL"}
  BY DEF Excused, LeaveNode, LeaveCall, Returning
<1>2. c \in Done(ast, attributes, symentry)
  BY <1>1, FirstOperand
<1>3. /\ WellFormed(ast, Name) /\ DOMAIN ast \subseteq Node /\ n \in DOMAIN ast
  BY <1>1, CallerIs
<1>4. c \in DOMAIN ast /\ c \in Node /\ Settled(ast, attributes, symentry, c)
  BY <1>2, <1>3 DEF Done
<1>5. CASE /\ LeaveNode /\ symbol(n) \in {"TOK_INDEX", "TOK_RETURN"}
           /\ get_node_attributes(c) = {}
  <2>1. symbol(c) \in Expression
    <3>1. symbol(n) \in TwoOperands \cup {"TOK_RETURN"}
      BY <1>5 DEF TwoOperands
    <3> QED BY <1>3, <3>1, Operands
  <2>2. symbol(c) # "TOK_DECLID" /\ symbol(c) # "TOK_FIELD"
    BY <2>1 DEF Expression, NoOperand, OneOperand, TwoOperands
  <2>3. CASE symbol(c) = "TOK_IDENT"
    <3>1. symentry[c] # NULL
      BY <1>4, <2>1, <2>3 DEF Settled, symbol
    <3> HIDE DEF c
    <3> QED BY <1>4, <1>5, <2>3, <3>1, NodeAttributes DEF DataInv
  <2>4. CASE symbol(c) # "TOK_IDENT"
    <3>1. attributes[c] # {}
      BY <1>4, <2>1, <2>4 DEF Settled, symbol
    <3> HIDE DEF c
    <3> QED BY <1>4, <1>5, <2>2, <2>4, <3>1, NodeAttributes DEF DataInv
  <2> QED BY <2>3, <2>4
<1>6. CASE LeaveCall /\ symentry[c] = NULL
  <2>1. symbol(n) = "TOK_CALL"
    BY <1>6 DEF LeaveCall, Returning
  <2>2. symbol(c) = "TOK_IDENT"
    <3>1. Built(ast, n) /\ ast[n].symbol = "TOK_CALL"
      BY <1>3, <2>1 DEF WellFormed, symbol
    <3>2. ast[ast[n].children[1]].symbol = "TOK_IDENT"
      BY <3>1 DEF Built
    <3> QED BY <3>2 DEF symbol, child, children
  <2>3. symbol(c) \in Expression
    BY <2>2 DEF Expression, NoOperand
  <2> QED BY <1>4, <1>6, <2>2, <2>3 DEF Settled, symbol
<1> QED BY <1>5, <1>6 DEF Excused

(* What is left without an error is settled. *)
LEMMA LeftIsSettled ==
  ASSUME TraversalInv, DataInv, CrashInv, Next, Leaves,
         Finished(ast, calls, attributes, symentry),
         semantic_errors = 0, semantic_errors' = 0
  PROVE  Settled(ast, attributes', symentry', Caller.node)
<1> DEFINE n == Caller.node
           Goal == Settled(ast, attributes', symentry', n)
<1> SUFFICES Goal
  OBVIOUS
<1>1. /\ Running /\ WellFormed(ast, Name) /\ DOMAIN ast \subseteq Node
      /\ n \in DOMAIN ast /\ n \in Node /\ ScopesInv /\ ~ HasNext
  BY Moves, CallerIs DEF Leaves
<1>2. /\ attributes \in [Node -> SUBSET Attr]
      /\ symentry \in [Node -> Declared \cup {NULL}]
      /\ CountsTyped
  BY DEF DataInv, NodesTyped, LinksTyped
<1>3. ASSUME symbol(n) \notin Expression PROVE Goal
  BY <1>3 DEF Settled, symbol
<1>4. ASSUME symbol(n) # "TOK_IDENT", attributes'[n] # {} PROVE Goal
  BY <1>4 DEF Settled, symbol
<1>5. ~ Report(1)
  <2> SUFFICES ASSUME Report(1) PROVE FALSE
    OBVIOUS
  <2>1. semantic_errors' > semantic_errors
    BY <1>2, ReportCounts
  <2> QED BY <2>1
<1>6. CASE LeaveIdent
  <2>1. /\ symbol(n) = "TOK_IDENT"
        /\ symentry' = [symentry EXCEPT ![n] = find_symbol(lexinfo(n))]
        /\ find_symbol(lexinfo(n)) = NULL => Report(1)
    BY <1>6 DEF LeaveIdent, Returning, UseSymbol
  <2>2. symentry'[n] # NULL
    BY <1>1, <1>2, <1>5, <2>1
  <2> QED BY <2>1, <2>2 DEF Settled, symbol
<1>7. CASE LeaveSelector
  <2> DEFINE t == type_name[child(n, 0)]
             u == child(n, 1)
             known == /\ t \in DOMAIN typeid_table
                      /\ lexinfo(u) \in DOMAIN typeid_table[t]
             field == typeid_table[t][lexinfo(u)]
             a == get_node_attributes(child(n, 0))
             b == IF known THEN info[field].attributes ELSE attributes[u]
             v == IF known THEN info[field].type_name ELSE type_name[u]
             res == attr_handle_field_selector(a, b, v)
  <2>1. /\ symbol(n) = "."
        /\ attributes' = [attributes EXCEPT ![n] = res.attributes]
    BY <1>7 DEF LeaveSelector, Returning
  <2> HIDE DEF a, b, v
  <2>2. res.attributes # {}
    BY DEF attr_handle_field_selector, Result
  <2> HIDE DEF res
  <2> QED BY <1>1, <1>2, <1>4, <2>1, <2>2
<1>8. CASE LeaveAllocator
  <2> DEFINE e == ElementType(n)
             res == IF symbol(n) = "TOK_NEW"
                    THEN attr_handle_new(e.attributes, e.type_name)
                    ELSE attr_handle_newarray(e.attributes, e.type_name,
                           get_node_attributes(child(n, 1)))
  <2>1. /\ symbol(n) \in {"TOK_NEW", "TOK_NEWARRAY"}
        /\ attributes' = [attributes EXCEPT ![child(n, 0)] = e.attributes,
                                            ![n] = res.attributes]
    BY <1>8 DEF LeaveAllocator, Returning
  <2>2. e.attributes \in SUBSET Attr /\ e.type_name \in Name \cup {NULL}
    BY <1>1, <2>1, ElementTyped
  <2> HIDE DEF e
  <2>3. Typed(res)
    BY <2>2, AllocatorsTyped
  <2> HIDE DEF res
  <2> QED BY <1>1, <1>2, <1>4, <2>1, <2>3 DEF Typed
<1>9. CASE LeaveCall
  <2> DEFINE res == CallResult(n)
             f == symentry[child(n, 0)]
  <2>1. symbol(n) = "TOK_CALL"
    BY <1>9 DEF LeaveCall, Returning
  <2>2. f # NULL
    BY <1>9, NothingExcused DEF Excused
  <2>3. child(n, 0) \in Node
    BY <1>1, <2>1, Operands
  <2>4. ~ CallBroken(n)
    BY <2>2, <2>3, BrokenHasNull DEF DataInv, CrashInv
  <2>5. /\ Tell(res)
        /\ attributes' = [attributes EXCEPT ![n] = res.attributes]
    BY <1>9, <2>2, <2>4
       DEF LeaveCall, CallResult, CallParams, CallArgs, CallBroken
  <2>6. res.ok => res.attributes # {}
    BY <1>1, <2>1, <2>2, CallTyped DEF DataInv
  <2> HIDE DEF res
  <2>7. res.ok
    BY <2>5 DEF Tell, Count
  <2> QED BY <1>1, <1>2, <1>4, <2>1, <2>5, <2>6, <2>7
<1>10. CASE LeaveNode
  <2> DEFINE res == process_attributes(n)
  <2>1. /\ symbol(n) \notin Separate
        /\ attributes' = [attributes EXCEPT ![n] = res.attributes]
    BY <1>10 DEF LeaveNode, Separate
  <2>2. symbol(n) \in Expression => res.attributes # {}
    BY <1>1, <2>1, ProcessJudged DEF DataInv
  <2> HIDE DEF res
  <2>3. symbol(n) # "TOK_IDENT"
    BY <2>1 DEF Separate
  <2> QED BY <1>1, <1>2, <1>3, <1>4, <2>1, <2>2, <2>3
<1>11. CASE EndParams
  <2>1. symbol(n) = "TOK_PARAMLIST"
    BY <1>11 DEF EndParams, Returning
  <2>2. symbol(n) \notin Expression
    BY <2>1 DEF Expression, NoOperand, OneOperand, TwoOperands
  <2> QED BY <1>3, <2>2
<1>12. CASE EndFunction
  <2>1. symbol(n) \in {"TOK_FUNCTION", "TOK_PROTOTYPE"}
    BY <1>12 DEF EndFunction, Returning
  <2>2. symbol(n) \notin Expression
    BY <2>1 DEF Expression, NoOperand, OneOperand, TwoOperands
  <2> QED BY <1>3, <2>2
<1> HIDE DEF Goal
<1>13. ASSUME VisitDeclaration \/ VisitVoid \/ VisitStruct \/ VisitFunction
       PROVE  FALSE
  BY <1>1, <1>13 DEF VisitDeclaration, VisitVoid, VisitStruct, VisitFunction,
                     Visiting
<1>14. ASSUME DeclareParam \/ VisitNode PROVE FALSE
  BY <1>1, <1>14 DEF DeclareParam, VisitNode
<1> QED BY <1>6, <1>7, <1>8, <1>9, <1>10, <1>11, <1>12, <1>13, <1>14 DEF Next

(* The stack of the next state. *)
LEMMA AdvancedMeets ==
  ASSUME TraversalInv, Running, HasNext, NEW set, Met(ast, calls, set),
         Next_node \in set
  PROVE  /\ Met(ast, Advanced, set) /\ OnStack(Advanced) = OnStack(calls)
         /\ Advanced \in Seq(Frames(ast))
<1>1. /\ WellFormed(ast, Name) /\ calls \in Seq(Frames(ast)) /\ calls # <<>>
      /\ Caller = calls[Len(calls)]
  BY CallerIs
<1>2. /\ Next_node = Path(ast, calls[Len(calls)].node)[calls[Len(calls)].next]
      /\ Advanced = AdvancedIn(calls)
  BY <1>1, VisitsArePath DEF Next_node, Advanced, AdvancedIn
<1>3. Advanced \in Seq(Frames(ast))
  BY Goes
<1> QED BY <1>1, <1>2, <1>3, MetAdvanced

LEMMA FinishedStep ==
  ASSUME TraversalInv, DataInv, CrashInv, Next,
         Finished(ast, calls, attributes, symentry),
         semantic_errors = 0, semantic_errors' = 0
  PROVE  Finished(ast, calls', attributes', symentry')
<1> DEFINE done == Done(ast, attributes, symentry)
           new == Done(ast, attributes', symentry')
           v == Next_node
<1>1. /\ Running /\ WellFormed(ast, Name) /\ calls \in Seq(Frames(ast))
      /\ calls # <<>>
      /\ Passes \/ Enters \/ Begins_function \/ Leaves
  BY Moves, CallerIs
<1>2. Met(ast, calls, done \cup OnStack(calls))
  BY DEF Finished
<1>3. ~ Leaves => done \subseteq new
  BY StaysDone
<1>4. done \subseteq new \cup {Caller.node}
  BY StaysDone
<1>5. ASSUME HasNext
      PROVE  /\ done \subseteq new /\ v \in DOMAIN ast
             /\ v \in DOMAIN ast \ new => symbol(v) \in Expression
  <2>1. ~ Leaves
    BY <1>5 DEF Leaves
  <2>2. v \in DOMAIN ast
    BY <1>1, <1>5, Goes
  <2>3. v \in new \/ symbol(v) \in Expression
    BY <2>2 DEF Done, Settled, symbol
  <2> QED BY <1>3, <2>1, <2>2, <2>3
<1> HIDE DEF done, new, v
<1>6. CASE Passes
  <2>1. HasNext /\ calls' = Advanced /\ symbol(v) \in PassedOver
    BY <1>6 DEF Passes, v
  <2>2. symbol(v) \notin Expression
    BY <2>1 DEF PassedOver, VariableTypes, TypeName, Callables, Expression,
                NoOperand, OneOperand, TwoOperands
  <2>3. v \in new /\ done \subseteq new
    BY <1>5, <2>1, <2>2
  <2> DEFINE set == new \cup OnStack(calls)
  <2>4. Met(ast, calls, set) /\ v \in set
    BY <1>2, <2>3, MetWidens
  <2> HIDE DEF set
  <2>5. Met(ast, Advanced, set) /\ OnStack(Advanced) = OnStack(calls)
    BY <1>1, <2>1, <2>4, AdvancedMeets DEF v
  <2> QED BY <2>1, <2>5 DEF Finished, set, new
<1>7. CASE Enters
  <2>1. HasNext /\ calls' = Append(Advanced, Frame(v))
    BY <1>7 DEF Enters, v
  <2>2. v \in DOMAIN ast /\ done \subseteq new
    BY <1>5, <2>1
  <2> DEFINE set == new \cup OnStack(calls) \cup {v}
  <2>3. Met(ast, calls, set) /\ v \in set
    BY <1>2, <2>2, MetWidens
  <2> HIDE DEF set
  <2>4. /\ Met(ast, Advanced, set) /\ OnStack(Advanced) = OnStack(calls)
        /\ Advanced \in Seq(Frames(ast))
    BY <1>1, <2>1, <2>3, AdvancedMeets DEF v
  <2>5. /\ Frame(v) \in Frames(ast) /\ Frame(v).node = v /\ Frame(v).next = 1
    BY <2>2 DEF Frame, Frames
  <2>6. Path(ast, v) \in Seq(DOMAIN ast)
    BY <1>1, <2>2, PathFollows
  <2>7. \A k \in 1..Len(Path(ast, v)) : ~ (k < 1)
    BY <2>6
  <2>8. /\ Met(ast, Append(Advanced, Frame(v)), set)
        /\ OnStack(Append(Advanced, Frame(v))) = OnStack(Advanced) \cup {v}
    BY <2>4, <2>5, <2>7, MetPushed
  <2>9. set = new \cup OnStack(calls')
    BY <2>1, <2>4, <2>8 DEF set
  <2> QED BY <2>1, <2>8, <2>9 DEF Finished, new
<1>8. CASE Begins_function
  <2> DEFINE f == [node |-> v, next |-> 2]
             pl == child(v, 1)
             g == Frame(pl)
             set == new \cup OnStack(calls) \cup {v, pl}
  <2>1. /\ HasNext /\ symbol(v) \in Callables
        /\ calls' = Append(Append(Advanced, f), g)
    BY <1>8 DEF Begins_function, v
  <2>2. v \in DOMAIN ast /\ done \subseteq new
    BY <1>5, <2>1
  <2>3. pl \in DOMAIN ast
    BY <1>1, <2>1, <2>2, FunctionDeclares DEF Callables
  <2>4. Met(ast, calls, set) /\ v \in set /\ pl \in set
    BY <1>2, <2>2, MetWidens
  <2> HIDE DEF set
  <2>5. /\ Met(ast, Advanced, set) /\ OnStack(Advanced) = OnStack(calls)
        /\ Advanced \in Seq(Frames(ast))
    BY <1>1, <2>1, <2>4, AdvancedMeets DEF v
  <2>6. /\ f \in Frames(ast) /\ f.node = v /\ f.next = 2
        /\ g \in Frames(ast) /\ g.node = pl /\ g.next = 1
    BY <2>2, <2>3 DEF Frame, Frames
  <2> HIDE DEF f, g
  <2>7. Path(ast, v)[1] = pl
    <3>1. CASE symbol(v) = "TOK_PROTOTYPE"
      BY <3>1 DEF Path, symbol, child, children
    <3>2. CASE symbol(v) = "TOK_FUNCTION"
      <4> DEFINE b == ast[Body(ast, v)].children
      <4>1. Path(ast, v) = <<pl>> \o b
        BY <3>2 DEF Path, symbol, child, children
      <4>2. b \in Seq(DOMAIN ast)
        <5>1. Body(ast, v) \in DOMAIN ast
          BY <1>1, <2>2, <3>2, BodyIsKid DEF symbol
        <5> QED BY <1>1, <5>1, KidsFollow
      <4> HIDE DEF b, pl
      <4>3. /\ <<pl>> \in Seq({pl} \cup DOMAIN ast)
            /\ b \in Seq({pl} \cup DOMAIN ast)
        BY <4>2
      <4>4. (<<pl>> \o b)[1] = pl
        BY <4>3
      <4> QED BY <4>1, <4>4
    <3> QED BY <2>1, <3>1, <3>2 DEF Callables
  <2>8. \A k \in 1..Len(Path(ast, v)) : k < 2 => Path(ast, v)[k] \in set
    <3>1. Path(ast, v) \in Seq(DOMAIN ast)
      BY <1>1, <2>2, PathFollows
    <3>2. \A k \in 1..Len(Path(ast, v)) : k < 2 => k = 1
      BY <3>1
    <3> HIDE DEF pl
    <3> QED BY <2>4, <2>7, <3>2
  <2>9. \A k \in 1..Len(Path(ast, pl)) : ~ (k < 1)
    <3> HIDE DEF pl
    <3>1. Path(ast, pl) \in Seq(DOMAIN ast)
      BY <1>1, <2>3, PathFollows
    <3> QED BY <3>1
  <2> HIDE DEF pl
  <2>10. /\ \A k \in 1..Len(Path(ast, f.node)) :
              k < f.next => Path(ast, f.node)[k] \in set
         /\ \A k \in 1..Len(Path(ast, g.node)) :
              k < g.next => Path(ast, g.node)[k] \in set
    BY <2>6, <2>8, <2>9
  <2>11. /\ Met(ast, Append(Append(Advanced, f), g), set)
         /\ OnStack(Append(Append(Advanced, f), g))
              = OnStack(Advanced) \cup {v, pl}
    BY <2>5, <2>6, <2>10, MetPushedTwice
  <2>12. set = new \cup OnStack(calls')
    BY <2>1, <2>5, <2>11 DEF set
  <2> QED BY <2>1, <2>11, <2>12 DEF Finished, new
<1>9. CASE Leaves
  <2> DEFINE c == Caller.node
             set == new \cup OnStack(calls')
  <2>1. calls' = Front(calls) /\ Caller = Last(calls)
    BY <1>9 DEF Leaves, Caller
  <2>2. OnStack(calls) = OnStack(calls') \cup {c}
    BY <1>1, <1>2, <2>1, MetPopped
  <2>3. c \in new
    BY <1>1, <1>9, LeftIsSettled, CallerIs DEF new, Done
  <2>4. done \cup OnStack(calls) \subseteq set
    BY <1>4, <2>2, <2>3
  <2>5. Met(ast, calls, set)
    BY <1>2, <2>4, MetWidens
  <2> HIDE DEF set
  <2>6. Met(ast, calls', set)
    BY <1>1, <2>1, <2>5, MetPopped
  <2> QED BY <2>6 DEF Finished, set, new
<1> QED BY <1>1, <1>6, <1>7, <1>8, <1>9

LEMMA DiagnosisStep ==
  TraversalInv /\ DataInv /\ CrashInv /\ DiagnosisInv /\ [Next]_vars
    => DiagnosisInv'
<1> SUFFICES ASSUME TraversalInv, DataInv, CrashInv, DiagnosisInv, [Next]_vars
             PROVE  DiagnosisInv'
  OBVIOUS
<1>1. CASE Next
  <2>1. /\ semantic_errors \in Nat /\ semantic_errors' \in Nat
        /\ semantic_errors' >= semantic_errors
        /\ reported' \in BOOLEAN /\ reported \in BOOLEAN
        /\ reported' => reported \/ semantic_errors' > semantic_errors
        /\ reported => reported'
        /\ Diagnosing \/ Excused
    BY <1>1, StepCounts DEF Counting, DataInv, CountsTyped
  <2>2. ~ reported => /\ Finished(ast, calls, attributes, symentry)
                      /\ ~ Excused /\ semantic_errors = 0
    <3>1. ~ reported => /\ Finished(ast, calls, attributes, symentry)
                        /\ ~ (semantic_errors > 0)
      BY DEF DiagnosisInv
    <3>2. ~ (semantic_errors > 0) => semantic_errors = 0
      BY <2>1
    <3> QED BY <3>1, <3>2, NothingExcused
  <2>3. reported' => semantic_errors' > 0
    <3>1. reported => semantic_errors > 0
      BY DEF DiagnosisInv
    <3>2. semantic_errors > 0 => semantic_errors' > 0
      BY <2>1
    <3>3. semantic_errors' > semantic_errors => semantic_errors' > 0
      BY <2>1
    <3> QED BY <2>1, <3>1, <3>2, <3>3
  <2>4. ~ reported' => semantic_errors = 0 /\ semantic_errors' = 0
    BY <2>1, <2>2 DEF Diagnosing
  <2>5. semantic_errors' > 0 => reported'
    BY <2>4
  <2>6. ~ reported' => Finished(ast, calls', attributes', symentry')
    BY <1>1, <2>1, <2>2, <2>4, FinishedStep
  <2>7. ast' = ast
    BY <1>1, Moves
  <2> QED BY <2>3, <2>5, <2>6, <2>7 DEF DiagnosisInv
<1>2. CASE UNCHANGED vars
  BY <1>2 DEF vars, semVars, scopeVars, DiagnosisInv
<1> QED BY <1>1, <1>2

LEMMA DiagnosisInit == Init => DiagnosisInv
<1> SUFFICES ASSUME Init PROVE DiagnosisInv
  OBVIOUS
<1>1. calls = <<Frame(1)>> /\ semantic_errors = 0 /\ reported = FALSE
      /\ WellFormed(ast, Name)
  BY Tree DEF Init
<1>2. Path(ast, 1) \in Seq(DOMAIN ast)
  BY <1>1, PathFollows DEF WellFormed
<1>3. Len(calls) = 1 /\ calls[1].node = 1 /\ calls[1].next = 1
  BY <1>1 DEF Frame
<1>4. \A k \in 1..Len(Path(ast, 1)) : ~ (k < 1)
  BY <1>2
<1>5. \A i \in 1..1 : i = 1
  OBVIOUS
<1>6. Finished(ast, calls, attributes, symentry)
  BY <1>3, <1>4, <1>5 DEF Finished, Met
<1> QED BY <1>1, <1>6 DEF DiagnosisInv

(* A program is rejected with a diagnostic and never without one: the      *)
(* handlers that fail without printing anything (typecheck.cpp:263, 339,   *)
(* 395) do so only for an operand whose own error was printed before.      *)
THEOREM RejectionsExplained == Spec => []ErrorsDiagnosed
<1>1. Init => TraversalInv /\ DataInv /\ CrashInv /\ DiagnosisInv
  BY TraversalInit, DataInit, CrashInit, DiagnosisInit
<1>2. TraversalInv /\ DataInv /\ CrashInv /\ DiagnosisInv /\ [Next]_vars
        => (TraversalInv /\ DataInv /\ CrashInv /\ DiagnosisInv)'
  BY TraversalStep, DataStep, CrashStep, DiagnosisStep
<1>3. DataInv /\ DiagnosisInv => ErrorsDiagnosed
  BY DEF DataInv, CountsTyped, DiagnosisInv, ErrorsDiagnosed
<1> QED BY <1>1, <1>2, <1>3, PTL DEF Spec

-----------------------------------------------------------------------------
(* Where functions are. *)

Lower == Statement \cup TypeName \cup {"TOK_ARRAY", "TOK_DECLID", "TOK_FIELD"}

LEMMA SmallIndex ==
  ASSUME NEW m \in Nat, NEW i \in 1..m
  PROVE  /\ m = 1 => i = 1
         /\ m = 2 => i = 1 \/ i = 2
         /\ m = 3 => i = 1 \/ i = 2 \/ i = 3
OBVIOUS

(* What is neither the root nor a function has only such children. *)
LEMMA LowerKids ==
  ASSUME NEW p, NEW n, Built(p, n), p[n].children \in Seq(DOMAIN p),
         p[n].symbol \notin {"TOK_ROOT"} \cup Callables,
         NEW c \in Kids(p, n)
  PROVE  p[c].symbol \in Lower
<1> DEFINE s == p[n].symbol
           kids == p[n].children
<1>1. PICK i \in 1..Len(kids) : c = kids[i]
  BY DEF Kids, Range
<1>2. \A m : Declaration(p, m, "TOK_DECLID") \/ Declaration(p, m, "TOK_FIELD")
               \/ Type(p, m)
             => p[m].symbol \in Lower
  BY DEF Declaration, Type, Lower
<1>3. Expression \cup Statement \cup TypeName
        \cup {"TOK_BLOCK", "TOK_FIELD", "TOK_DECLID", "TOK_TYPEID"}
        \subseteq Lower
  BY DEF Lower, Statement, TypeName
<1>4. Len(kids) \in Nat
  OBVIOUS
<1>5. /\ Len(kids) = 1 => i = 1
      /\ Len(kids) = 2 => i = 1 \/ i = 2
      /\ Len(kids) = 3 => i = 1 \/ i = 2 \/ i = 3
  BY <1>4, SmallIndex
<1>6. kids # <<>>
  BY <1>1
<1>7. CASE s \in NoOperand \cup {";", "TOK_RETURNVOID", "TOK_DECLID",
                                 "TOK_FIELD"}
  BY <1>6, <1>7 DEF Built
<1>8. CASE s \in OneOperand \cup {"TOK_RETURN"}
  BY <1>1, <1>3, <1>5, <1>8 DEF Built
<1>9. CASE s \in TwoOperands
  <2>1. \A j \in DOMAIN kids : p[kids[j]].symbol \in Expression
    BY <1>9 DEF Built
  <2> QED BY <1>1, <1>3, <2>1
<1>10. CASE s = "TOK_PARAMLIST"
  <2>1. \A j \in DOMAIN kids : Declaration(p, kids[j], "TOK_DECLID")
    BY <1>10 DEF Built
  <2> QED BY <1>1, <1>2, <2>1
<1>11. CASE s = "TOK_STRUCT"
  <2>1. /\ p[kids[1]].symbol \in {"TOK_TYPEID"}
        /\ \A j \in 2..Len(kids) : Declaration(p, kids[j], "TOK_FIELD")
    BY <1>11 DEF Built
  <2>2. i = 1 \/ i \in 2..Len(kids)
    BY <1>4
  <2> QED BY <1>1, <1>2, <1>3, <2>1, <2>2
<1>12. CASE s \in TypeName \cup {"TOK_ARRAY"}
  <2>1. \/ Type(p, n) \/ Declaration(p, n, "TOK_DECLID")
        \/ Declaration(p, n, "TOK_FIELD")
    BY <1>12 DEF Built
  <2>2. CASE Type(p, n)
    BY <1>6, <2>2 DEF Type
  <2>3. ASSUME NEW what \in {"TOK_DECLID", "TOK_FIELD"},
               Declaration(p, n, what)
        PROVE  p[c].symbol \in Lower
    <3>1. \/ Len(kids) = 1 /\ p[kids[1]].symbol = what
          \/ Len(kids) = 2 /\ Type(p, kids[1]) /\ p[kids[2]].symbol = what
      BY <2>3 DEF Declaration
    <3> QED BY <1>1, <1>2, <1>3, <1>5, <3>1
  <2> QED BY <2>1, <2>2, <2>3
<1>13. CASE s = "TOK_BLOCK"
  <2>1. \A j \in DOMAIN kids : p[kids[j]].symbol \in Statement
    BY <1>13 DEF Built
  <2> QED BY <1>1, <1>3, <2>1
<1>14. CASE s = "TOK_VARDECL"
  <2>1. /\ Len(kids) = 2 /\ Declaration(p, kids[1], "TOK_DECLID")
        /\ p[kids[2]].symbol \in Expression
    BY <1>14 DEF Built
  <2> QED BY <1>1, <1>2, <1>3, <1>5, <2>1
<1>15. CASE s \in {"TOK_WHILE", "TOK_IF"}
  <2>1. /\ Len(kids) = 2 /\ p[kids[1]].symbol \in Expression
        /\ p[kids[2]].symbol \in Statement
    BY <1>15 DEF Built
  <2> QED BY <1>1, <1>3, <1>5, <2>1
<1>16. CASE s = "TOK_IFELSE"
  <2>1. /\ Len(kids) = 3 /\ p[kids[1]].symbol \in Expression
        /\ p[kids[2]].symbol \in Statement /\ p[kids[3]].symbol \in Statement
    BY <1>16 DEF Built
  <2> QED BY <1>1, <1>3, <1>5, <2>1
<1>17. CASE s = "."
  <2>1. /\ Len(kids) = 2 /\ p[kids[1]].symbol \in Expression
        /\ p[kids[2]].symbol = "TOK_FIELD"
    BY <1>17 DEF Built
  <2> QED BY <1>1, <1>3, <1>5, <2>1
<1>18. CASE s = "TOK_CALL"
  <2>1. \A j \in DOMAIN kids : p[kids[j]].symbol \in Expression
    BY <1>18 DEF Built
  <2> QED BY <1>1, <1>3, <2>1
<1>19. CASE s = "TOK_NEW"
  <2>1. Len(kids) = 1 /\ p[kids[1]].symbol = "TOK_TYPEID"
    BY <1>19 DEF Built
  <2> QED BY <1>1, <1>3, <1>5, <2>1
<1>20. CASE s = "TOK_NEWARRAY"
  <2>1. /\ Len(kids) = 2 /\ Type(p, kids[1]) /\ p[kids[2]].symbol \in Expression
    BY <1>20 DEF Built
  <2> QED BY <1>1, <1>2, <1>3, <1>5, <2>1
<1>21. s \in Token
  BY DEF Built
<1>22. \/ s \in NoOperand \cup {";", "TOK_RETURNVOID", "TOK_DECLID",
                                 "TOK_FIELD"}
       \/ s \in OneOperand \cup {"TOK_RETURN"} \/ s \in TwoOperands
       \/ s \in TypeName \cup {"TOK_ARRAY"}
       \/ s \in {"TOK_PARAMLIST", "TOK_STRUCT", "TOK_BLOCK", "TOK_VARDECL",
                 "TOK_WHILE", "TOK_IF", "TOK_IFELSE", ".", "TOK_CALL",
                 "TOK_NEW", "TOK_NEWARRAY"}
  BY <1>21 DEF Token, Statement, Expression, Callables
<1> HIDE DEF s
<1> QED BY <1>7, <1>8, <1>9, <1>10, <1>11, <1>12, <1>13, <1>14, <1>15, <1>16,
           <1>17, <1>18, <1>19, <1>20, <1>22

(* Functions are children of the root, parameter lists are children of     *)
(* functions.                                                              *)
LEMMA KidTokens ==
  ASSUME NEW p, NEW names, WellFormed(p, names),
         NEW n \in DOMAIN p, NEW c \in Kids(p, n)
  PROVE  /\ p[c].symbol # "TOK_ROOT"
         /\ p[c].symbol \in Callables => p[n].symbol = "TOK_ROOT"
         /\ p[c].symbol = "TOK_PARAMLIST" =>
              /\ p[n].symbol \in Callables
              /\ c = p[n].children[2]
<1> DEFINE kids == p[n].children
<1>1. Built(p, n) /\ kids \in Seq(DOMAIN p)
  BY KidsFollow DEF WellFormed
<1>2. PICK i \in 1..Len(kids) : c = kids[i]
  BY DEF Kids, Range
<1>3. /\ "TOK_ROOT" \notin Lower /\ "TOK_PARAMLIST" \notin Lower
      /\ \A x \in Callables : x \notin Lower
  BY DEF Lower, Statement, Expression, NoOperand, OneOperand, TwoOperands,
         TypeName, Callables
<1>4. CASE p[n].symbol = "TOK_ROOT"
  <2>1. \A j \in DOMAIN kids :
          p[kids[j]].symbol \in Statement \cup {"TOK_FUNCTION", "TOK_PROTOTYPE",
                                                "TOK_STRUCT"}
    BY <1>4 , <1>1 DEF Built
  <2>2. p[c].symbol \in Lower \cup {"TOK_FUNCTION", "TOK_PROTOTYPE",
                                    "TOK_STRUCT"}
    BY <1>1, <1>2, <2>1 DEF Lower
  <2> QED BY <1>3, <1>4, <2>2
<1>5. CASE p[n].symbol \in Callables
  <2>1. /\ Len(kids) \in {2, 3} /\ Declaration(p, kids[1], "TOK_DECLID")
        /\ p[kids[2]].symbol = "TOK_PARAMLIST"
        /\ Len(kids) = 3 => p[kids[3]].symbol = "TOK_BLOCK"
    <3>1. CASE p[n].symbol = "TOK_FUNCTION"
      BY <1>1, <3>1 DEF Built
    <3>2. CASE p[n].symbol = "TOK_PROTOTYPE"
      BY <1>1, <3>2 DEF Built
    <3> QED BY <1>5, <3>1, <3>2 DEF Callables
  <2>2. i = 1 \/ i = 2 \/ (i = 3 /\ Len(kids) = 3)
    BY <2>1, SmallIndex
  <2>3. p[kids[1]].symbol \in Lower /\ "TOK_BLOCK" \in Lower
    BY <2>1 DEF Declaration, Lower, Statement
  <2>4. p[c].symbol \in Lower \/ (c = kids[2] /\ p[c].symbol = "TOK_PARAMLIST")
    BY <1>2, <2>1, <2>2, <2>3
  <2> QED BY <1>3, <1>5, <2>4 DEF Callables
<1>6. CASE p[n].symbol \notin {"TOK_ROOT"} \cup Callables
  <2>1. p[c].symbol \in Lower
    BY <1>1, <1>6, LowerKids
  <2> QED BY <1>3, <2>1
<1> QED BY <1>4, <1>5, <1>6

LEMMA OnlyRoot ==
  ASSUME NEW p, NEW names, WellFormed(p, names), NEW n \in DOMAIN p,
         p[n].symbol = "TOK_ROOT"
  PROVE  n = 1
<1> SUFFICES ASSUME n # 1 PROVE FALSE
  OBVIOUS
<1>1. n \in UNION {Range(p[m].children) : m \in DOMAIN p}
  BY DEF WellFormed
<1>2. PICK m \in DOMAIN p : n \in Kids(p, m)
  BY <1>1 DEF Kids
<1> QED BY <1>2, KidTokens

(* Every function is a child of node 1, and met on the way from it. *)
LEMMA FunctionsAtRoot ==
  ASSUME NEW p, NEW names, WellFormed(p, names)
  PROVE  /\ \A n, c \in DOMAIN p :
              p[c].symbol \in Callables /\ c \in Kids(p, n) => n = 1
         /\ \A c \in DOMAIN p : p[c].symbol \in Callables =>
              \E k \in 1..Len(Path(p, 1)) : c = Path(p, 1)[k]
<1>1. ASSUME NEW n \in DOMAIN p, NEW c \in DOMAIN p,
             p[c].symbol \in Callables, c \in Kids(p, n)
      PROVE  n = 1
  BY <1>1, KidTokens, OnlyRoot
<1>2. ASSUME NEW c \in DOMAIN p, p[c].symbol \in Callables
      PROVE  \E k \in 1..Len(Path(p, 1)) : c = Path(p, 1)[k]
  <2>1. c # 1
    BY <1>2 DEF WellFormed, Callables
  <2>2. c \in UNION {Range(p[m].children) : m \in DOMAIN p}
    BY <2>1 DEF WellFormed
  <2>3. PICK m \in DOMAIN p : c \in Kids(p, m)
    BY <2>2 DEF Kids
  <2>4. c \in Kids(p, 1)
    BY <1>1, <1>2, <2>3
  <2>5. Path(p, 1) = p[1].children
    BY DEF WellFormed, Path
  <2>6. 1 \in DOMAIN p /\ p[1].children \in Seq(DOMAIN p)
    BY KidsFollow DEF WellFormed
  <2>7. DOMAIN p[1].children = 1..Len(p[1].children)
    BY <2>6, LenProperties
  <2> QED BY <2>4, <2>5, <2>7 DEF Kids, Range
<1> QED BY <1>1, <1>2

-----------------------------------------------------------------------------
(* Functions on the call stack. *)

ParamList(p, g) == p[g].children[2]
FunctionName(p, g) == p[DeclaredBy(p, p[g].children[1])].lexinfo

(* The root is at the bottom, a function's frame stands behind its         *)
(* parameter list, and nothing is above a parameter list.                  *)
Shaped(p, cs) ==
  /\ cs # <<>> => cs[1].node = 1
  /\ \A i \in 1..Len(cs) :
       /\ p[cs[i].node].symbol \in Callables => cs[i].next > 1
       /\ p[cs[i].node].symbol = "TOK_PARAMLIST" => i = Len(cs)

(* While the parameters of a function are looped over, it is the current   *)
(* function.                                                               *)
Naming(p, cs, cf) ==
  \A g \in DOMAIN p :
    p[g].symbol \in Callables /\ ParamList(p, g) \in OnStack(cs)
      => cf = FunctionName(p, g)

(* What dfs_traverse advances. *)
LEMMA AdvancedIs ==
  ASSUME TraversalInv, Running, HasNext
  PROVE  /\ Advanced \in Seq(Frames(ast)) /\ Len(Advanced) = Len(calls)
         /\ Len(calls) \in Nat \ {0} /\ calls \in Seq(Frames(ast))
         /\ \A i \in 1..Len(calls) : Advanced[i].node = calls[i].node
         /\ \A i \in 1..Len(calls) : i # Len(calls) => Advanced[i] = calls[i]
         /\ Advanced[Len(calls)].next = calls[Len(calls)].next + 1
         /\ calls[Len(calls)].next \in Nat \ {0}
         /\ Next_node
              = Path(ast, calls[Len(calls)].node)[calls[Len(calls)].next]
         /\ calls[Len(calls)].next <= Len(Path(ast, calls[Len(calls)].node))
         /\ OnStack(Advanced) = OnStack(calls)
<1> DEFINE k == Len(calls)
           f == calls[k]
<1>1. /\ calls \in Seq(Frames(ast)) /\ calls # <<>> /\ Caller = f
      /\ f \in Frames(ast) /\ k \in Nat \ {0} /\ k \in 1..k
  <2>1. calls \in Seq(Frames(ast)) /\ calls # <<>> /\ Caller = f
        /\ f \in Frames(ast)
    BY CallerIs
  <2>2. k \in Nat \ {0}
    BY <2>1, FrontFacts
  <2> QED BY <2>1, <2>2
<1>2. f.next \in Nat \ {0}
  BY <1>1 DEF Frames
<1>3. Advanced \in Seq(Frames(ast))
  BY Goes
<1>4. /\ Next_node = Path(ast, f.node)[f.next]
      /\ f.next <= Len(Path(ast, f.node))
  BY <1>1, VisitsArePath DEF Next_node, HasNext
<1>5. /\ Len(Advanced) = k
      /\ \A i \in 1..k : i # k => Advanced[i] = calls[i]
      /\ Advanced[k] = [f EXCEPT !.next = f.next + 1]
  BY <1>1 DEF Advanced
<1>6. Advanced[k].node = f.node /\ Advanced[k].next = f.next + 1
  <2> HIDE DEF f, k
  <2> QED BY <1>1, <1>5 DEF Frames
<1>7. \A i \in 1..k : Advanced[i].node = calls[i].node
  BY <1>5, <1>6
<1>8. OnStack(Advanced) = OnStack(calls)
  BY <1>5, <1>7 DEF OnStack
<1> QED BY <1>1, <1>2, <1>3, <1>4, <1>5, <1>6, <1>7, <1>8

LEMMA ShapedAdvanced ==
  ASSUME TraversalInv, Running, HasNext, Shaped(ast, calls)
  PROVE  Shaped(ast, Advanced)
<1> DEFINE k == Len(calls)
           as == Advanced
<1>1. /\ as \in Seq(Frames(ast)) /\ Len(as) = k /\ k \in Nat \ {0}
      /\ \A i \in 1..k : as[i].node = calls[i].node
      /\ \A i \in 1..k : i # k => as[i] = calls[i]
      /\ as[k].next = calls[k].next + 1
      /\ calls[k].next \in Nat \ {0} /\ calls # <<>>
  BY AdvancedIs DEF Running
<1>2. 1 \in 1..k
  BY <1>1
<1> HIDE DEF as
<1>3. \A i \in 1..k : calls[i].next > 1 => as[i].next > 1
  <2> SUFFICES ASSUME NEW i \in 1..k, calls[i].next > 1 PROVE as[i].next > 1
    OBVIOUS
  <2>1. CASE i = k
    <3> DEFINE m == calls[k].next
    <3>1. m \in Nat /\ m > 1 /\ as[i].next = m + 1
      BY <1>1, <2>1
    <3> HIDE DEF m
    <3> QED BY <3>1
  <2>2. CASE i # k
    BY <1>1, <2>2
  <2> QED BY <2>1, <2>2
<1> HIDE DEF k
<1>4. Shaped(ast, as)
  BY <1>1, <1>2, <1>3 DEF Shaped, k
<1> QED BY <1>4 DEF as

LEMMA ShapedPushed ==
  ASSUME NEW p, NEW cs \in Seq(Frames(p)), cs # <<>>, Shaped(p, cs),
         p[cs[Len(cs)].node].symbol # "TOK_PARAMLIST",
         NEW f \in Frames(p), p[f.node].symbol \in Callables => f.next > 1
  PROVE  Shaped(p, Append(cs, f))
<1> DEFINE as == Append(cs, f)
           k == Len(cs)
<1>1. /\ Len(as) = k + 1 /\ as[k + 1] = f /\ k \in Nat \ {0}
      /\ \A i \in 1..k : as[i] = cs[i]
  BY AppendProperties, FrontFacts
<1>2. /\ \A i \in 1..k + 1 : i = k + 1 \/ i \in 1..k
      /\ 1 \in 1..k
  BY <1>1
<1>3. \A i \in 1..k : p[cs[i].node].symbol # "TOK_PARAMLIST"
  BY DEF Shaped
<1> HIDE DEF as
<1>4. as[1].node = 1
  BY <1>1, <1>2 DEF Shaped
<1>5. ASSUME NEW i \in 1..k + 1
      PROVE  /\ p[as[i].node].symbol \in Callables => as[i].next > 1
             /\ p[as[i].node].symbol = "TOK_PARAMLIST" => i = k + 1
  <2>1. CASE i = k + 1
    BY <1>1, <2>1
  <2>2. CASE i \in 1..k
    BY <1>1, <1>3, <2>2 DEF Shaped
  <2> QED BY <1>2, <2>1, <2>2
<1>6. Shaped(p, as)
  BY <1>1, <1>4, <1>5 DEF Shaped
<1> QED BY <1>6 DEF as

LEMMA ShapedPopped ==
  ASSUME NEW p, NEW cs \in Seq(Frames(p)), cs # <<>>, Shaped(p, cs)
  PROVE  /\ Shaped(p, Front(cs))
         /\ \A n \in OnStack(Front(cs)) : p[n].symbol # "TOK_PARAMLIST"
<1> DEFINE as == Front(cs)
           k == Len(cs) - 1
<1>1. /\ as \in Seq(Frames(p)) /\ Len(as) = k /\ Len(cs) \in Nat \ {0}
      /\ \A i \in 1..k : as[i] = cs[i]
  BY FrontFacts
<1>2. /\ k \in Nat /\ \A i \in 1..k : i \in 1..Len(cs) /\ i # Len(cs)
  BY <1>1
<1>3. as # <<>> => 1 \in 1..k
  <2> HIDE DEF as, k
  <2>1. as # <<>> => Len(as) # 0
    BY <1>1, EmptySeq
  <2> QED BY <1>1, <1>2, <2>1
<1> HIDE DEF as, k
<1>4. \A i \in 1..k : p[as[i].node].symbol # "TOK_PARAMLIST"
  BY <1>1, <1>2 DEF Shaped
<1>5. as # <<>> => as[1].node = 1
  <2> SUFFICES ASSUME as # <<>> PROVE as[1].node = 1
    OBVIOUS
  <2>1. as[1] = cs[1]
    BY <1>1, <1>3
  <2> QED BY <2>1 DEF Shaped
<1>6. \A i \in 1..k : p[as[i].node].symbol \in Callables => as[i].next > 1
  BY <1>1, <1>2 DEF Shaped
<1>7. Shaped(p, as)
  BY <1>1, <1>4, <1>5, <1>6 DEF Shaped
<1> QED BY <1>1, <1>4, <1>7 DEF as, OnStack

(* dfs_traverse never comes to a parameter list by itself. *)
LEMMA NoListNext ==
  ASSUME TraversalInv, Running, HasNext, Shaped(ast, calls)
  PROVE  symbol(Next_node) # "TOK_PARAMLIST"
<1> SUFFICES ASSUME symbol(Next_node) = "TOK_PARAMLIST" PROVE FALSE
  OBVIOUS
<1> DEFINE f == calls[Len(calls)]
           n == f.node
           v == Next_node
<1>1. /\ WellFormed(ast, Name) /\ n \in DOMAIN ast /\ f.next \in Nat \ {0}
      /\ v = Path(ast, n)[f.next] /\ f.next <= Len(Path(ast, n))
      /\ Len(calls) \in 1..Len(calls) /\ v \in DOMAIN ast
  <2>1. Caller.node \in DOMAIN ast /\ Caller = f /\ WellFormed(ast, Name)
    BY CallerIs
  <2>2. Len(calls) \in Nat \ {0}
    BY AdvancedIs
  <2> QED BY <2>1, <2>2, AdvancedIs, Goes
<1>2. /\ Path(ast, n) \in Seq(DOMAIN ast)
  BY <1>1, PathFollows
<1> HIDE DEF f, v
<1>3. f.next \in 1..Len(Path(ast, n))
  BY <1>1, <1>2
<1>4. \/ v \in Kids(ast, n)
      \/ ast[n].symbol = "TOK_FUNCTION" /\ v \in Kids(ast, Body(ast, n))
  BY <1>1, <1>3, PathFollows
<1>5. ast[n].symbol \in Callables /\ v \in Kids(ast, n)
  <2>1. CASE v \in Kids(ast, n)
    BY <1>1, <2>1, KidTokens DEF symbol, v
  <2>2. CASE ast[n].symbol = "TOK_FUNCTION" /\ v \in Kids(ast, Body(ast, n))
    <3>1. Body(ast, n) \in DOMAIN ast /\ ast[Body(ast, n)].symbol = "TOK_BLOCK"
      BY <1>1, <2>2, BodyIsKid
    <3>2. ast[Body(ast, n)].symbol \in Callables
      BY <1>1, <2>2, <3>1, KidTokens DEF symbol, v
    <3> QED BY <3>1, <3>2 DEF Callables
  <2> QED BY <1>4, <2>1, <2>2
<1>6. f.next > 1
  BY <1>1, <1>5 DEF Shaped, f
<1>7. CASE ast[n].symbol = "TOK_PROTOTYPE"
  <2>1. Path(ast, n) = <<ast[n].children[2]>>
    BY <1>7 DEF Path
  <2>2. Len(Path(ast, n)) = 1
    BY <2>1
  <2> HIDE DEF n
  <2> QED BY <1>1, <1>6, <2>2
<1>8. CASE ast[n].symbol = "TOK_FUNCTION"
  <2> DEFINE b == ast[Body(ast, n)].children
             a == ast[n].children[2]
             m == f.next
  <2>1. /\ Body(ast, n) \in DOMAIN ast /\ b \in Seq(DOMAIN ast)
        /\ Body(ast, n) \in Kids(ast, n)
    BY <1>1, <1>8, BodyIsKid, KidsFollow
  <2>2. Path(ast, n) = <<a>> \o b
    BY <1>8 DEF Path
  <2> HIDE DEF b, a
  <2>3. /\ Len(<<a>> \o b) = 1 + Len(b) /\ Len(b) \in Nat
        /\ \A j \in 2..1 + Len(b) : (<<a>> \o b)[j] = b[j - 1]
    <3> DEFINE S == DOMAIN ast \cup {a}
    <3>1. <<a>> \in Seq(S) /\ b \in Seq(S) /\ Len(<<a>>) = 1
      BY <2>1
    <3> HIDE DEF S
    <3> QED BY <3>1, ConcatProperties
  <2> HIDE DEF m, n
  <2>4. /\ m \in Nat /\ m > 1 /\ m <= 1 + Len(b)
    BY <1>1, <1>6, <2>2, <2>3 DEF m
  <2>5. m \in 2..1 + Len(b) /\ m - 1 \in 1..Len(b)
    BY <2>3, <2>4
  <2>6. v = b[m - 1]
    BY <1>1, <2>2, <2>3, <2>5 DEF m
  <2>7. v \in Kids(ast, Body(ast, n))
    BY <2>1, <2>5, <2>6, LenProperties DEF Kids, Range, b
  <2>8. n = Body(ast, n)
    BY <1>1, <1>5, <2>1, <2>7, OneParent
  <2>9. n < Body(ast, n) /\ n \in Nat
    BY <1>1, <2>1, KidsType
  <2> QED BY <2>8, <2>9
<1> QED BY <1>5, <1>7, <1>8 DEF Callables

LEMMA ShapedStep ==
  ASSUME TraversalInv, Next, Shaped(ast, calls)
  PROVE  Shaped(ast, calls')
<1>1. /\ Running /\ WellFormed(ast, Name) /\ calls \in Seq(Frames(ast))
      /\ calls # <<>> /\ Caller = calls[Len(calls)]
  BY Moves, CallerIs
<1>2. Passes \/ Enters \/ Begins_function \/ Leaves
  BY Moves
<1>3. HasNext => /\ Shaped(ast, Advanced) /\ Next_node \in DOMAIN ast
                 /\ Advanced \in Seq(Frames(ast)) /\ Advanced # <<>>
                 /\ ast[Advanced[Len(Advanced)].node].symbol
                      = symbol(Caller.node)
  <2> SUFFICES ASSUME HasNext
               PROVE  /\ Shaped(ast, Advanced) /\ Next_node \in DOMAIN ast
                      /\ Advanced \in Seq(Frames(ast)) /\ Advanced # <<>>
                      /\ ast[Advanced[Len(Advanced)].node].symbol
                           = symbol(Caller.node)
    OBVIOUS
  <2>1. /\ Shaped(ast, Advanced) /\ Next_node \in DOMAIN ast
        /\ Advanced \in Seq(Frames(ast))
    BY <1>1, ShapedAdvanced, Goes
  <2>2. /\ Len(Advanced) = Len(calls) /\ Len(calls) \in Nat \ {0}
        /\ Advanced[Len(calls)].node = calls[Len(calls)].node
    BY <1>1, AdvancedIs
  <2>3. Advanced # <<>>
    BY <2>2
  <2> QED BY <1>1, <2>1, <2>2, <2>3 DEF symbol
<1>4. CASE Passes
  BY <1>3, <1>4 DEF Passes
<1>5. CASE Enters
  <2>1. /\ HasNext /\ calls' = Append(Advanced, Frame(Next_node))
        /\ symbol(Next_node) \notin Special
        /\ symbol(Caller.node) # "TOK_PARAMLIST"
    BY <1>5 DEF Enters
  <2>2. Frame(Next_node) \in Frames(ast) /\ Frame(Next_node).node = Next_node
    BY <1>3, <2>1 DEF Frame, Frames
  <2>3. ast[Next_node].symbol \notin Callables
    BY <2>1 DEF Special, Callables, symbol
  <2> QED BY <1>3, <2>1, <2>2, <2>3, ShapedPushed
<1>6. CASE Begins_function
  <2> DEFINE f == [node |-> Next_node, next |-> 2]
             g == Frame(child(Next_node, 1))
             as == Append(Advanced, f)
  <2>1. /\ HasNext /\ calls' = Append(as, g)
        /\ symbol(Next_node) \in Callables
        /\ symbol(Caller.node) # "TOK_PARAMLIST"
    BY <1>6 DEF Begins_function
  <2>2. /\ f \in Frames(ast) /\ f.next > 1 /\ f.node = Next_node
    BY <1>3, <2>1 DEF Frames
  <2>3. /\ g \in Frames(ast) /\ ast[g.node].symbol \notin Callables
    <3>1. /\ child(Next_node, 1) \in DOMAIN ast
          /\ symbol(child(Next_node, 1)) = "TOK_PARAMLIST"
      BY <1>1, <1>3, <2>1, FunctionDeclares DEF Callables
    <3> QED BY <3>1 DEF Frame, Frames, Callables, symbol
  <2> HIDE DEF f, g
  <2>4. Shaped(ast, as) /\ as \in Seq(Frames(ast))
    BY <1>3, <2>1, <2>2, ShapedPushed
  <2>5. as # <<>> /\ as[Len(as)] = f
    BY <1>3, <2>1, <2>2
  <2>6. ast[as[Len(as)].node].symbol # "TOK_PARAMLIST"
    BY <2>1, <2>2, <2>5 DEF symbol, Callables
  <2> HIDE DEF as
  <2> QED BY <2>1, <2>3, <2>4, <2>5, <2>6, ShapedPushed
<1>7. CASE Leaves
  BY <1>1, <1>7, ShapedPopped DEF Leaves
<1> QED BY <1>2, <1>4, <1>5, <1>6, <1>7

LEMMA ListsDiffer ==
  ASSUME WellFormed(ast, Name), NEW g \in DOMAIN ast, symbol(g) \in Callables
  PROVE  /\ ParamList(ast, g) \in DOMAIN ast
         /\ ParamList(ast, g) \in Kids(ast, g)
         /\ ast[ParamList(ast, g)].symbol = "TOK_PARAMLIST"
         /\ FunctionName(ast, g) = lexinfo(declared(child(g, 0)))
         /\ FunctionName(ast, g) \in Name
         /\ ParamList(ast, g) = child(g, 1)
<1>1. /\ ParamList(ast, g) = child(g, 1)
      /\ FunctionName(ast, g) = lexinfo(declared(child(g, 0)))
  BY DeclaredIs DEF ParamList, FunctionName, child, children, lexinfo
<1> QED BY <1>1, FunctionDeclares DEF Callables, symbol

LEMMA PushedStack ==
  ASSUME NEW p, NEW cs \in Seq(Frames(p)), NEW f \in Frames(p)
  PROVE  /\ OnStack(Append(cs, f)) = OnStack(cs) \cup {f.node}
         /\ Append(cs, f) \in Seq(Frames(p))
<1> DEFINE as == Append(cs, f)
<1>1. /\ Len(as) = Len(cs) + 1 /\ as[Len(cs) + 1] = f /\ Len(cs) \in Nat
      /\ \A i \in 1..Len(cs) : as[i] = cs[i]
      /\ as \in Seq(Frames(p))
  BY AppendProperties
<1>2. /\ \A i \in 1..Len(cs) + 1 : i = Len(cs) + 1 \/ i \in 1..Len(cs)
      /\ \A i \in 1..Len(cs) : i \in 1..Len(cs) + 1
      /\ Len(cs) + 1 \in 1..Len(cs) + 1
  BY <1>1
<1> HIDE DEF as
<1>3. OnStack(as) = OnStack(cs) \cup {f.node}
  BY <1>1, <1>2 DEF OnStack
<1> QED BY <1>1, <1>3 DEF as

LEMMA NamingStep ==
  ASSUME TraversalInv, Next, Shaped(ast, calls),
         Naming(ast, calls, current_function)
  PROVE  Naming(ast, calls', current_function')
<1> SUFFICES ASSUME NEW g \in DOMAIN ast, ast[g].symbol \in Callables,
                    ParamList(ast, g) \in OnStack(calls')
             PROVE  current_function' = FunctionName(ast, g)
  BY DEF Naming
<1> DEFINE pl == ParamList(ast, g)
<1>1. /\ Running /\ WellFormed(ast, Name) /\ calls \in Seq(Frames(ast))
      /\ calls # <<>> /\ Caller = calls[Len(calls)]
  BY Moves, CallerIs
<1>2. Passes \/ Enters \/ Begins_function \/ Leaves
  BY Moves
<1>3. /\ pl \in DOMAIN ast /\ ast[pl].symbol = "TOK_PARAMLIST"
      /\ pl \in Kids(ast, g)
  BY <1>1, ListsDiffer DEF symbol
<1> HIDE DEF pl
(* A list on the stack is the caller. *)
<1>4. pl \in OnStack(calls) => symbol(Caller.node) = "TOK_PARAMLIST"
  BY <1>1, <1>3 DEF OnStack, Shaped, symbol
<1>5. HasNext => /\ OnStack(Advanced) = OnStack(calls)
                 /\ Advanced \in Seq(Frames(ast)) /\ Next_node \in DOMAIN ast
                 /\ symbol(Next_node) # "TOK_PARAMLIST"
  BY <1>1, AdvancedIs, Goes, NoListNext
<1>6. CASE Passes
  <2>1. HasNext /\ calls' = Advanced
    BY <1>6 DEF Passes
  <2>2. pl \in OnStack(calls)
    BY <1>5, <2>1 DEF pl
  <2>3. DeclareParam
    BY <1>4, <2>1, <2>2
       DEF Next, VisitDeclaration, VisitVoid, VisitStruct, VisitFunction,
           EndParams, EndFunction, VisitNode, LeaveIdent, LeaveSelector,
           LeaveAllocator, LeaveCall, LeaveNode, Visiting, Returning
  <2> QED BY <2>2, <2>3 DEF DeclareParam, Naming, pl
<1>7. CASE Enters
  <2> DEFINE f == Frame(Next_node)
  <2>1. /\ HasNext /\ calls' = Append(Advanced, f)
        /\ symbol(Caller.node) # "TOK_PARAMLIST"
    BY <1>7 DEF Enters
  <2>2. f \in Frames(ast) /\ f.node = Next_node
    BY <1>5, <2>1 DEF Frame, Frames
  <2> HIDE DEF f
  <2>3. pl \in OnStack(calls) \/ pl = Next_node
    BY <1>5, <2>1, <2>2, PushedStack DEF pl
  <2> QED BY <1>3, <1>4, <1>5, <2>1, <2>3 DEF symbol
<1>8. CASE Begins_function
  <2> DEFINE f == [node |-> Next_node, next |-> 2]
             c == child(Next_node, 1)
             h == Frame(c)
             as == Append(Advanced, f)
  <2>1. /\ HasNext /\ calls' = Append(as, h)
        /\ symbol(Next_node) \in Callables
        /\ symbol(Caller.node) # "TOK_PARAMLIST"
        /\ current_function' = lexinfo(declared(child(Next_node, 0)))
    BY <1>8 DEF Begins_function, EnterFunction
  <2>2. /\ c = ParamList(ast, Next_node) /\ c \in DOMAIN ast
        /\ c \in Kids(ast, Next_node)
        /\ current_function' = FunctionName(ast, Next_node)
    BY <1>1, <1>5, <2>1, ListsDiffer
  <2> HIDE DEF c
  <2>3. /\ f \in Frames(ast) /\ f.node = Next_node
        /\ h \in Frames(ast) /\ h.node = c
    BY <1>5, <2>1, <2>2 DEF Frame, Frames
  <2> HIDE DEF f, h
  <2>4. /\ as \in Seq(Frames(ast))
        /\ OnStack(as) = OnStack(Advanced) \cup {Next_node}
    BY <1>5, <2>1, <2>3, PushedStack
  <2> HIDE DEF as
  <2>5. OnStack(Append(as, h)) = OnStack(as) \cup {c}
    <3>1. /\ OnStack(Append(as, h)) = OnStack(as) \cup {h.node}
          /\ Append(as, h) \in Seq(Frames(ast))
      BY <2>3, <2>4, PushedStack
    <3> QED BY <2>3, <3>1
  <2>6. pl \in OnStack(calls) \/ pl = Next_node \/ pl = c
    BY <1>5, <2>1, <2>4, <2>5 DEF pl
  <2>7. pl = c
    BY <1>3, <1>4, <1>5, <2>1, <2>6 DEF symbol
  <2>8. g = Next_node
    BY <1>1, <1>3, <1>5, <2>1, <2>2, <2>7, OneParent
  <2> QED BY <2>2, <2>8
<1>9. CASE Leaves
  <2>1. \A n \in OnStack(calls') : ast[n].symbol # "TOK_PARAMLIST"
    BY <1>1, <1>9, ShapedPopped DEF Leaves
  <2> QED BY <1>3, <2>1 DEF pl
<1> QED BY <1>2, <1>6, <1>7, <1>8, <1>9

-----------------------------------------------------------------------------
(* Bodies. *)

LEMMA BlockKept ==
  ASSUME NEW I, NEW D, Known(I, D), NEW d \in DOMAIN I,
         NEW f, NEW b
  PROVE  /\ [I EXCEPT ![f].params = b][d].fnblock = I[d].fnblock
         /\ d # f =>
              [I EXCEPT ![f].params = <<>>, ![f].fnblock = NULL][d] = I[d]
         /\ [I EXCEPT ![f].fnblock = b][d].fnblock
              = IF d = f THEN b ELSE I[d].fnblock
<1>1. I[d] \in Symbol /\ I \in [DOMAIN I -> Symbol]
  BY DEF Known
<1> DEFINE J1 == [I EXCEPT ![f].params = b]
           J2 == [I EXCEPT ![f].params = <<>>, ![f].fnblock = NULL]
           J3 == [I EXCEPT ![f].fnblock = b]
<1>2. /\ d # f => J1[d] = I[d] /\ J2[d] = I[d] /\ J3[d] = I[d]
      /\ d = f => /\ J1[d] = [I[d] EXCEPT !.params = b]
                  /\ J3[d] = [I[d] EXCEPT !.fnblock = b]
  BY <1>1
<1> DEFINE s == I[d]
<1>3. s \in Symbol
  BY <1>1
<1> HIDE DEF s, J1, J2, J3
<1>4. /\ [s EXCEPT !.params = b].fnblock = s.fnblock
      /\ [s EXCEPT !.fnblock = b].fnblock = b
  BY <1>3 DEF Symbol
<1>5. /\ J1[d].fnblock = I[d].fnblock
      /\ d # f => J2[d] = I[d]
      /\ J3[d].fnblock = IF d = f THEN b ELSE I[d].fnblock
  BY <1>2, <1>4 DEF s
<1> QED BY <1>5 DEF J1, J2, J3

(* A function that has a body keeps one. *)
LEMMA BodyStays ==
  ASSUME TraversalInv, DataInv, Next, NEW d \in Declared,
         info[d].fnblock # NULL
  PROVE  info'[d].fnblock # NULL
<1> DEFINE Goal == info'[d].fnblock # NULL
<1> SUFFICES Goal
  OBVIOUS
<1>1. Known(info, Declared) /\ d \in DOMAIN info
  BY DEF DataInv, InfoTyped, Known
<1>2. ASSUME info' = info PROVE Goal
  BY <1>2
<1>3. ASSUME NEW I, NEW e, NEW s, e # d, d \in DOMAIN I,
             info' = Extend(I, e, s), I[d].fnblock = info[d].fnblock
      PROVE  Goal
  BY <1>3 DEF Extend
<1>4. CASE VisitDeclaration
  <2> DEFINE e == declared(Next_node)
             s == NewSymbol(Next_node, {})
  <2>1. /\ Running /\ HasNext /\ symbol(Next_node) \in VariableTypes
        /\ info' = info \/ info' = Extend(info, e, s)
    BY <1>4 DEF VisitDeclaration, Visiting
  <2>2. e # d
    BY <2>1, NextDeclares, NewDeclaration
  <2> HIDE DEF e, s, Goal
  <2> QED BY <1>1, <1>2, <1>3, <2>1, <2>2
<1>5. CASE DeclareParam
  <2> DEFINE e == declared(Next_node)
             s == NewSymbol(Next_node, {"param"})
             f == GlobalSymbol(current_function)
             with(q) == [info EXCEPT ![f].params = Append(@, q)]
  <2>1. /\ Running /\ HasNext /\ symbol(Caller.node) = "TOK_PARAMLIST"
        /\ info' = with(NULL) \/ info' = Extend(with(e), e, s)
    BY <1>5 DEF DeclareParam
  <2>2. e # d
    BY <2>1, NextDeclares, NewDeclaration
  <2>3. ASSUME NEW q
        PROVE  with(q)[d].fnblock = info[d].fnblock /\ d \in DOMAIN with(q)
    <3>1. with(q) = [info EXCEPT ![f].params = Append(info[f].params, q)]
      OBVIOUS
    <3>2. DOMAIN with(q) = DOMAIN info
      BY <3>1
    <3> HIDE DEF f, with
    <3> QED BY <1>1, <3>1, <3>2, BlockKept
  <2> HIDE DEF e, s, with
  <2>4. CASE info' = with(NULL)
    BY <2>3, <2>4
  <2>5. CASE info' = Extend(with(e), e, s)
    <3> HIDE DEF Goal
    <3> QED BY <1>3, <2>2, <2>3, <2>5
  <2> QED BY <2>1, <2>4, <2>5
<1>6. CASE VisitStruct
  <2> DEFINE n == Next_node
             fields == {declared(child(n, i)) : i \in 1..arity(n) - 1}
             sym(x) == NewSymbol(parent(x), {"field"})
             more == [x \in DOMAIN info \cup fields |->
                        IF x \in fields THEN sym(x) ELSE info[x]]
  <2>1. WellFormed(ast, Name) /\ n \in DOMAIN ast /\ symbol(n) = "TOK_STRUCT"
    BY <1>6, Goes DEF VisitStruct, Visiting
  <2>2. info' = info \/ info' = more
    BY <1>6 DEF VisitStruct
  <2>3. \A x \in fields : symbol(x) = "TOK_FIELD"
    BY <2>1, StructFields
  <2>4. symbol(d) = "TOK_DECLID"
    BY DEF TraversalInv, Walk, symbol
  <2>5. d \notin fields
    BY <2>3, <2>4
  <2> HIDE DEF fields, sym
  <2>6. more[d] = info[d]
    BY <1>1, <2>5
  <2> HIDE DEF more
  <2> QED BY <2>2, <2>6
<1>7. CASE VisitFunction
  <2> DEFINE n == Next_node
             e == declared(child(n, 0))
             prev == GlobalSymbol(lexinfo(e))
             s == NewSymbol(child(n, 0), {"function"})
             reset == [info EXCEPT ![prev].params = <<>>,
                                   ![prev].fnblock = NULL]
  <2>1. /\ Running /\ HasNext
        /\ symbol(Next_node) \in {"TOK_FUNCTION", "TOK_PROTOTYPE"}
    BY <1>7 DEF VisitFunction, Visiting
  <2>2. e # d
    BY <2>1, FunctionSymbol
  <2>3. \/ info' = info \/ info' = Extend(info, e, s)
        \/ info' = reset /\ info[prev].fnblock = NULL
    BY <1>7 DEF VisitFunction, Redeclare, SkipFunction, EnterFunction
  <2>4. info[prev].fnblock = NULL => reset[d] = info[d]
    <3>1. info[prev].fnblock = NULL => d # prev
      OBVIOUS
    <3> HIDE DEF prev
    <3> QED BY <1>1, <3>1, BlockKept
  <2> HIDE DEF e, s, reset, prev
  <2>5. CASE info' = Extend(info, e, s)
    <3> HIDE DEF Goal
    <3> QED BY <1>1, <1>3, <2>2, <2>5
  <2>6. CASE info' = reset /\ info[prev].fnblock = NULL
    BY <2>4, <2>6
  <2> QED BY <1>2, <2>3, <2>5, <2>6
<1>8. CASE EndParams
  <2> DEFINE n == parent(Caller.node)
             f == GlobalSymbol(current_function)
             b == child(n, 2)
  <2>1. /\ Running /\ symbol(Caller.node) = "TOK_PARAMLIST"
        /\ \/ info' = info
           \/ /\ symbol(n) = "TOK_FUNCTION"
              /\ info' = [info EXCEPT ![f].fnblock = b]
    BY <1>8 DEF EndParams, Returning
  <2>2. /\ WellFormed(ast, Name) /\ Caller.node \in DOMAIN ast
        /\ DOMAIN ast \subseteq Node
    BY <2>1, CallerIs
  <2>3. n \in DOMAIN ast
    BY <2>1, <2>2, ParamlistParent
  <2>4. symbol(n) = "TOK_FUNCTION" => b # NULL
    BY <2>2, <2>3, FunctionDeclares, NullAssumption
  <2> HIDE DEF n, f, b
  <2>5. [info EXCEPT ![f].fnblock = b][d].fnblock
          = IF d = f THEN b ELSE info[d].fnblock
    BY <1>1, BlockKept
  <2> QED BY <2>1, <2>4, <2>5
<1>9. ASSUME ~ VisitDeclaration, ~ DeclareParam, ~ VisitStruct, ~ VisitFunction,
             ~ EndParams
      PROVE  info' = info
  BY <1>9 DEF Next, VisitVoid, EndFunction, VisitNode, LeaveIdent,
     LeaveSelector, LeaveAllocator, LeaveCall, LeaveNode
<1> QED BY <1>2, <1>4, <1>5, <1>6, <1>7, <1>8, <1>9

-----------------------------------------------------------------------------
(* Definitions. *)

(* The functions that the traversal of the root has come to. *)
MetFunctions(p, cs) ==
  {g \in DOMAIN p :
     /\ p[g].symbol = "TOK_FUNCTION"
     /\ cs # <<>> => \E k \in 1..Len(Path(p, 1)) :
                       k < cs[1].next /\ g = Path(p, 1)[k]}

(* They are in the global table t, with a body, unless their parameters    *)
(* are still looped over.                                                  *)
Placed(p, cs, t, I, g) ==
  /\ FunctionName(p, g) \in DOMAIN t
  /\ \/ I[t[FunctionName(p, g)]].fnblock # NULL
     \/ ParamList(p, g) \in OnStack(cs)

Defined(p, cs, t, I) == \A g \in MetFunctions(p, cs) : Placed(p, cs, t, I, g)

OnlyOnce(p, cs) ==
  \A f, g \in MetFunctions(p, cs) :
    FunctionName(p, f) = FunctionName(p, g) => f = g

DefinitionInv ==
  /\ Shaped(ast, calls)
  /\ Naming(ast, calls, current_function)
  /\ semantic_errors = 0 => /\ Defined(ast, calls, TableAt(1), info)
                            /\ OnlyOnce(ast, calls)

LEMMA MetMoves ==
  ASSUME TraversalInv, Next, Shaped(ast, calls)
  PROVE  MetFunctions(ast, calls')
           \subseteq MetFunctions(ast, calls)
                       \cup {n \in DOMAIN ast : HasNext /\ n = Next_node}
<1>1. /\ Running /\ WellFormed(ast, Name) /\ calls \in Seq(Frames(ast))
      /\ calls # <<>> /\ Caller = calls[Len(calls)]
  BY Moves, CallerIs
<1>2. Passes \/ Enters \/ Begins_function \/ Leaves
  BY Moves
<1>3. Len(calls) \in Nat \ {0} /\ 1 \in 1..Len(calls)
  <2>1. Len(calls) \in Nat \ {0}
    BY <1>1, FrontFacts
  <2> QED BY <2>1
<1>4. calls[1] \in Frames(ast) /\ calls[1].next \in Nat /\ calls[1].node = 1
  <2>1. calls[1] \in Frames(ast)
    BY <1>1, <1>3, ElementOfSeq
  <2> QED BY <1>1, <2>1 DEF Frames, Shaped
<1>5. Path(ast, 1) \in Seq(DOMAIN ast) /\ Len(Path(ast, 1)) \in Nat
  <2>1. Path(ast, 1) \in Seq(DOMAIN ast)
    BY <1>1, PathFollows DEF WellFormed
  <2> QED BY <2>1
<1> DEFINE met == MetFunctions(ast, calls)
           v == Next_node
           more == met \cup {n \in DOMAIN ast : HasNext /\ n = v}
<1> SUFFICES MetFunctions(ast, calls') \subseteq more
  OBVIOUS
<1>6. ASSUME NEW cs, calls' = cs, HasNext, cs # <<>>, cs[1] = Advanced[1]
      PROVE  MetFunctions(ast, calls') \subseteq more
  <2> SUFFICES ASSUME NEW g \in MetFunctions(ast, cs) PROVE g \in more
    BY <1>6
  <2> HIDE DEF more, met, v
  <2>1. PICK k \in 1..Len(Path(ast, 1)) :
          k < Advanced[1].next /\ g = Path(ast, 1)[k]
    BY <1>6 DEF MetFunctions
  <2>2. CASE k < calls[1].next
    BY <2>1, <2>2 DEF MetFunctions, more, met
  <2>3. CASE ~ (k < calls[1].next)
    <3>1. Len(calls) = 1
      <4> SUFFICES ASSUME Len(calls) # 1 PROVE FALSE
        OBVIOUS
      <4>1. Advanced[1] = calls[1]
        BY <1>1, <1>3, <1>6, AdvancedIs
      <4> QED BY <2>1, <2>3, <4>1
    <3>2. /\ Advanced[1].next = calls[1].next + 1
          /\ v = Path(ast, 1)[calls[1].next]
      BY <1>1, <1>4, <1>6, <3>1, AdvancedIs DEF v
    <3> DEFINE m == calls[1].next
    <3>3. k \in Nat /\ m \in Nat /\ k < m + 1 /\ ~ (k < m)
      BY <1>4, <1>5, <2>1, <2>3, <3>2
    <3> HIDE DEF m
    <3>4. k = m
      BY <3>3
    <3>5. g = v
      BY <2>1, <3>2, <3>4 DEF m
    <3> QED BY <1>6, <3>5 DEF MetFunctions, more
  <2> QED BY <2>2, <2>3
<1>7. HasNext => /\ Advanced \in Seq(Frames(ast)) /\ Next_node \in DOMAIN ast
                 /\ Len(Advanced) \in Nat \ {0} /\ Advanced # <<>>
  <2> SUFFICES ASSUME HasNext
               PROVE  /\ Advanced \in Seq(Frames(ast))
                      /\ Next_node \in DOMAIN ast
                      /\ Len(Advanced) \in Nat \ {0} /\ Advanced # <<>>
    OBVIOUS
  <2>1. Advanced \in Seq(Frames(ast)) /\ Len(Advanced) \in Nat \ {0}
    BY <1>1, AdvancedIs
  <2> QED BY <1>1, <2>1, Goes
<1>8. \A cs \in Seq(Frames(ast)) : \A f \in Frames(ast) :
        cs # <<>> => /\ Append(cs, f)[1] = cs[1] /\ Append(cs, f) # <<>>
                     /\ Append(cs, f) \in Seq(Frames(ast))
  OBVIOUS
<1> HIDE DEF more, v
<1>9. CASE Passes
  BY <1>6, <1>7, <1>9 DEF Passes
<1>10. CASE Enters
  <2> DEFINE f == Frame(Next_node)
             cs == Append(Advanced, f)
  <2>1. HasNext /\ calls' = cs
    BY <1>10 DEF Enters
  <2>2. f \in Frames(ast)
    BY <1>7, <2>1 DEF Frame, Frames
  <2> HIDE DEF f
  <2>3. cs # <<>> /\ cs[1] = Advanced[1]
    BY <1>7, <1>8, <2>1, <2>2
  <2> HIDE DEF cs
  <2> QED BY <1>6, <2>1, <2>3
<1>11. CASE Begins_function
  <2> DEFINE f == [node |-> Next_node, next |-> 2]
             h == Frame(child(Next_node, 1))
             as == Append(Advanced, f)
             cs == Append(as, h)
  <2>1. HasNext /\ calls' = cs /\ symbol(Next_node) \in Callables
    BY <1>11 DEF Begins_function
  <2>2. f \in Frames(ast) /\ h \in Frames(ast)
    BY <1>1, <1>7, <2>1, FunctionDeclares DEF Frame, Frames, Callables
  <2> HIDE DEF f, h
  <2>3. as # <<>> /\ as[1] = Advanced[1] /\ as \in Seq(Frames(ast))
    BY <1>7, <1>8, <2>1, <2>2
  <2> HIDE DEF as
  <2>4. cs # <<>> /\ cs[1] = Advanced[1]
    BY <1>8, <2>2, <2>3
  <2> HIDE DEF cs
  <2> QED BY <1>6, <2>1, <2>4
<1>12. CASE Leaves
  <2>1. ~ HasNext /\ calls' = Front(calls)
    BY <1>12 DEF Leaves
  <2>2. /\ Len(Front(calls)) = Len(calls) - 1
        /\ \A i \in 1..Len(calls) - 1 : Front(calls)[i] = calls[i]
        /\ Front(calls) \in Seq(Frames(ast))
    BY <1>1, FrontFacts
  <2>3. CASE Len(calls) = 1
    <3>1. Caller = calls[1] /\ Visits(1) = Path(ast, 1)
      BY <1>1, <2>3, VisitsArePath
    <3>2. ~ (calls[1].next <= Len(Path(ast, 1)))
      BY <1>4, <2>1, <3>1 DEF HasNext
    <3>3. \A k \in 1..Len(Path(ast, 1)) : k < calls[1].next
      <4> DEFINE m == calls[1].next
                 len == Len(Path(ast, 1))
      <4>1. m \in Nat /\ len \in Nat /\ ~ (m <= len)
        BY <1>4, <1>5, <3>2
      <4> HIDE DEF m, len
      <4>2. \A k \in 1..len : k < m
        BY <4>1
      <4> QED BY <4>2 DEF m, len
    <3>4. \A g \in DOMAIN ast : ast[g].symbol = "TOK_FUNCTION" =>
            \E k \in 1..Len(Path(ast, 1)) : g = Path(ast, 1)[k]
      BY <1>1, FunctionsAtRoot DEF Callables
    <3> QED BY <3>3, <3>4 DEF MetFunctions, more, met
  <2>4. CASE Len(calls) # 1
    <3>1. 1 \in 1..Len(calls) - 1 /\ Len(Front(calls)) # 0
      BY <1>3, <2>2, <2>4
    <3>2. Front(calls)[1] = calls[1] /\ Front(calls) # <<>>
      BY <2>2, <3>1
    <3> QED BY <1>1, <2>1, <3>2 DEF MetFunctions, more, met
  <2> QED BY <2>3, <2>4
<1> QED BY <1>2, <1>9, <1>10, <1>11, <1>12

LEMMA PoppedStack ==
  ASSUME NEW p, NEW cs \in Seq(Frames(p)), cs # <<>>
  PROVE  OnStack(cs) = OnStack(Front(cs)) \cup {cs[Len(cs)].node}
<1> DEFINE as == Front(cs)
           k == Len(cs) - 1
<1>1. /\ Len(cs) \in Nat \ {0} /\ Len(as) = k
      /\ \A i \in 1..k : as[i] = cs[i]
  BY FrontFacts
<1>2. /\ \A i \in 1..Len(cs) : i = Len(cs) \/ i \in 1..k
      /\ \A i \in 1..k : i \in 1..Len(cs)
      /\ Len(cs) \in 1..Len(cs)
  BY <1>1
<1> HIDE DEF as, k
<1>3. OnStack(cs) = OnStack(as) \cup {cs[Len(cs)].node}
  BY <1>1, <1>2 DEF OnStack
<1> QED BY <1>3 DEF as

(* What is on the stack stays there, until it is left. *)
LEMMA StackKeeps ==
  ASSUME TraversalInv, Next, NEW n \in OnStack(calls)
  PROVE  n \in OnStack(calls') \/ (~ HasNext /\ n = Caller.node)
<1>1. /\ Running /\ WellFormed(ast, Name) /\ calls \in Seq(Frames(ast))
      /\ calls # <<>> /\ Caller = calls[Len(calls)]
  BY Moves, CallerIs
<1>2. Passes \/ Enters \/ Begins_function \/ Leaves
  BY Moves
<1>3. HasNext => /\ OnStack(Advanced) = OnStack(calls)
                 /\ Advanced \in Seq(Frames(ast)) /\ Next_node \in DOMAIN ast
  BY <1>1, AdvancedIs, Goes
<1>4. ASSUME NEW cs \in Seq(Frames(ast)), NEW f \in Frames(ast)
      PROVE  OnStack(cs) \subseteq OnStack(Append(cs, f))
             /\ Append(cs, f) \in Seq(Frames(ast))
  <2>1. /\ OnStack(Append(cs, f)) = OnStack(cs) \cup {f.node}
        /\ Append(cs, f) \in Seq(Frames(ast))
    BY PushedStack
  <2> QED BY <2>1
<1>5. CASE Passes
  BY <1>3, <1>5 DEF Passes
<1>6. CASE Enters
  <2> DEFINE f == Frame(Next_node)
  <2>1. HasNext /\ calls' = Append(Advanced, f)
    BY <1>6 DEF Enters
  <2>2. f \in Frames(ast)
    BY <1>3, <2>1 DEF Frame, Frames
  <2> HIDE DEF f
  <2> QED BY <1>3, <1>4, <2>1, <2>2
<1>7. CASE Begins_function
  <2> DEFINE f == [node |-> Next_node, next |-> 2]
             h == Frame(child(Next_node, 1))
             as == Append(Advanced, f)
  <2>1. /\ HasNext /\ calls' = Append(as, h)
        /\ symbol(Next_node) \in Callables
    BY <1>7 DEF Begins_function
  <2>2. f \in Frames(ast) /\ h \in Frames(ast)
    BY <1>1, <1>3, <2>1, FunctionDeclares DEF Frame, Frames, Callables
  <2> HIDE DEF f, h
  <2>3. OnStack(Advanced) \subseteq OnStack(as) /\ as \in Seq(Frames(ast))
    BY <1>3, <1>4, <2>1, <2>2
  <2> HIDE DEF as
  <2>4. OnStack(as) \subseteq OnStack(calls')
    BY <1>4, <2>1, <2>2, <2>3
  <2> QED BY <1>3, <2>1, <2>3, <2>4
<1>8. CASE Leaves
  BY <1>1, <1>8, PoppedStack DEF Leaves
<1> QED BY <1>2, <1>5, <1>6, <1>7, <1>8

(* What is known of a function stays so. *)
LEMMA OldStay ==
  ASSUME TraversalInv, DataInv, Next, Shaped(ast, calls),
         Naming(ast, calls, current_function),
         NEW g \in DOMAIN ast, ast[g].symbol = "TOK_FUNCTION",
         Placed(ast, calls, TableAt(1), info, g)
  PROVE  Placed(ast, calls', TableAt(1)', info', g)
<1> DEFINE name == FunctionName(ast, g)
           d == TableAt(1)[name]
           pl == ParamList(ast, g)
<1>1. /\ Running /\ WellFormed(ast, Name) /\ ScopesInv
      /\ DOMAIN ast \subseteq Node
  BY Moves, CallerIs
<1>2. /\ pl \in DOMAIN ast /\ pl \in Kids(ast, g)
      /\ ast[pl].symbol = "TOK_PARAMLIST"
  BY <1>1, ListsDiffer DEF Callables, symbol
<1>3. Keeps(TableAt(1), TableAt(1)')
  BY TraversalStep, GlobalGrows DEF TraversalInv
<1>4. name \in DOMAIN TableAt(1)
  BY DEF Placed
<1>5. GlobalSymbol(name) = d /\ d \in Declared
  BY <1>1, <1>4, GlobalIsDeclared
<1>6. name \in DOMAIN TableAt(1)' /\ TableAt(1)'[name] = d
  BY <1>3, <1>4 DEF Keeps
<1>7. info[d].fnblock # NULL \/ pl \in OnStack(calls)
  BY DEF Placed
<1>8. ASSUME info'[d].fnblock # NULL \/ pl \in OnStack(calls')
      PROVE  Placed(ast, calls', TableAt(1)', info', g)
  BY <1>6, <1>8 DEF Placed
<1> HIDE DEF name, d, pl
<1>9. CASE info[d].fnblock # NULL
  BY <1>5, <1>8, <1>9, BodyStays
<1>10. CASE pl \in OnStack(calls)
  <2>1. CASE pl \in OnStack(calls')
    BY <1>8, <2>1
  <2>2. CASE ~ HasNext /\ pl = Caller.node
    <3> DEFINE b == child(g, 2)
    <3>1. symbol(Caller.node) = "TOK_PARAMLIST"
      BY <1>2, <2>2 DEF symbol
    <3>2. EndParams
      BY <2>2, <3>1
         DEF Next, VisitDeclaration, VisitVoid, VisitStruct, VisitFunction,
             DeclareParam, EndFunction, VisitNode, LeaveIdent, LeaveSelector,
             LeaveAllocator, LeaveCall, LeaveNode, Visiting, Returning
    <3>3. parent(Caller.node) = g /\ symbol(g) = "TOK_FUNCTION"
      BY <1>1, <1>2, <2>2, ParentIs DEF symbol
    <3>4. current_function = name
      BY <1>10 DEF Naming, Callables, pl, name
    <3>5. info' = [info EXCEPT ![d].fnblock = b]
      BY <1>5, <3>2, <3>3, <3>4 DEF EndParams
    <3>6. b # NULL
      BY <1>1, <3>3, FunctionDeclares, NullAssumption
    <3>7. Known(info, Declared) /\ d \in DOMAIN info
      BY <1>5 DEF DataInv, InfoTyped, Known
    <3> HIDE DEF b
    <3>8. [info EXCEPT ![d].fnblock = b][d].fnblock
            = IF d = d THEN b ELSE info[d].fnblock
      <4> DEFINE e == d
      <4>1. e \in DOMAIN info
        BY <3>7
      <4> HIDE DEF e
      <4>2. [info EXCEPT ![d].fnblock = b][e].fnblock
              = IF e = d THEN b ELSE info[e].fnblock
        BY <3>7, <4>1, BlockKept
      <4> QED BY <4>2 DEF e
    <3> QED BY <1>8, <3>5, <3>6, <3>8
  <2> QED BY <1>10, <2>1, <2>2, StackKeeps
<1> QED BY <1>7, <1>9, <1>10

(* A function or prototype is met by the traversal of the root only. *)
LEMMA MetFromRoot ==
  ASSUME TraversalInv, Running, HasNext, Shaped(ast, calls),
         symbol(Next_node) \in Callables
  PROVE  Caller.node = 1 /\ OnStack(calls) = {1}
<1> DEFINE k == Len(calls)
           n == calls[k].node
           v == Next_node
<1>1. /\ WellFormed(ast, Name) /\ calls \in Seq(Frames(ast)) /\ calls # <<>>
      /\ Caller = calls[k] /\ n \in DOMAIN ast /\ k \in Nat \ {0}
      /\ Nested(ast, calls) /\ calls[1].node = 1
  BY CallerIs, AdvancedIs DEF TraversalInv, Walk, Shaped
<1>2. \E i \in 1..Len(Path(ast, n)) : v = Path(ast, n)[i]
  BY <1>1, Goes
<1>3. v \in DOMAIN ast /\ ast[v].symbol \in Callables
  BY Goes DEF symbol
<1>4. \/ v \in Kids(ast, n)
      \/ /\ ast[n].symbol = "TOK_FUNCTION" /\ Body(ast, n) \in Kids(ast, n)
         /\ v \in Kids(ast, Body(ast, n))
  BY <1>1, <1>2, PathFollows
<1>5. n = 1
  <2>1. CASE v \in Kids(ast, n)
    BY <1>1, <1>3, <2>1, FunctionsAtRoot
  <2>2. CASE /\ ast[n].symbol = "TOK_FUNCTION"
             /\ v \in Kids(ast, Body(ast, n))
    <3>1. Body(ast, n) \in DOMAIN ast /\ ast[Body(ast, n)].symbol = "TOK_BLOCK"
      BY <1>1, <2>2, BodyIsKid
    <3>2. Body(ast, n) = 1
      BY <1>1, <1>3, <2>2, <3>1, FunctionsAtRoot
    <3> QED BY <1>1, <3>1, <3>2 DEF WellFormed
  <2> QED BY <1>4, <2>1, <2>2
<1>6. k = 1
  <2> SUFFICES ASSUME k # 1 PROVE FALSE
    OBVIOUS
  <2>1. 1 \in 1..k /\ k \in 1..k /\ 1 < k
    <3>1. k \in Nat \ {0}
      BY <1>1
    <3> HIDE DEF k
    <3> QED BY <3>1
  <2>2. calls[1].node < calls[k].node
    BY <1>1, <2>1 DEF Nested
  <2> QED BY <1>1, <1>5, <2>2
<1>7. OnStack(calls) = {1}
  <2>1. 1..k = {1}
    BY <1>6
  <2> HIDE DEF k
  <2>2. OnStack(calls) = {calls[i].node : i \in {1}}
    BY <2>1 DEF OnStack, k
  <2> QED BY <1>1, <2>2
<1> QED BY <1>1, <1>5, <1>7

(* A function that is met without an error is new, and its parameters are  *)
(* looped over next.                                                       *)
LEMMA NewFunction ==
  ASSUME TraversalInv, DataInv, Next, Shaped(ast, calls),
         Defined(ast, calls, TableAt(1), info),
         semantic_errors' = semantic_errors,
         HasNext, symbol(Next_node) = "TOK_FUNCTION"
  PROVE  /\ Placed(ast, calls', TableAt(1)', info', Next_node)
         /\ \A g \in MetFunctions(ast, calls) :
              FunctionName(ast, g) # FunctionName(ast, Next_node)
<1> DEFINE n == Next_node
           d == declared(child(n, 0))
           name == lexinfo(d)
           prev == GlobalSymbol(name)
<1>1. /\ Running /\ WellFormed(ast, Name) /\ ScopesInv
      /\ DOMAIN ast \subseteq Node /\ n \in DOMAIN ast
      /\ Advanced \in Seq(Frames(ast)) /\ Caller.node \in DOMAIN ast
  BY Moves, CallerIs, Goes
<1>2. Caller.node = 1 /\ OnStack(calls) = {1}
  BY <1>1, MetFromRoot DEF Callables
<1>3. ast[1].symbol = "TOK_ROOT"
  BY <1>1 DEF WellFormed
<1>4. VisitFunction
  <2>1. /\ symbol(Caller.node) = "TOK_ROOT" /\ HasNext
        /\ symbol(Next_node) = "TOK_FUNCTION"
    BY <1>2, <1>3 DEF symbol
  <2> QED BY <2>1
       DEF Next, VisitDeclaration, VisitVoid, VisitStruct, DeclareParam,
           EndParams, EndFunction, VisitNode, LeaveIdent, LeaveSelector,
           LeaveAllocator, LeaveCall, LeaveNode, Visiting, Returning,
           VariableTypes, Special
<1>5. /\ EnterFunction(n, prev)
      /\ prev # NULL => info[prev].fnblock = NULL
  <2>1. CountsTyped /\ semantic_errors \in Nat
    BY DEF DataInv, CountsTyped
  <2>2. ~ Report(1)
    <3> SUFFICES ASSUME Report(1) PROVE FALSE
      OBVIOUS
    <3>1. semantic_errors' > semantic_errors
      BY <2>1, ReportCounts
    <3> QED BY <2>1, <3>1
  <2>3. ~ Report(2)
    <3> SUFFICES ASSUME Report(2) PROVE FALSE
      OBVIOUS
    <3>1. semantic_errors' > semantic_errors
      BY <2>1, ReportCounts
    <3> QED BY <2>1, <3>1
  <2> QED BY <1>4, <2>2, <2>3 DEF VisitFunction, SkipFunction
<1>6. /\ d \in Node /\ name \in Name /\ name = FunctionName(ast, n)
      /\ ParamList(ast, n) = child(n, 1) /\ child(n, 1) \in DOMAIN ast
  BY <1>1, FunctionSymbol, ListsDiffer DEF Callables
<1>7. name \in DOMAIN TableAt(1)'
  <2>1. BeginFunction(d, name)
    BY <1>5 DEF EnterFunction
  <2> HIDE DEF d, name
  <2> QED BY <1>1, <1>6, <2>1, Begins
<1>8. ParamList(ast, n) \in OnStack(calls')
  <2> DEFINE f == [node |-> n, next |-> 2]
             h == Frame(child(n, 1))
             as == Append(Advanced, f)
  <2>1. calls' = Advanced \o <<f, h>>
    BY <1>5 DEF EnterFunction, Call
  <2>2. f \in Frames(ast) /\ h \in Frames(ast) /\ h.node = child(n, 1)
    BY <1>1, <1>6 DEF Frame, Frames
  <2> HIDE DEF f, h
  <2>3. calls' = Append(as, h)
    BY <1>1, <2>1, <2>2, AppendTwice
  <2>4. as \in Seq(Frames(ast)) /\ OnStack(as) = OnStack(Advanced) \cup {f.node}
    BY <1>1, <2>2, PushedStack
  <2> HIDE DEF as
  <2>5. /\ OnStack(Append(as, h)) = OnStack(as) \cup {h.node}
        /\ Append(as, h) \in Seq(Frames(ast))
    BY <2>2, <2>4, PushedStack
  <2> QED BY <1>6, <2>2, <2>3, <2>5
<1>9. ASSUME NEW g \in MetFunctions(ast, calls), FunctionName(ast, g) = name
      PROVE  FALSE
  <2>1. /\ g \in DOMAIN ast /\ ast[g].symbol = "TOK_FUNCTION"
        /\ Placed(ast, calls, TableAt(1), info, g)
    BY <1>9 DEF MetFunctions, Defined
  <2>2. name \in DOMAIN TableAt(1)
    BY <1>9, <2>1 DEF Placed
  <2> HIDE DEF name
  <2>3. prev = TableAt(1)[name] /\ prev \in Declared
    BY <1>1, <2>2, GlobalIsDeclared
  <2>4. Declared \subseteq Node
    BY DEF DataInv, InfoTyped, Known
  <2>5. prev # NULL
    BY <2>3, <2>4, NullAssumption
  <2>6. ParamList(ast, g) \in OnStack(calls)
    BY <1>5, <1>9, <2>1, <2>3, <2>5 DEF Placed
  <2>7. ast[ParamList(ast, g)].symbol = "TOK_PARAMLIST"
    BY <1>1, <2>1, ListsDiffer DEF Callables, symbol
  <2> QED BY <1>2, <1>3, <2>6, <2>7
<1>10. Placed(ast, calls', TableAt(1)', info', n)
  BY <1>6, <1>7, <1>8 DEF Placed
<1> QED BY <1>6, <1>9, <1>10

LEMMA DefinitionStep ==
  TraversalInv /\ DataInv /\ DefinitionInv /\ [Next]_vars => DefinitionInv'
<1> SUFFICES ASSUME TraversalInv, DataInv, DefinitionInv, [Next]_vars
             PROVE  DefinitionInv'
  OBVIOUS
<1>1. CASE Next
  <2>1. Shaped(ast, calls) /\ Naming(ast, calls, current_function)
    BY DEF DefinitionInv
  <2>2. ast' = ast /\ Running
    BY <1>1, Moves
  <2>3. /\ Shaped(ast, calls')
        /\ Naming(ast, calls', current_function')
    BY <1>1, <2>1, ShapedStep, NamingStep
  <2>4. ASSUME semantic_errors' = 0
        PROVE  /\ Defined(ast, calls', TableAt(1)', info')
               /\ OnlyOnce(ast, calls')
    <3> DEFINE met == MetFunctions(ast, calls)
               new == MetFunctions(ast, calls')
               v == Next_node
    <3>1. semantic_errors = 0
      <4>1. /\ semantic_errors \in Nat
            /\ semantic_errors' >= semantic_errors
        BY <1>1, StepCounts DEF Counting, DataInv, CountsTyped
      <4> QED BY <2>4, <4>1
    <3>2. /\ Defined(ast, calls, TableAt(1), info)
          /\ OnlyOnce(ast, calls)
      BY <3>1 DEF DefinitionInv
    <3>3. \A g \in new : /\ g \in DOMAIN ast /\ ast[g].symbol = "TOK_FUNCTION"
                         /\ g \in met \/ (HasNext /\ g = v)
      BY <1>1, <2>1, MetMoves DEF MetFunctions
    <3>4. \A g \in met :
            /\ g \in DOMAIN ast /\ ast[g].symbol = "TOK_FUNCTION"
            /\ Placed(ast, calls', TableAt(1)', info', g)
      <4> SUFFICES ASSUME NEW g \in met
                   PROVE  /\ g \in DOMAIN ast /\ ast[g].symbol = "TOK_FUNCTION"
                          /\ Placed(ast, calls', TableAt(1)', info', g)
        OBVIOUS
      <4>1. /\ g \in DOMAIN ast /\ ast[g].symbol = "TOK_FUNCTION"
            /\ Placed(ast, calls, TableAt(1), info, g)
        BY <3>2 DEF MetFunctions, Defined
      <4> QED BY <1>1, <2>1, <4>1, OldStay
    <3>5. ASSUME HasNext, ast[v].symbol = "TOK_FUNCTION"
          PROVE  /\ Placed(ast, calls', TableAt(1)', info', v)
                 /\ \A g \in met : FunctionName(ast, g) # FunctionName(ast, v)
      BY <1>1, <2>1, <2>4, <3>1, <3>2, <3>5, NewFunction DEF symbol
    <3> HIDE DEF v
    <3>6. Defined(ast, calls', TableAt(1)', info')
      BY <3>3, <3>4, <3>5 DEF Defined
    <3>7. OnlyOnce(ast, calls')
      <4> SUFFICES ASSUME NEW f \in new, NEW g \in new,
                          FunctionName(ast, f) = FunctionName(ast, g)
                   PROVE  f = g
        BY DEF OnlyOnce
      <4> HIDE DEF met, new
      <4>1. f \in met /\ g \in met => f = g
        BY <3>2 DEF OnlyOnce, met
      <4> QED BY <3>3, <3>5, <4>1
    <3> QED BY <3>6, <3>7
  <2> QED BY <2>2, <2>3, <2>4 DEF DefinitionInv
<1>2. CASE UNCHANGED vars
  <2>1. /\ ast' = ast /\ calls' = calls /\ info' = info
        /\ current_function' = current_function
        /\ semantic_errors' = semantic_errors /\ TableAt(1)' = TableAt(1)
    BY <1>2 DEF vars, semVars, scopeVars, TableAt
  <2> QED BY <2>1 DEF DefinitionInv
<1> QED BY <1>1, <1>2

LEMMA DefinitionInit == Init => DefinitionInv
<1> SUFFICES ASSUME Init PROVE DefinitionInv
  OBVIOUS
<1>1. /\ calls = <<Frame(1)>> /\ WellFormed(ast, Name)
  BY Tree DEF Init
<1>2. /\ Len(calls) = 1 /\ calls[1].node = 1 /\ calls[1].next = 1
      /\ calls # <<>> /\ OnStack(calls) = {1}
  BY <1>1 DEF Frame, OnStack
<1>3. ast[1].symbol = "TOK_ROOT" /\ 1 \in DOMAIN ast
  BY <1>1 DEF WellFormed
<1>4. Shaped(ast, calls)
  <2>1. \A i \in 1..Len(calls) : i = 1
    BY <1>2
  <2> QED BY <1>2, <1>3, <2>1 DEF Shaped, Callables
<1>5. Naming(ast, calls, current_function)
  <2> SUFFICES ASSUME NEW g \in DOMAIN ast, ast[g].symbol \in Callables,
                      ParamList(ast, g) \in OnStack(calls)
               PROVE  FALSE
    BY DEF Naming
  <2>1. ast[ParamList(ast, g)].symbol = "TOK_PARAMLIST"
    BY <1>1, ListsDiffer DEF symbol
  <2> QED BY <1>2, <1>3, <2>1
<1>6. MetFunctions(ast, calls) = {}
  <2>1. Path(ast, 1) \in Seq(DOMAIN ast)
    BY <1>1, <1>3, PathFollows
  <2>2. \A k \in 1..Len(Path(ast, 1)) : ~ (k < 1)
    BY <2>1
  <2> QED BY <1>2, <2>2 DEF MetFunctions
<1> QED BY <1>4, <1>5, <1>6 DEF DefinitionInv, Defined, OnlyOnce

(* A program that the pass accepts defines a function at most once, however *)
(* its prototypes and definitions are ordered: handle_function knows a      *)
(* function that was defined by the body of its symbol, which a prototype   *)
(* never takes away.                                                        *)
THEOREM DefinitionsUnique == Spec => []OneDefinition
<1>1. Init => TraversalInv /\ DataInv /\ DefinitionInv
  BY TraversalInit, DataInit, DefinitionInit
<1>2. TraversalInv /\ DataInv /\ DefinitionInv /\ [Next]_vars
        => (TraversalInv /\ DataInv /\ DefinitionInv)'
  BY TraversalStep, DataStep, DefinitionStep
<1>3. TraversalInv /\ DefinitionInv => OneDefinition
  <2> SUFFICES ASSUME TraversalInv, DefinitionInv, Accepted,
                      NEW f \in NodesWith({"TOK_FUNCTION"}),
                      NEW g \in NodesWith({"TOK_FUNCTION"}),
                      lexinfo(declared(child(f, 0)))
                        = lexinfo(declared(child(g, 0)))
               PROVE  f = g
    BY DEF OneDefinition
  <2>1. calls = <<>> /\ semantic_errors = 0 /\ WellFormed(ast, Name)
    BY Tree DEF Accepted, Analysed, TraversalInv
  <2>2. /\ f \in DOMAIN ast /\ symbol(f) = "TOK_FUNCTION"
        /\ g \in DOMAIN ast /\ symbol(g) = "TOK_FUNCTION"
    BY DEF NodesWith
  <2>3. FunctionName(ast, f) = FunctionName(ast, g)
    BY <2>1, <2>2, ListsDiffer DEF Callables
  <2>4. f \in MetFunctions(ast, calls) /\ g \in MetFunctions(ast, calls)
    BY <2>1, <2>2 DEF MetFunctions, symbol
  <2> QED BY <2>1, <2>3, <2>4 DEF DefinitionInv, OnlyOnce
<1> QED BY <1>1, <1>2, <1>3, PTL DEF Spec
=============================================================================
