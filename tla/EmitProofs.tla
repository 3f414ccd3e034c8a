----------------------------- MODULE EmitProofs -----------------------------
(***************************************************************************)
(* The text that the emitter writes, for every program the pass accepts.   *)
(***************************************************************************)
EXTENDS EmitProperties, DiagnosisProofs

-----------------------------------------------------------------------------
(* Sequences of any elements. *)

IsSeq(o) == \E S : o \in Seq(S)

LEMMA SeqFacts ==
  ASSUME NEW o, IsSeq(o)
  PROVE  Len(o) \in Nat /\ DOMAIN o = 1..Len(o) /\ o \o <<>> = o
BY DEF IsSeq

LEMMA EmptyIsSeq == IsSeq(<<>>) /\ Len(<<>>) = 0
<1>1. <<>> \in Seq({})
  OBVIOUS
<1> QED BY <1>1 DEF IsSeq

LEMMA AppendIsSeq ==
  ASSUME NEW o, IsSeq(o), NEW x
  PROVE  /\ IsSeq(Append(o, x)) /\ Len(Append(o, x)) = Len(o) + 1
         /\ Append(o, x)[Len(o) + 1] = x
         /\ \A i \in 1..Len(o) : Append(o, x)[i] = o[i]
         /\ o \o <<x>> = Append(o, x)
<1>1. PICK S : o \in Seq(S)
  BY DEF IsSeq
<1> DEFINE T == S \cup {x}
<1>2. o \in Seq(T) /\ x \in T
  BY <1>1, SeqWidens
<1> HIDE DEF T
<1>3. Append(o, x) \in Seq(T)
  BY <1>2
<1> QED BY <1>2, <1>3 DEF IsSeq

LEMMA AppendTwo ==
  ASSUME NEW o, IsSeq(o), NEW x, NEW y
  PROVE  o \o <<x, y>> = Append(Append(o, x), y)
<1>1. PICK S : o \in Seq(S)
  BY DEF IsSeq
<1> DEFINE T == S \cup {x, y}
<1>2. o \in Seq(T) /\ x \in T /\ y \in T
  BY <1>1, SeqWidens
<1> HIDE DEF T
<1> QED BY <1>2

-----------------------------------------------------------------------------
(* The call stack of emit_recursive. *)

Unentered == {"TOK_STRUCT", "TOK_FUNCTION", "TOK_PROTOTYPE", "TOK_STRINGCON"}

Below(p, n) == IF p[n].symbol \in Unentered THEN <<>> ELSE p[n].children

LEMMA EmitsAreBelow == ASSUME NEW n PROVE Emits(n) = Below(ast, n)
BY DEF Emits, Below, Unentered, symbol, children

LEMMA BelowFollows ==
  ASSUME NEW p, NEW names, WellFormed(p, names), NEW n \in DOMAIN p
  PROVE  /\ Below(p, n) \in Seq(DOMAIN p)
         /\ \A i \in 1..Len(Below(p, n)) :
              Below(p, n)[i] \in Kids(p, n) /\ n < Below(p, n)[i]
         /\ \A i, j \in 1..Len(Below(p, n)) :
              i < j => Below(p, n)[i] < Below(p, n)[j]
<1>1. CASE p[n].symbol \in Unentered
  <2>1. Below(p, n) = <<>> /\ Len(Below(p, n)) = 0
    BY <1>1 DEF Below
  <2> QED BY <2>1
<1>2. CASE p[n].symbol \notin Unentered
  <2>1. Below(p, n) = p[n].children
    BY <1>2 DEF Below
  <2> QED BY <2>1, KidsFollow DEF Kids, Range
<1> QED BY <1>1, <1>2

(* What is left of a call, and the calls of a depth-first traversal.       *)
Later(p, f) == {Below(p, f.node)[k] : k \in f.next..Len(Below(p, f.node))}

Ahead(p, es, x) == \A i \in 1..Len(es) : \A r \in Later(p, es[i]) : x < r

Descent(p, es) ==
  /\ es \in Seq(Frames(p))
  /\ \A i, j \in 1..Len(es) : i < j =>
       /\ es[i].node < es[j].node
       /\ \A r \in Later(p, es[i]) :
            es[j].node < r /\ \A q \in Later(p, es[j]) : q < r

LEMMA LaterFollows ==
  ASSUME NEW p, NEW names, WellFormed(p, names), NEW f \in Frames(p),
         NEW r \in Later(p, f)
  PROVE  /\ r \in DOMAIN p /\ r \in Nat /\ r \in Kids(p, f.node)
         /\ f.node \in DOMAIN p /\ f.node \in Nat /\ f.node < r
<1>1. f.node \in DOMAIN p /\ f.next \in Nat \ {0} /\ DOMAIN p \subseteq Nat
  BY DEF Frames, WellFormed
<1>2. Below(p, f.node) \in Seq(DOMAIN p)
  BY <1>1, BelowFollows
<1>3. PICK k \in f.next..Len(Below(p, f.node)) : r = Below(p, f.node)[k]
  BY DEF Later
<1>4. k \in 1..Len(Below(p, f.node))
  BY <1>1, <1>2, <1>3
<1> QED BY <1>1, <1>2, <1>3, <1>4, BelowFollows

(* The innermost call goes on to its next child. *)
Bumped(es) == [es EXCEPT ![Len(es)].next = @ + 1]

LEMMA Bump ==
  ASSUME NEW p, NEW es, Descent(p, es), es # <<>>
  PROVE  /\ Descent(p, Bumped(es)) /\ Len(Bumped(es)) = Len(es)
         /\ Len(es) \in Nat \ {0}
         /\ \A i \in 1..Len(es) : /\ Bumped(es)[i].node = es[i].node
                                  /\ i < Len(es) => Bumped(es)[i] = es[i]
         /\ Bumped(es)[Len(es)].next = es[Len(es)].next + 1
         /\ \A i \in 1..Len(es) :
              Later(p, Bumped(es)[i]) \subseteq Later(p, es[i])
         /\ \A x : Ahead(p, es, x) => Ahead(p, Bumped(es), x)
<1>1. es \in Seq(Frames(p)) /\ Len(es) \in Nat \ {0}
  BY EmptySeq DEF Descent
<1> DEFINE bs == Bumped(es)
           top == es[Len(es)]
<1>2. top \in Frames(p)
  BY <1>1
<1>3. bs = [es EXCEPT ![Len(es)] = [top EXCEPT !.next = top.next + 1]]
  BY DEF Bumped
<1> HIDE DEF top
<1>0. top.node \in DOMAIN p /\ top.next \in Nat \ {0}
  BY <1>2 DEF Frames
<1>4. [top EXCEPT !.next = top.next + 1] \in Frames(p)
  BY <1>0, <1>2 DEF Frames
<1>5. /\ bs \in Seq(Frames(p)) /\ Len(bs) = Len(es)
      /\ \A i \in 1..Len(es) : i # Len(es) => bs[i] = es[i]
      /\ bs[Len(es)] = [top EXCEPT !.next = top.next + 1]
  BY <1>1, <1>3, <1>4
<1> HIDE DEF bs
<1>6. bs[Len(es)].node = top.node /\ bs[Len(es)].next = top.next + 1
  BY <1>2, <1>5 DEF Frames
<1>7. \A i \in 1..Len(es) : bs[i].node = es[i].node
  BY <1>5, <1>6 DEF top
<1>8. \A i \in 1..Len(es) : Later(p, bs[i]) \subseteq Later(p, es[i])
  <2> SUFFICES Later(p, bs[Len(es)]) \subseteq Later(p, top)
    BY <1>5 DEF top
  <2>1. \A k, m : k \in top.next + 1..m => k \in top.next..m
    BY <1>0
  <2> QED BY <1>6, <2>1 DEF Later
<1>9. Descent(p, bs)
  BY <1>5, <1>7, <1>8 DEF Descent
<1>10. \A i \in 1..Len(es) : i < Len(es) => bs[i] = es[i]
  BY <1>1, <1>5
<1> QED BY <1>1, <1>5, <1>6, <1>7, <1>8, <1>9, <1>10 DEF Ahead, bs, top

(* It enters the child. *)
LEMMA Descend ==
  ASSUME NEW p, NEW names, WellFormed(p, names),
         NEW es, Descent(p, es), es # <<>>,
         es[Len(es)].next <= Len(Below(p, es[Len(es)].node))
  PROVE  LET c == Below(p, es[Len(es)].node)[es[Len(es)].next]
             ds == Append(Bumped(es), Frame(c))
         IN  /\ c \in DOMAIN p /\ c \in Nat /\ c \in Kids(p, es[Len(es)].node)
             /\ Descent(p, ds) /\ Len(ds) = Len(es) + 1
             /\ \A i \in 1..Len(es) : ds[i] = Bumped(es)[i]
             /\ ds[Len(es) + 1] = Frame(c)
             /\ \A x : Ahead(p, es, x) => x < c
             /\ \A x \in Int : Ahead(p, es, x) => Ahead(p, ds, x)
<1> DEFINE top == es[Len(es)]
           c == Below(p, top.node)[top.next]
           bs == Bumped(es)
           ds == Append(bs, Frame(c))
<1>1. /\ Descent(p, bs) /\ Len(bs) = Len(es) /\ Len(es) \in Nat \ {0}
      /\ \A i \in 1..Len(es) : bs[i].node = es[i].node
      /\ \A i \in 1..Len(es) : Later(p, bs[i]) \subseteq Later(p, es[i])
      /\ bs[Len(es)].next = top.next + 1
      /\ \A x : Ahead(p, es, x) => Ahead(p, bs, x)
  BY Bump
<1>2. /\ es \in Seq(Frames(p)) /\ bs \in Seq(Frames(p))
      /\ \A i \in 1..Len(es) : es[i] \in Frames(p)
  BY <1>1 DEF Descent
<1>3. /\ top \in Frames(p) /\ top.node \in DOMAIN p /\ top.next \in Nat \ {0}
      /\ Below(p, top.node) \in Seq(DOMAIN p) /\ DOMAIN p \subseteq Nat
  <2>1. top \in Frames(p)
    BY <1>1, <1>2
  <2> HIDE DEF top
  <2>2. top.node \in DOMAIN p /\ top.next \in Nat \ {0}
    BY <2>1 DEF Frames
  <2>3. Below(p, top.node) \in Seq(DOMAIN p) /\ DOMAIN p \subseteq Nat
    BY <2>2, BelowFollows, KidsFollow
  <2> QED BY <2>1, <2>2, <2>3
<1>4. /\ top.next \in 1..Len(Below(p, top.node))
      /\ Len(Below(p, top.node)) \in Nat
  BY <1>3
<1>5. c \in DOMAIN p /\ c \in Nat /\ c \in Kids(p, top.node) /\ top.node < c
  <2> HIDE DEF top
  <2> QED BY <1>3, <1>4, BelowFollows
<1>6. c \in Later(p, top)
  BY <1>4 DEF Later
<1>7. Frame(c) = [node |-> c, next |-> 1] /\ Frame(c) \in Frames(p)
  BY <1>5 DEF Frame, Frames
<1>8. /\ ds \in Seq(Frames(p)) /\ Len(ds) = Len(es) + 1
      /\ \A i \in 1..Len(es) : ds[i] = bs[i]
      /\ ds[Len(es) + 1] = Frame(c)
  <2> HIDE DEF bs, c
  <2> QED BY <1>1, <1>2, <1>7
<1>9. \A r \in Later(p, Frame(c)) : r \in Kids(p, c) /\ r \in Nat /\ c < r
  BY <1>7, LaterFollows
(* All that is left to the calls on the stack is behind c's children. *)
<1>10. \A i \in 1..Len(es) : \A r \in Later(p, bs[i]) :
         c < r /\ \A q \in Later(p, Frame(c)) : q < r
  <2> SUFFICES ASSUME NEW i \in 1..Len(es), NEW r \in Later(p, bs[i])
               PROVE  c < r /\ \A q \in Kids(p, c) : q < r
    BY <1>9
  <2>1. /\ r \in Later(p, es[i]) /\ es[i] \in Frames(p) /\ bs[i] \in Frames(p)
        /\ bs[i].node \in DOMAIN p /\ r \in Kids(p, bs[i].node) /\ r \in Nat
        /\ bs[i].node = es[i].node
    <3>1. bs[i] \in Frames(p)
      BY <1>1, <1>2
    <3> QED BY <1>1, <1>2, <3>1, LaterFollows
  <2>2. es[i].node < c
    <3>1. CASE i = Len(es)
      BY <1>5, <3>1
    <3>2. CASE i # Len(es)
      <4>1. es[i].node < top.node
        BY <1>1, <3>2 DEF Descent
      <4>2. es[i].node \in Nat
        BY <1>3, <2>1
      <4> QED BY <1>3, <1>5, <4>1, <4>2
    <3> QED BY <3>1, <3>2
  <2>3. c < r
    <3>1. CASE i = Len(es)
      <4>1. PICK k \in top.next + 1..Len(Below(p, top.node)) :
              r = Below(p, top.node)[k]
        BY <1>1, <3>1 DEF Later
      <4> HIDE DEF top
      <4>2. k \in 1..Len(Below(p, top.node)) /\ top.next < k
        BY <1>3, <1>4, <4>1
      <4>3. c = Below(p, top.node)[top.next]
        OBVIOUS
      <4> HIDE DEF c
      <4> QED BY <4>3, <1>3, <1>4, <4>1, <4>2, BelowFollows
    <3>2. CASE i # Len(es)
      <4>1. i < Len(es) /\ Len(es) \in 1..Len(es)
        BY <1>1, <3>2
      <4>2. \A q \in Later(p, es[Len(es)]) : q < r
        BY <2>1, <4>1 DEF Descent
      <4> QED BY <1>6, <4>2
    <3> QED BY <3>1, <3>2
  <2>4. \A q \in Kids(p, c) : q < r
    BY <1>5, <2>1, <2>2, <2>3, KidsNest
  <2> QED BY <2>3, <2>4
<1>11. \A i \in 1..Len(es) : bs[i].node < c
  <2> SUFFICES ASSUME NEW i \in 1..Len(es)  PROVE es[i].node < c
    BY <1>1
  <2>1. CASE i = Len(es)
    BY <1>5, <2>1
  <2>2. CASE i # Len(es)
    <3>1. es[i].node < top.node /\ es[i].node \in Nat
      <4>1. es[i].node \in DOMAIN p
        BY <1>2 DEF Frames
      <4> QED BY <1>1, <1>3, <2>2, <4>1 DEF Descent
    <3> QED BY <1>3, <1>5, <3>1
  <2> QED BY <2>1, <2>2
<1> HIDE DEF bs, c, top
<1>12. Descent(p, ds)
  <2> SUFFICES ASSUME NEW i \in 1..Len(ds), NEW j \in 1..Len(ds), i < j
               PROVE  /\ ds[i].node < ds[j].node
                      /\ \A r \in Later(p, ds[i]) :
                           /\ ds[j].node < r
                           /\ \A q \in Later(p, ds[j]) : q < r
    BY <1>8 DEF Descent
  <2>1. CASE j = Len(es) + 1
    <3>1. i \in 1..Len(es)
      BY <1>1, <1>8, <2>1
    <3> QED BY <1>7, <1>8, <1>10, <1>11, <2>1, <3>1
  <2>2. CASE j # Len(es) + 1
    <3>1. i \in 1..Len(es) /\ j \in 1..Len(es)
      BY <1>1, <1>8, <2>2
    <3> QED BY <1>1, <1>8, <3>1 DEF Descent
  <2> QED BY <2>1, <2>2
<1>13. \A x : Ahead(p, es, x) => x < c
  BY <1>1, <1>6 DEF Ahead, top
<1>14. ASSUME NEW x \in Int, Ahead(p, es, x)  PROVE Ahead(p, ds, x)
  <2> SUFFICES ASSUME NEW i \in 1..Len(ds), NEW r \in Later(p, ds[i])
               PROVE  x < r
    BY DEF Ahead
  <2>1. CASE i = Len(es) + 1
    <3>1. c < r /\ r \in Nat
      BY <1>8, <1>9, <2>1
    <3> QED BY <1>5, <1>13, <1>14, <3>1
  <2>2. CASE i # Len(es) + 1
    BY <1>1, <1>8, <1>14, <2>2 DEF Ahead
  <2> QED BY <2>1, <2>2
<1> QED BY <1>5, <1>8, <1>12, <1>13, <1>14 DEF top, c, bs

(* It returns. *)
LEMMA Ascend ==
  ASSUME NEW p, NEW es, Descent(p, es), es # <<>>
  PROVE  /\ Descent(p, Front(es)) /\ Len(Front(es)) = Len(es) - 1
         /\ Len(es) \in Nat \ {0}
         /\ \A i \in 1..Len(es) - 1 : Front(es)[i] = es[i]
         /\ \A x : Ahead(p, es, x) => Ahead(p, Front(es), x)
<1>1. /\ Front(es) \in Seq(Frames(p)) /\ Len(es) \in Nat \ {0}
      /\ Len(Front(es)) = Len(es) - 1
      /\ \A i \in 1..Len(es) - 1 : Front(es)[i] = es[i]
  BY FrontFacts DEF Descent
<1> QED BY <1>1 DEF Descent, Ahead

(* A node on the stack comes before all that is left.                      *)
LEMMA StackAhead ==
  ASSUME NEW p, NEW names, WellFormed(p, names), NEW es, Descent(p, es),
         es # <<>>
  PROVE  /\ Ahead(p, es, es[Len(es)].node)
         /\ es[Len(es)] \in Frames(p)
         /\ es[Len(es)].node \in DOMAIN p /\ es[Len(es)].node \in Nat
         /\ es[Len(es)].next \in Nat \ {0}
<1>1. es \in Seq(Frames(p)) /\ Len(es) \in Nat \ {0}
  BY EmptySeq DEF Descent
<1>2. es[Len(es)] \in Frames(p)
  BY <1>1
<1>3. /\ es[Len(es)].node \in DOMAIN p /\ es[Len(es)].node \in Nat
      /\ es[Len(es)].next \in Nat \ {0}
  BY <1>2 DEF Frames, WellFormed
<1>4. ASSUME NEW i \in 1..Len(es), NEW r \in Later(p, es[i])
      PROVE  es[Len(es)].node < r
  <2>1. CASE i = Len(es)
    BY <1>2, <2>1, LaterFollows
  <2>2. CASE i # Len(es)
    BY <1>1, <2>2 DEF Descent
  <2> QED BY <2>1, <2>2
<1> QED BY <1>2, <1>3, <1>4 DEF Ahead

-----------------------------------------------------------------------------
(* The emitter starts where the pass ends. *)

PassInv == TraversalInv /\ DataInv /\ CrashInv /\ DiagnosisInv /\ DefinitionInv

LEMMA PassInit == Init => PassInv
BY TraversalInit, DataInit, CrashInit, DiagnosisInit, DefinitionInit
   DEF PassInv

LEMMA PassKeeps == PassInv /\ [Next]_vars => PassInv'
BY TraversalStep, DataStep, CrashStep, DiagnosisStep, DefinitionStep
   DEF PassInv

(* Before the program is accepted, nothing is done. *)
StartInv ==
  /\ oil # <<>> => Accepted
  /\ oil = <<>> => /\ jobs = <<>> /\ emits = <<>> /\ aborted = NULL
                   /\ reg_nr = 1 /\ oilname = StringNames
  /\ IsSeq(oil)

LEMMA StepKinds ==
  ASSUME PassInv, StartInv,
         [\/ Next /\ UNCHANGED emitVars
          \/ EmitNext /\ UNCHANGED vars]_<<vars, emitVars>>
  PROVE  \/ UNCHANGED vars /\ EmitNext
         \/ UNCHANGED vars /\ UNCHANGED emitVars
         \/ Next /\ UNCHANGED emitVars /\ oil = <<>> /\ ast' = ast
<1>1. CASE Next /\ UNCHANGED emitVars
  <2>1. Running /\ ast' = ast
    BY <1>1, Moves DEF PassInv
  <2>2. oil = <<>>
    BY <2>1 DEF StartInv, Accepted, Analysed, Running
  <2> QED BY <1>1, <2>1, <2>2
<1>2. CASE EmitNext /\ UNCHANGED vars
  BY <1>2
<1>3. CASE UNCHANGED <<vars, emitVars>>
  BY <1>3
<1> QED BY <1>1, <1>2, <1>3

LEMMA PassUnderEmitter ==
  ASSUME PassInv,
         [\/ Next /\ UNCHANGED emitVars
          \/ EmitNext /\ UNCHANGED vars]_<<vars, emitVars>>
  PROVE  PassInv'
<1>1. [Next]_vars
  OBVIOUS
<1> QED BY <1>1, PassKeeps

-----------------------------------------------------------------------------
(* Jobs. *)

Stage(what) ==
  CASE what \in {"structs", "struct", "field"} -> 1
    [] what \in {"strings", "string"} -> 2
    [] what \in {"globals", "global"} -> 3
    [] what \in {"functions", "function", "param", "body"} -> 4
    [] what = "main" -> 5

Headings == {"struct", "string"}
Declarers == {"field", "global", "function", "param"}
Kinds == Loops \cup Headings \cup Declarers \cup {"body", "main"}

(* What the node of a job is. *)
Shape(p, job) ==
  /\ job.what = "struct" => p[job.node].symbol = "TOK_STRUCT"
  /\ job.what = "string" => p[job.node].symbol = "TOK_STRINGCON"
  /\ job.what = "field" => Declaration(p, job.node, "TOK_FIELD")
  /\ job.what \in Declarers \ {"field"} => Declaration(p, job.node, "TOK_DECLID")
  /\ job.what = "body" => p[job.node].symbol = "TOK_BLOCK"
  /\ job.what = "main" => job.node = 1

JobSet(p) == {job \in [what : Kinds, node : DOMAIN p] : Shape(p, job)}

(* The order of the jobs: by what they are for, then by the order of the   *)
(* text, a loop behind what its last iteration made, and so is what        *)
(* follows the body of a function.                                         *)
Before(a, b) ==
  \/ Stage(a.what) < Stage(b.what)
  \/ /\ Stage(a.what) = Stage(b.what) /\ a.what \notin Loops
     /\ b.what \in Loops \/ (a.what # "body" /\ a.node < b.node)

Sorted(js) == \A i, j \in 1..Len(js) : i < j => Before(js[i], js[j])

JobsInv == jobs \in Seq(JobSet(ast)) /\ Sorted(jobs)

LEMMA ConcatSorted ==
  ASSUME NEW S, NEW a \in Seq(S), NEW b \in Seq(S), Sorted(a), Sorted(b),
         \A i \in 1..Len(a) : \A j \in 1..Len(b) : Before(a[i], b[j])
  PROVE  a \o b \in Seq(S) /\ Sorted(a \o b) /\ Len(a \o b) = Len(a) + Len(b)
         /\ \A i \in 1..Len(a \o b) :
              \/ \E k \in 1..Len(a) : (a \o b)[i] = a[k]
              \/ \E k \in 1..Len(b) : (a \o b)[i] = b[k]
<1> DEFINE c == a \o b
<1>1. /\ c \in Seq(S) /\ Len(c) = Len(a) + Len(b)
      /\ Len(a) \in Nat /\ Len(b) \in Nat
      /\ \A i \in 1..Len(a) : c[i] = a[i]
      /\ \A i \in Len(a) + 1..Len(c) : c[i] = b[i - Len(a)]
  OBVIOUS
<1> HIDE DEF c
<1>2. ASSUME NEW i \in 1..Len(c), NEW j \in 1..Len(c), i < j
      PROVE  Before(c[i], c[j])
  <2>1. CASE j <= Len(a)
    <3>1. i \in 1..Len(a) /\ j \in 1..Len(a)
      BY <1>1, <1>2, <2>1
    <3> QED BY <1>1, <1>2, <3>1 DEF Sorted
  <2>2. CASE i <= Len(a) /\ j > Len(a)
    <3>1. i \in 1..Len(a) /\ j - Len(a) \in 1..Len(b) /\ j \in Len(a) + 1..Len(c)
      BY <1>1, <1>2, <2>2
    <3> QED BY <1>1, <3>1
  <2>3. CASE i > Len(a)
    <3>1. /\ i - Len(a) \in 1..Len(b) /\ j - Len(a) \in 1..Len(b)
          /\ i - Len(a) < j - Len(a)
          /\ i \in Len(a) + 1..Len(c) /\ j \in Len(a) + 1..Len(c)
      BY <1>1, <1>2, <2>3
    <3> QED BY <1>1, <3>1 DEF Sorted
  <2> QED BY <1>1, <2>1, <2>2, <2>3
<1>3. ASSUME NEW i \in 1..Len(c)
      PROVE  \/ \E k \in 1..Len(a) : c[i] = a[k]
             \/ \E k \in 1..Len(b) : c[i] = b[k]
  <2>1. CASE i <= Len(a)
    BY <1>1, <2>1
  <2>2. CASE i > Len(a)
    <3>1. i - Len(a) \in 1..Len(b) /\ i \in Len(a) + 1..Len(c)
      BY <1>1, <2>2
    <3> QED BY <1>1, <3>1
  <2> QED BY <1>1, <2>1, <2>2
<1> QED BY <1>1, <1>2, <1>3 DEF Sorted, c

LEMMA LeastOf ==
  ASSUME NEW S \in SUBSET Nat, S # {}
  PROVE  Min(S) \in S /\ \A y \in S : Min(S) <= y
<1> DEFINE R == OpToRel(<, Nat)
<1>1. IsWellFoundedOn(R, Nat)
  BY NatLessThanWellFounded
<1>2. PICK x \in S : \A y \in S : ~ (<<y, x>> \in R)
  <2> HIDE DEF R
  <2> QED BY <1>1, WFMin
<1>3. \A y \in S : x <= y
  <2> SUFFICES ASSUME NEW y \in S  PROVE x <= y
    OBVIOUS
  <2>1. ~ (y < x)
    BY <1>2 DEF OpToRel
  <2> QED BY <2>1
<1> QED BY <1>2, <1>3 DEF Min

LEMMA RootKids ==
  ASSUME WellFormed(ast, Name), NEW n \in Range(children(1))
  PROVE  n \in Kids(ast, 1) /\ n \in DOMAIN ast /\ n \in Nat /\ 1 < n
<1>1. n \in Kids(ast, 1) /\ 1 \in DOMAIN ast
  BY DEF Kids, children, WellFormed
<1> QED BY <1>1, KidsType

LEMMA ItemsType ==
  ASSUME WellFormed(ast, Name), NEW loop \in Loops, NEW n \in Items(loop)
  PROVE  /\ n \in DOMAIN ast /\ n \in Nat
         /\ loop # "strings" => n \in Kids(ast, 1) /\ 1 < n
         /\ loop = "structs" => symbol(n) = "TOK_STRUCT"
         /\ loop = "strings" => symbol(n) = "TOK_STRINGCON"
         /\ loop = "globals" => symbol(n) = "TOK_VARDECL"
         /\ loop = "functions" => symbol(n) = "TOK_FUNCTION"
<1>1. DOMAIN ast \subseteq Nat
  BY DEF WellFormed
<1>2. CASE loop = "structs"
  BY <1>2, RootKids DEF Items
<1>3. CASE loop = "strings"
  BY <1>1, <1>3 DEF Items, StringConstants
<1>4. CASE loop = "globals"
  BY <1>4, RootKids DEF Items
<1>5. CASE loop = "functions"
  BY <1>5, RootKids DEF Items
<1> QED BY <1>2, <1>3, <1>4, <1>5 DEF Loops

(* What is below an item comes before the later items. *)
LEMMA ItemsNest ==
  ASSUME WellFormed(ast, Name), NEW loop \in Loops, loop # "strings",
         NEW n \in Items(loop), NEW m \in Items(loop), n < m,
         NEW e \in Kids(ast, n)
  PROVE  /\ e < m /\ n < e /\ e \in DOMAIN ast /\ e \in Nat
         /\ \A g \in Kids(ast, e) : e < g /\ g < m
<1>1. /\ n \in DOMAIN ast /\ n \in Nat /\ 1 < n
      /\ m \in Kids(ast, 1) /\ m \in Nat /\ 1 \in DOMAIN ast
  BY ItemsType DEF WellFormed
<1>2. e < m /\ n < e /\ e \in DOMAIN ast /\ e \in Nat
  BY <1>1, KidsNest, KidsType
<1>3. ASSUME NEW g \in Kids(ast, e)  PROVE e < g /\ g < m
  <2>1. 1 < e
    BY <1>1, <1>2
  <2> QED BY <1>1, <1>2, <2>1, KidsNest, KidsType
<1> QED BY <1>2, <1>3

(* Jobs of one kind for the nodes of a sequence. *)
LEMMA EachOfIs ==
  ASSUME NEW what, NEW nodes, Len(nodes) \in Nat,
         DOMAIN nodes = 1..Len(nodes), NEW S,
         \A i \in 1..Len(nodes) : Job(what, nodes[i]) \in S
  PROVE  /\ EachOf(what, nodes) \in Seq(S)
         /\ Len(EachOf(what, nodes)) = Len(nodes)
         /\ \A i \in 1..Len(nodes) : EachOf(what, nodes)[i] = Job(what, nodes[i])
<1> DEFINE m == Len(nodes)
           e == [i \in 1..m |-> Job(what, nodes[i])]
<1>1. EachOf(what, nodes) = e
  BY DEF EachOf
<1>2. e \in [1..m -> S]
  OBVIOUS
<1>3. e \in Seq(S) /\ Len(e) = m
  <2> HIDE DEF e
  <2> QED BY <1>2
<1> QED BY <1>1, <1>3

LEMMA JobFacts ==
  ASSUME NEW what, NEW n
  PROVE  Job(what, n).what = what /\ Job(what, n).node = n
         /\ Job(what, n) = [what |-> what, node |-> n]
BY DEF Job

LEMMA OneJob ==
  ASSUME NEW S, NEW x \in S
  PROVE  <<x>> \in Seq(S) /\ Len(<<x>>) = 1 /\ <<x>>[1] = x /\ Sorted(<<x>>)
         /\ <<x>> # <<>>
BY DEF Sorted

LEMMA TailFacts ==
  ASSUME NEW S, NEW s \in Seq(S), s # <<>>
  PROVE  /\ Tail(s) \in Seq(S) /\ Len(Tail(s)) = Len(s) - 1
         /\ DOMAIN Tail(s) = 1..Len(Tail(s)) /\ Len(s) \in Nat \ {0}
         /\ \A i \in 1..Len(Tail(s)) : Tail(s)[i] = s[i + 1]
         /\ Head(s) = s[1] /\ Head(s) \in S
BY EmptySeq

(* The jobs of an iteration: they are in order, are for its item and what  *)
(* is below that.                                                          *)
IterationOf(loop, n) ==
  {job \in JobSet(ast) :
     /\ job.what \notin Loops /\ Stage(job.what) = Stage(loop)
     /\ n <= job.node /\ job.what # "main"
     /\ \A m \in Items(loop) : n < m => job.node < m}

LEMMA EachSorted ==
  ASSUME NEW what \in {"field", "param"}, NEW nodes \in Seq(DOMAIN ast),
         \A i, j \in 1..Len(nodes) : i < j => nodes[i] < nodes[j]
  PROVE  Sorted(EachOf(what, nodes))
<1>1. /\ Len(EachOf(what, nodes)) = Len(nodes)
      /\ \A i \in 1..Len(nodes) :
           EachOf(what, nodes)[i] = Job(what, nodes[i])
  <2> DEFINE S == {Job(what, nodes[i]) : i \in 1..Len(nodes)}
  <2>1. /\ Len(nodes) \in Nat /\ DOMAIN nodes = 1..Len(nodes)
        /\ \A i \in 1..Len(nodes) : Job(what, nodes[i]) \in S
    OBVIOUS
  <2> HIDE DEF S
  <2> QED BY <2>1, EachOfIs
<1>2. \A i, j \in 1..Len(nodes) :
        i < j => Before(Job(what, nodes[i]), Job(what, nodes[j]))
  <2>1. what \notin Loops /\ what # "body"
    BY DEF Loops
  <2> QED BY <2>1, JobFacts DEF Before
<1> QED BY <1>1, <1>2 DEF Sorted

LEMMA StructIteration ==
  ASSUME WellFormed(ast, Name), NEW n \in Items("structs")
  PROVE  /\ Iteration("structs", n) \in Seq(IterationOf("structs", n))
         /\ Sorted(Iteration("structs", n)) /\ Iteration("structs", n) # <<>>
<1> DEFINE kids == children(n)
           S == IterationOf("structs", n)
           a == <<Job("struct", n)>>
           b == EachOf("field", Tail(kids))
<1>1. /\ n \in DOMAIN ast /\ n \in Nat /\ symbol(n) = "TOK_STRUCT"
      /\ "structs" \in Loops
  BY ItemsType DEF Loops
<1>2. /\ kids \in Seq(DOMAIN ast) /\ Len(kids) > 0 /\ kids # <<>>
      /\ \A i \in 2..Len(kids) : Declaration(ast, kids[i], "TOK_FIELD")
      /\ \A i \in 1..Len(kids) : kids[i] \in Kids(ast, n) /\ n < kids[i]
      /\ \A i, j \in 1..Len(kids) : i < j => kids[i] < kids[j]
  <2>1. Built(ast, n) /\ ast[n].symbol = "TOK_STRUCT" /\ kids = ast[n].children
    BY <1>1 DEF WellFormed, symbol, children
  <2>2. /\ Len(kids) > 0
        /\ \A i \in 2..Len(kids) : Declaration(ast, kids[i], "TOK_FIELD")
    BY <2>1 DEF Built
  <2>3. /\ kids \in Seq(DOMAIN ast)
        /\ \A i \in 1..Len(kids) : n < kids[i]
        /\ \A i, j \in 1..Len(kids) : i < j => kids[i] < kids[j]
    BY <1>1, <2>1, KidsFollow
  <2> HIDE DEF kids
  <2>4. \A i \in 1..Len(kids) : kids[i] \in Kids(ast, n)
    BY <2>1, <2>3 DEF Kids, Range
  <2>5. kids # <<>>
    BY <2>2
  <2> QED BY <2>2, <2>3, <2>4, <2>5
<1> HIDE DEF kids
<1> DEFINE tail == Tail(kids)
<1>3. /\ tail \in Seq(DOMAIN ast) /\ Len(tail) \in Nat /\ DOMAIN tail = 1..Len(tail)
      /\ \A i \in 1..Len(tail) : /\ tail[i] \in Kids(ast, n) /\ n < tail[i]
                                 /\ Declaration(ast, tail[i], "TOK_FIELD")
      /\ \A i, j \in 1..Len(tail) : i < j => tail[i] < tail[j]
  <2>1. /\ tail \in Seq(DOMAIN ast) /\ Len(tail) = Len(kids) - 1
        /\ DOMAIN tail = 1..Len(tail) /\ Len(kids) \in Nat
        /\ \A i \in 1..Len(tail) : tail[i] = kids[i + 1]
    BY <1>2, TailFacts
  <2> HIDE DEF tail
  <2>2. /\ \A i \in 1..Len(tail) : i + 1 \in 2..Len(kids)
        /\ \A i, j \in 1..Len(tail) : i < j => i + 1 < j + 1
    BY <2>1
  <2>3. 2..Len(kids) \subseteq 1..Len(kids)
    OBVIOUS
  <2> QED BY <1>2, <2>1, <2>2, <2>3
<1> HIDE DEF tail
<1>4. Job("struct", n) \in S
  <2>1. Job("struct", n) \in JobSet(ast)
    BY <1>1, JobFacts
       DEF JobSet, Shape, Kinds, Headings, Declarers, symbol
  <2> QED BY <1>1, <2>1, JobFacts DEF IterationOf, Stage, Loops
<1>5. \A i \in 1..Len(tail) : Job("field", tail[i]) \in S
  <2> SUFFICES ASSUME NEW i \in 1..Len(tail)  PROVE Job("field", tail[i]) \in S
    OBVIOUS
  <2>1. tail[i] \in DOMAIN ast /\ tail[i] \in Nat
    BY <1>1, <1>3, KidsType
  <2>2. Job("field", tail[i]) \in JobSet(ast)
    BY <1>3, <2>1, JobFacts DEF JobSet, Shape, Kinds, Headings, Declarers
  <2>3. \A m \in Items("structs") : n < m => tail[i] < m
    BY <1>1, <1>3, ItemsNest
  <2> QED BY <1>1, <1>3, <2>1, <2>2, <2>3, JobFacts DEF IterationOf, Stage, Loops
<1>6. /\ a \in Seq(S) /\ Len(a) = 1 /\ a[1] = Job("struct", n) /\ Sorted(a)
  BY <1>4, OneJob
<1>7. /\ b \in Seq(S) /\ Len(b) = Len(tail)
      /\ \A i \in 1..Len(tail) : b[i] = Job("field", tail[i])
  BY <1>3, <1>5, EachOfIs DEF tail
<1>8. Sorted(b)
  BY <1>3, EachSorted DEF tail
<1> HIDE DEF a, b, S
<1>9. \A i \in 1..Len(a) : \A j \in 1..Len(b) : Before(a[i], b[j])
  <2> SUFFICES ASSUME NEW j \in 1..Len(b)
               PROVE  Before(Job("struct", n), Job("field", tail[j]))
    BY <1>6, <1>7
  <2>1. n < tail[j]
    BY <1>3, <1>7
  <2> QED BY <2>1, JobFacts DEF Before, Stage, Loops
<1>10. a \o b \in Seq(S) /\ Sorted(a \o b)
  BY <1>6, <1>7, <1>8, <1>9, ConcatSorted
<1>11. a \o b # <<>>
  BY <1>6, <1>7
<1> QED BY <1>10, <1>11 DEF Iteration, a, b, S, tail, kids

LEMMA FunctionIteration ==
  ASSUME WellFormed(ast, Name), NEW n \in Items("functions")
  PROVE  /\ Iteration("functions", n) \in Seq(IterationOf("functions", n))
         /\ Sorted(Iteration("functions", n)) /\ Iteration("functions", n) # <<>>
         /\ Iteration("functions", n)[1] = Job("function", child(n, 0))
<1> DEFINE kids == children(child(n, 1))
           S == IterationOf("functions", n)
           a == <<Job("function", child(n, 0))>>
           b == EachOf("param", kids)
           c == <<Job("body", child(n, 2))>>
<1>1. /\ n \in DOMAIN ast /\ n \in Nat /\ symbol(n) = "TOK_FUNCTION"
      /\ "functions" \in Loops
  BY ItemsType DEF Loops
<1>2. /\ \A i \in 0..2 : /\ child(n, i) \in Kids(ast, n)
                         /\ child(n, i) \in DOMAIN ast /\ child(n, i) \in Nat
                         /\ n < child(n, i)
      /\ child(n, 0) < child(n, 1) /\ child(n, 1) < child(n, 2)
      /\ Declaration(ast, child(n, 0), "TOK_DECLID")
      /\ ast[child(n, 1)].symbol = "TOK_PARAMLIST"
      /\ ast[child(n, 2)].symbol = "TOK_BLOCK"
  <2>1. Built(ast, n) /\ ast[n].symbol = "TOK_FUNCTION"
    BY <1>1 DEF WellFormed, symbol
  <2>2. /\ Len(ast[n].children) = 3
        /\ Declaration(ast, ast[n].children[1], "TOK_DECLID")
        /\ ast[ast[n].children[2]].symbol = "TOK_PARAMLIST"
        /\ ast[ast[n].children[3]].symbol = "TOK_BLOCK"
    BY <2>1 DEF Built
  <2>3. /\ \A i \in 0..2 : child(n, i) = ast[n].children[i + 1]
                           /\ child(n, i) \in Kids(ast, n)
    BY <1>1, <2>2, ChildIs DEF arity, children
  <2>4. /\ child(n, 0) = ast[n].children[1] /\ child(n, 1) = ast[n].children[2]
        /\ child(n, 2) = ast[n].children[3]
    BY <2>3
  <2>5. /\ ast[n].children[1] < ast[n].children[2]
        /\ ast[n].children[2] < ast[n].children[3]
    <3>1. 1 \in 1..Len(ast[n].children) /\ 2 \in 1..Len(ast[n].children)
          /\ 3 \in 1..Len(ast[n].children) /\ 1 < 2 /\ 2 < 3
      BY <2>2
    <3> QED BY <1>1, <3>1, KidsFollow
  <2> QED BY <1>1, <2>2, <2>3, <2>4, <2>5, KidsType
<1>3. /\ kids \in Seq(DOMAIN ast) /\ Len(kids) \in Nat /\ DOMAIN kids = 1..Len(kids)
      /\ \A i \in 1..Len(kids) : /\ kids[i] \in Kids(ast, child(n, 1))
                                 /\ Declaration(ast, kids[i], "TOK_DECLID")
      /\ \A i, j \in 1..Len(kids) : i < j => kids[i] < kids[j]
  <2> DEFINE m == child(n, 1)
  <2>1. m \in DOMAIN ast /\ ast[m].symbol = "TOK_PARAMLIST"
    BY <1>2
  <2> HIDE DEF m
  <2>2. Built(ast, m) /\ kids = ast[m].children
    BY <2>1 DEF WellFormed, children, m
  <2>3. \A i \in DOMAIN kids : Declaration(ast, kids[i], "TOK_DECLID")
    BY <2>1, <2>2 DEF Built
  <2>4. /\ kids \in Seq(DOMAIN ast)
        /\ \A i, j \in 1..Len(kids) : i < j => kids[i] < kids[j]
    BY <2>1, <2>2, KidsFollow
  <2> HIDE DEF kids
  <2>5. \A i \in 1..Len(kids) : kids[i] \in Kids(ast, m)
    BY <2>2, <2>4 DEF Kids, Range
  <2> QED BY <2>3, <2>4, <2>5 DEF m
<1> HIDE DEF kids
<1>4. Job("function", child(n, 0)) \in S /\ Job("body", child(n, 2)) \in S
  <2>1. Job("function", child(n, 0)) \in JobSet(ast)
    BY <1>2, JobFacts DEF JobSet, Shape, Kinds, Headings, Declarers, symbol
  <2>2. Job("body", child(n, 2)) \in JobSet(ast)
    BY <1>2, JobFacts DEF JobSet, Shape, Kinds, Headings, Declarers, symbol
  <2>3. \A m \in Items("functions") :
          n < m => child(n, 0) < m /\ child(n, 2) < m
    BY <1>1, <1>2, ItemsNest
  <2>4. n <= child(n, 0) /\ n <= child(n, 2)
    BY <1>1, <1>2
  <2> QED BY <2>1, <2>2, <2>3, <2>4, JobFacts DEF IterationOf, Stage, Loops
<1>5. \A i \in 1..Len(kids) : Job("param", kids[i]) \in S
  <2> SUFFICES ASSUME NEW i \in 1..Len(kids)  PROVE Job("param", kids[i]) \in S
    OBVIOUS
  <2>1. /\ kids[i] \in DOMAIN ast /\ kids[i] \in Nat /\ child(n, 1) < kids[i]
    BY <1>2, <1>3, KidsType
  <2>2. Job("param", kids[i]) \in JobSet(ast)
    BY <1>3, <2>1, JobFacts DEF JobSet, Shape, Kinds, Headings, Declarers
  <2>3. \A m \in Items("functions") : n < m => kids[i] < m
    BY <1>1, <1>2, <1>3, ItemsNest
  <2>4. n <= kids[i]
    BY <1>1, <1>2, <2>1
  <2> QED BY <2>2, <2>3, <2>4, JobFacts DEF IterationOf, Stage, Loops
<1>6. /\ a \in Seq(S) /\ Len(a) = 1 /\ a[1] = Job("function", child(n, 0))
      /\ Sorted(a)
      /\ c \in Seq(S) /\ Len(c) = 1 /\ c[1] = Job("body", child(n, 2))
      /\ Sorted(c)
  BY <1>4, OneJob
<1>7. /\ b \in Seq(S) /\ Len(b) = Len(kids)
      /\ \A i \in 1..Len(kids) : b[i] = Job("param", kids[i])
  BY <1>3, <1>5, EachOfIs
<1>8. Sorted(b)
  BY <1>3, EachSorted
<1>9. \A j \in 1..Len(kids) : /\ child(n, 0) < kids[j] /\ kids[j] < child(n, 2)
  <2> SUFFICES ASSUME NEW j \in 1..Len(kids)
               PROVE  child(n, 0) < kids[j] /\ kids[j] < child(n, 2)
    OBVIOUS
  <2>1. kids[j] \in Nat /\ child(n, 1) < kids[j]
    BY <1>2, <1>3, KidsType
  <2>2. kids[j] < child(n, 2)
    BY <1>1, <1>2, <1>3, KidsNest
  <2> QED BY <1>2, <2>1, <2>2
<1> HIDE DEF a, b, c, S
<1>10. \A i \in 1..Len(a) : \A j \in 1..Len(b) : Before(a[i], b[j])
  <2> SUFFICES ASSUME NEW j \in 1..Len(b)
               PROVE  Before(Job("function", child(n, 0)), Job("param", kids[j]))
    BY <1>6, <1>7
  <2> QED BY <1>7, <1>9, JobFacts DEF Before, Stage, Loops
<1>11. a \o b \in Seq(S) /\ Sorted(a \o b)
       /\ \A i \in 1..Len(a \o b) :
            \/ \E k \in 1..Len(a) : (a \o b)[i] = a[k]
            \/ \E k \in 1..Len(b) : (a \o b)[i] = b[k]
  BY <1>6, <1>7, <1>8, <1>10, ConcatSorted
<1>12. \A i \in 1..Len(a \o b) : \A j \in 1..Len(c) : Before((a \o b)[i], c[j])
  <2>1. \A k \in 1..Len(a) : Before(a[k], c[1])
    <3>1. child(n, 0) < child(n, 2)
      BY <1>2
    <3> QED BY <1>6, <3>1, JobFacts DEF Before, Stage, Loops
  <2>2. \A k \in 1..Len(b) : Before(b[k], c[1])
    BY <1>6, <1>7, <1>9, JobFacts DEF Before, Stage, Loops
  <2>3. \A j \in 1..Len(c) : j = 1
    BY <1>6
  <2> QED BY <1>11, <2>1, <2>2, <2>3
<1>13. (a \o b) \o c \in Seq(S) /\ Sorted((a \o b) \o c)
  BY <1>6, <1>11, <1>12, ConcatSorted
<1>14. (a \o b) \o c # <<>> /\ ((a \o b) \o c)[1] = a[1]
  <2> DEFINE x == a \o b
  <2>1. x \in Seq(S) /\ Len(x) > 0 /\ x[1] = a[1]
    BY <1>6, <1>7
  <2> HIDE DEF x
  <2>2. x \o c # <<>> /\ (x \o c)[1] = x[1]
    BY <1>6, <2>1
  <2> QED BY <2>1, <2>2 DEF x
<1> QED BY <1>6, <1>13, <1>14 DEF Iteration, a, b, c, S, kids

LEMMA IterationJobs ==
  ASSUME WellFormed(ast, Name), NEW loop \in Loops, NEW n \in Items(loop)
  PROVE  /\ Iteration(loop, n) \in Seq(IterationOf(loop, n))
         /\ Sorted(Iteration(loop, n)) /\ Iteration(loop, n) # <<>>
         /\ loop = "functions" => Iteration(loop, n)[1].what = "function"
<1>1. CASE loop = "structs"
  BY <1>1, StructIteration
<1>2. CASE loop = "functions"
  BY <1>2, FunctionIteration, JobFacts
<1>3. CASE loop = "strings"
  <2>1. n \in DOMAIN ast /\ n \in Nat /\ symbol(n) = "TOK_STRINGCON"
    BY <1>3, ItemsType
  <2>2. Job("string", n) \in JobSet(ast)
    BY <2>1, JobFacts DEF JobSet, Shape, Kinds, Headings, Declarers, symbol
  <2>3. Job("string", n) \in IterationOf(loop, n)
    BY <1>3, <2>1, <2>2, JobFacts DEF IterationOf, Stage, Loops
  <2>4. Iteration(loop, n) = <<Job("string", n)>>
    BY <1>3 DEF Iteration
  <2> QED BY <1>3, <2>3, <2>4, OneJob
<1>4. CASE loop = "globals"
  <2>1. n \in DOMAIN ast /\ n \in Nat /\ symbol(n) = "TOK_VARDECL"
    BY <1>4, ItemsType
  <2>2. /\ child(n, 0) \in Kids(ast, n) /\ child(n, 0) \in DOMAIN ast
        /\ Declaration(ast, child(n, 0), "TOK_DECLID")
    <3>1. /\ Len(ast[n].children) = 2
          /\ Declaration(ast, ast[n].children[1], "TOK_DECLID")
      BY <2>1 DEF WellFormed, Built, symbol
    <3>2. 0 \in 0..arity(n) - 1
      BY <3>1 DEF arity, children
    <3>3. child(n, 0) = ast[n].children[0 + 1] /\ child(n, 0) \in Kids(ast, n)
          /\ child(n, 0) \in DOMAIN ast
      BY <2>1, <3>2, ChildIs
    <3> QED BY <3>1, <3>3
  <2>3. child(n, 0) \in Nat /\ n < child(n, 0)
    BY <2>1, <2>2, KidsType
  <2>4. \A m \in Items(loop) : n < m => child(n, 0) < m
    BY <1>4, <2>2, ItemsNest
  <2>5. Job("global", child(n, 0)) \in JobSet(ast)
    BY <2>2, JobFacts DEF JobSet, Shape, Kinds, Headings, Declarers
  <2>6. Job("global", child(n, 0)) \in IterationOf(loop, n)
    BY <1>4, <2>1, <2>3, <2>4, <2>5, JobFacts DEF IterationOf, Stage, Loops
  <2>7. Iteration(loop, n) = <<Job("global", child(n, 0))>>
    BY <1>4 DEF Iteration
  <2> QED BY <1>4, <2>6, <2>7, OneJob
<1> QED BY <1>1, <1>2, <1>3, <1>4 DEF Loops

LEMMA AllJobsSorted ==
  ASSUME WellFormed(ast, Name)
  PROVE  AllJobs \in Seq(JobSet(ast)) /\ Sorted(AllJobs) /\ Len(AllJobs) = 5
<1>1. 1 \in DOMAIN ast
  BY DEF WellFormed
<1>2. \A what \in Loops \cup {"main"} : Job(what, 1) \in JobSet(ast)
  BY <1>1, JobFacts DEF JobSet, Shape, Kinds, Loops, Headings, Declarers
<1>3. AllJobs \in Seq(JobSet(ast)) /\ Len(AllJobs) = 5
  BY <1>2 DEF AllJobs, Loops
<1>4. /\ AllJobs[1] = Job("structs", 1) /\ AllJobs[2] = Job("strings", 1)
      /\ AllJobs[3] = Job("globals", 1) /\ AllJobs[4] = Job("functions", 1)
      /\ AllJobs[5] = Job("main", 1)
  BY DEF AllJobs
<1>5. ASSUME NEW i \in 1..5, NEW j \in 1..5, i < j
      PROVE  Before(AllJobs[i], AllJobs[j])
  <2>1. /\ Stage(AllJobs[1].what) = 1 /\ Stage(AllJobs[2].what) = 2
        /\ Stage(AllJobs[3].what) = 3 /\ Stage(AllJobs[4].what) = 4
        /\ Stage(AllJobs[5].what) = 5
    BY <1>4, JobFacts DEF Stage
  <2>2. Stage(AllJobs[i].what) = i /\ Stage(AllJobs[j].what) = j
    BY <2>1
  <2> QED BY <1>5, <2>2 DEF Before
<1> QED BY <1>3, <1>5 DEF Sorted

LEMMA JobsTail ==
  ASSUME JobsInv, jobs # <<>>
  PROVE  /\ Tail(jobs) \in Seq(JobSet(ast)) /\ Sorted(Tail(jobs))
         /\ Len(Tail(jobs)) = Len(jobs) - 1 /\ Len(jobs) \in Nat \ {0}
         /\ \A i \in 1..Len(Tail(jobs)) : /\ Tail(jobs)[i] = jobs[i + 1]
                                          /\ Before(Head(jobs), Tail(jobs)[i])
         /\ Head(jobs) \in JobSet(ast) /\ Head(jobs) = jobs[1]
<1>1. jobs \in Seq(JobSet(ast)) /\ Sorted(jobs)
  BY DEF JobsInv
<1>2. /\ Tail(jobs) \in Seq(JobSet(ast)) /\ Len(Tail(jobs)) = Len(jobs) - 1
      /\ Len(jobs) \in Nat \ {0}
      /\ \A i \in 1..Len(Tail(jobs)) : Tail(jobs)[i] = jobs[i + 1]
      /\ Head(jobs) = jobs[1] /\ Head(jobs) \in JobSet(ast)
  BY <1>1, TailFacts
<1>3. \A i, j \in 1..Len(Tail(jobs)) : i < j =>
        /\ i + 1 \in 1..Len(jobs) /\ j + 1 \in 1..Len(jobs) /\ i + 1 < j + 1
  BY <1>2
<1>4. Sorted(Tail(jobs))
  BY <1>1, <1>2, <1>3 DEF Sorted
<1>5. \A i \in 1..Len(Tail(jobs)) : Before(Head(jobs), Tail(jobs)[i])
  <2>1. \A i \in 1..Len(Tail(jobs)) :
          1 \in 1..Len(jobs) /\ i + 1 \in 1..Len(jobs) /\ 1 < i + 1
    BY <1>2
  <2> QED BY <1>1, <1>2, <2>1 DEF Sorted
<1> QED BY <1>2, <1>4, <1>5

LEMMA JobType ==
  ASSUME WellFormed(ast, Name), NEW job \in JobSet(ast)
  PROVE  /\ job.what \in Kinds /\ job.node \in DOMAIN ast /\ job.node \in Nat
         /\ Shape(ast, job)
BY DEF JobSet, WellFormed

(* The jobs after a step of a loop. *)
LEMMA IterateJobs ==
  ASSUME WellFormed(ast, Name), JobsInv, Iterate
  PROVE  LET loop == Head(jobs).what
             todo == {n \in Items(loop) : n > Head(jobs).node}
         IN
         /\ jobs # <<>> /\ loop \in Loops
         /\ jobs' \in Seq(JobSet(ast)) /\ Sorted(jobs')
         /\ \/ todo = {} /\ jobs' = Tail(jobs)
            \/ \E n \in todo :
                 /\ n \in Items(loop) /\ Head(jobs).node < n
                 /\ jobs' # <<>>
                 /\ Head(jobs').what \notin Loops
                 /\ Stage(Head(jobs').what) = Stage(loop)
                 /\ loop = "functions" => Head(jobs').what = "function"
                 /\ \A i \in 1..Len(jobs') :
                      \/ jobs'[i] \in IterationOf(loop, n)
                      \/ jobs'[i] = Job(loop, n)
                      \/ \E k \in 1..Len(Tail(jobs)) : jobs'[i] = Tail(jobs)[k]
<1> DEFINE loop == Head(jobs).what
           todo == {n \in Items(loop) : n > Head(jobs).node}
           n == Min(todo)
           a == Iteration(loop, n)
           b == <<Job(loop, n)>>
           c == Tail(jobs)
           S == JobSet(ast)
<1>1. jobs # <<>> /\ loop \in Loops
  BY DEF Iterate, Emitting
<1>2. /\ c \in Seq(S) /\ Sorted(c) /\ Head(jobs) \in S
      /\ \A i \in 1..Len(c) : Before(Head(jobs), c[i])
  BY <1>1, JobsTail
<1>3. CASE todo = {}
  <2>1. jobs' = c
    BY <1>3 DEF Iterate
  <2> QED BY <1>1, <1>2, <1>3, <2>1
<1>4. CASE todo # {}
  <2>1. jobs' = (a \o b) \o c
    BY <1>4 DEF Iterate
  <2>2. n \in todo
    <3>1. todo \in SUBSET Nat
      BY <1>1, ItemsType
    <3> HIDE DEF todo
    <3> QED BY <1>4, <3>1, LeastOf
  <2>3. /\ n \in Items(loop) /\ Head(jobs).node < n /\ n \in DOMAIN ast
    <3>1. n \in Items(loop) /\ n > Head(jobs).node
      BY <2>2
    <3> HIDE DEF n
    <3>2. n \in Nat /\ n \in DOMAIN ast /\ Head(jobs).node \in Nat
      BY <1>1, <1>2, <3>1, ItemsType, JobType
    <3> QED BY <3>1, <3>2
  <2> HIDE DEF n, todo
  <2>4. a \in Seq(IterationOf(loop, n)) /\ Sorted(a)
    BY <1>1, <2>3, IterationJobs
  <2>5. a \in Seq(S) /\ \A i \in 1..Len(a) : a[i] \in IterationOf(loop, n)
    <3>1. IterationOf(loop, n) \subseteq S
      BY DEF IterationOf
    <3> HIDE DEF a, S
    <3> QED BY <2>4, <3>1, SeqWidens
  <2>6. b \in Seq(S) /\ Len(b) = 1 /\ b[1] = Job(loop, n) /\ Sorted(b)
    <3>1. Job(loop, n) \in S
      BY <1>1, <2>3, JobFacts
         DEF JobSet, Shape, Kinds, Loops, Headings, Declarers
    <3> QED BY <3>1, OneJob
  <2> HIDE DEF a, b, c, S
  <2>0. a \in Seq(S) /\ b \in Seq(S) /\ Sorted(a) /\ Sorted(b)
    BY <2>4, <2>5, <2>6
  <2>7. \A i \in 1..Len(a) : \A j \in 1..Len(b) : Before(a[i], b[j])
    <3>1. \A i \in 1..Len(a) : Before(a[i], Job(loop, n))
      BY <1>1, <2>5, JobFacts DEF IterationOf, Before
    <3>2. \A j \in 1..Len(b) : b[j] = Job(loop, n)
      BY <2>6
    <3> QED BY <3>1, <3>2
  <2>8. a \o b \in Seq(S) /\ Sorted(a \o b) /\ Len(a \o b) = Len(a) + Len(b)
        /\ \A i \in 1..Len(a \o b) :
             \/ \E k \in 1..Len(a) : (a \o b)[i] = a[k]
             \/ \E k \in 1..Len(b) : (a \o b)[i] = b[k]
    BY ONLY <2>0, <2>7, ConcatSorted
  <2>9. \A i \in 1..Len(a \o b) : \/ (a \o b)[i] \in IterationOf(loop, n)
                                  \/ (a \o b)[i] = Job(loop, n)
    <3>1. \A j \in 1..Len(b) : b[j] = Job(loop, n)
      BY <2>6
    <3> QED BY <2>5, <2>8, <3>1
  (* Whatever is left behind the loop is of a later stage. *)
  <2>10. \A j \in 1..Len(c) : Stage(loop) < Stage(c[j].what)
    BY <1>1, <1>2 DEF Before
  <2>11. \A i \in 1..Len(a \o b) : \A j \in 1..Len(c) :
           Before((a \o b)[i], c[j])
    <3>1. \A i \in 1..Len(a \o b) : Stage((a \o b)[i].what) = Stage(loop)
      BY <2>9, JobFacts DEF IterationOf
    <3> QED BY <2>10, <3>1 DEF Before
  <2>12. (a \o b) \o c \in Seq(S) /\ Sorted((a \o b) \o c)
         /\ Len((a \o b) \o c) = Len(a \o b) + Len(c)
         /\ \A i \in 1..Len((a \o b) \o c) :
              \/ \E k \in 1..Len(a \o b) : ((a \o b) \o c)[i] = (a \o b)[k]
              \/ \E k \in 1..Len(c) : ((a \o b) \o c)[i] = c[k]
    <3> DEFINE x == a \o b
    <3>1. x \in Seq(S) /\ Sorted(x) /\ c \in Seq(S) /\ Sorted(c)
          /\ \A i \in 1..Len(x) : \A j \in 1..Len(c) : Before(x[i], c[j])
      BY <1>2, <2>8, <2>11 DEF c, S
    <3> HIDE DEF x
    <3>2. x \o c \in Seq(S) /\ Sorted(x \o c)
          /\ Len(x \o c) = Len(x) + Len(c)
          /\ \A i \in 1..Len(x \o c) :
               \/ \E k \in 1..Len(x) : (x \o c)[i] = x[k]
               \/ \E k \in 1..Len(c) : (x \o c)[i] = c[k]
      BY ONLY <3>1, ConcatSorted
    <3> QED BY <3>2 DEF x
  (* The first job is the first of the iteration. *)
  <2>13. /\ jobs' # <<>> /\ Head(jobs').what \notin Loops
         /\ Stage(Head(jobs').what) = Stage(loop)
         /\ loop = "functions" => Head(jobs').what = "function"
    <3>1. Len(a) \in Nat /\ Len(a) > 0
          /\ (loop = "functions" => a[1].what = "function")
      <4>1. a # <<>> /\ (loop = "functions" => a[1].what = "function")
        BY <1>1, <2>3, IterationJobs DEF a
      <4> QED BY <2>5, <4>1
    <3>2. (a \o b) \o c # <<>> /\ Head((a \o b) \o c) = a[1] /\ 1 \in 1..Len(a)
      BY <1>2, <2>5, <2>6, <2>8, <2>12, <3>1
    <3>3. a[1] \in IterationOf(loop, n)
      BY <2>5, <3>2
    <3> QED BY <2>1, <3>1, <3>2, <3>3 DEF IterationOf
  <2>14. \A i \in 1..Len(jobs') :
           \/ jobs'[i] \in IterationOf(loop, n)
           \/ jobs'[i] = Job(loop, n)
           \/ \E k \in 1..Len(c) : jobs'[i] = c[k]
    BY <2>1, <2>9, <2>12
  <2>15. jobs' \in Seq(JobSet(ast)) /\ Sorted(jobs')
    BY <2>1, <2>12 DEF S
  <2> QED BY <1>1, <2>2, <2>3, <2>13, <2>14, <2>15 DEF todo, c
<1> QED BY <1>3, <1>4

-----------------------------------------------------------------------------
(* The calls for a job. *)

(* What the declarations of fields, parameters, globals and functions      *)
(* consist of.                                                             *)
Inert == TypeName \cup {"TOK_ARRAY", "TOK_DECLID", "TOK_FIELD"}

LEMMA InertKids ==
  ASSUME NEW p, NEW names, WellFormed(p, names), NEW n \in DOMAIN p,
         p[n].symbol \in Inert, NEW c \in Kids(p, n)
  PROVE  p[c].symbol \in Inert
<1> DEFINE kids == p[n].children
<1>1. Built(p, n) /\ kids \in Seq(DOMAIN p)
  BY KidsFollow DEF WellFormed
<1>2. PICK i \in 1..Len(kids) : c = kids[i]
  BY <1>1 DEF Kids, Range
<1>3. CASE p[n].symbol \in {"TOK_DECLID", "TOK_FIELD"}
  <2>1. kids = <<>>
    BY <1>1, <1>3 DEF Built
  <2>2. Len(kids) = 0
    BY <2>1
  <2> QED BY <1>2, <2>2
<1>4. CASE p[n].symbol \in TypeName \cup {"TOK_ARRAY"}
  <2>1. \/ Type(p, n) \/ Declaration(p, n, "TOK_DECLID")
        \/ Declaration(p, n, "TOK_FIELD")
    BY <1>1, <1>4 DEF Built
  <2>2. Len(kids) \in Nat
    BY <1>1
  <2>3. CASE Type(p, n)
    BY <1>2, <2>3 DEF Type
  <2>4. ASSUME NEW what \in {"TOK_DECLID", "TOK_FIELD"},
               Declaration(p, n, what)
        PROVE  p[c].symbol \in Inert
    <3>1. CASE Len(kids) = 1 /\ p[kids[1]].symbol = what
      BY <1>2, <3>1, SmallIndex DEF Inert
    <3>2. CASE Len(kids) = 2 /\ Type(p, kids[1]) /\ p[kids[2]].symbol = what
      <4>1. c = kids[1] \/ c = kids[2]
        BY <1>2, <3>2, SmallIndex
      <4> QED BY <3>2, <4>1 DEF Inert, Type
    <3> QED BY <2>4, <3>1, <3>2 DEF Declaration
  <2> QED BY <2>1, <2>3, <2>4
<1> QED BY <1>3, <1>4 DEF Inert

(* The frames are those of a traversal of the first job's node. *)
Stacked(p, js, es) ==
  /\ Descent(p, es)
  /\ \A i \in 1..Len(es) : es[i].next <= Len(Below(p, es[i].node)) + 1
  /\ es # <<>> => /\ js # <<>> /\ Head(js).what \notin Loops \cup Headings
                  /\ es[1].node = Head(js).node
                  /\ Head(js).what \in Declarers =>
                       \A i \in 1..Len(es) : p[es[i].node].symbol \in Inert

LEMMA NothingStacked ==
  ASSUME NEW p, NEW js
  PROVE  Stacked(p, js, <<>>)
BY DEF Stacked, Descent

LEMMA StackedBegins ==
  ASSUME WellFormed(ast, Name), NEW js, js # <<>>, Head(js) \in JobSet(ast),
         Head(js).what \notin Loops \cup Headings
  PROVE  Stacked(ast, js, <<Frame(Head(js).node)>>)
<1> DEFINE n == Head(js).node
           es == <<Frame(n)>>
<1>1. n \in DOMAIN ast /\ Shape(ast, Head(js))
  BY JobType
<1>2. Frame(n) = [node |-> n, next |-> 1] /\ Frame(n) \in Frames(ast)
  BY <1>1 DEF Frame, Frames
<1>3. /\ es \in Seq(Frames(ast)) /\ Len(es) = 1 /\ es[1] = Frame(n) /\ es # <<>>
      /\ \A i \in 1..Len(es) : i = 1
  BY <1>2
<1>4. 1 <= Len(Below(ast, n)) + 1
  <2>1. Len(Below(ast, n)) \in Nat
    BY <1>1, BelowFollows
  <2> QED BY <2>1
<1>5. Head(js).what \in Declarers => ast[n].symbol \in Inert
  BY <1>1 DEF Shape, Declarers, Declaration, Inert
<1> HIDE DEF es
<1>6. Descent(ast, es)
  BY <1>3 DEF Descent
<1>7. /\ \A i \in 1..Len(es) : es[i].next <= Len(Below(ast, es[i].node)) + 1
      /\ es[1].node = n
      /\ Head(js).what \in Declarers =>
           \A i \in 1..Len(es) : ast[es[i].node].symbol \in Inert
  BY <1>2, <1>3, <1>4, <1>5
<1> QED BY <1>3, <1>6, <1>7 DEF Stacked, es

(* The child that is entered. *)
LEMMA StackedEnters ==
  ASSUME WellFormed(ast, Name), NEW js, NEW es, Stacked(ast, js, es), es # <<>>,
         es[Len(es)].next <= Len(Below(ast, es[Len(es)].node))
  PROVE  LET c == Below(ast, es[Len(es)].node)[es[Len(es)].next]
         IN  Stacked(ast, js, Append(Bumped(es), Frame(c)))
<1> DEFINE top == es[Len(es)]
           c == Below(ast, top.node)[top.next]
           ds == Append(Bumped(es), Frame(c))
<1>1. Descent(ast, es)
  BY DEF Stacked
<1>2. /\ c \in DOMAIN ast /\ c \in Nat /\ c \in Kids(ast, top.node)
      /\ Descent(ast, ds) /\ Len(ds) = Len(es) + 1
      /\ \A i \in 1..Len(es) : ds[i] = Bumped(es)[i]
      /\ ds[Len(es) + 1] = Frame(c)
  BY <1>1, Descend
<1>3. /\ \A i \in 1..Len(es) : /\ Bumped(es)[i].node = es[i].node
                               /\ i < Len(es) => Bumped(es)[i] = es[i]
      /\ Bumped(es)[Len(es)].next = top.next + 1
      /\ Len(es) \in Nat \ {0}
  BY <1>1, Bump
<1>4. top.node \in DOMAIN ast /\ top.next \in Nat \ {0}
  BY <1>1, StackAhead
<1>5. Frame(c).node = c /\ Frame(c).next = 1
  BY DEF Frame
<1>6. Len(Below(ast, c)) \in Nat /\ Len(Below(ast, top.node)) \in Nat
  BY <1>2, <1>4, BelowFollows
<1> HIDE DEF c, ds
<1>7. \A i \in 1..Len(ds) :
        \/ i = Len(es) + 1
        \/ i \in 1..Len(es) /\ i < Len(es)
        \/ i = Len(es) /\ i \in 1..Len(es)
  BY <1>2, <1>3
<1>8. ASSUME NEW i \in 1..Len(ds)
      PROVE  ds[i].next <= Len(Below(ast, ds[i].node)) + 1
  <2>1. CASE i = Len(es) + 1
    BY <1>2, <1>5, <1>6, <2>1
  <2>2. CASE i \in 1..Len(es) /\ i < Len(es)
    BY <1>2, <1>3, <2>2 DEF Stacked
  <2>3. CASE i = Len(es) /\ i \in 1..Len(es)
    BY <1>2, <1>3, <1>4, <1>6, <2>3
  <2> QED BY <1>7, <2>1, <2>2, <2>3
<1>9. ds # <<>> /\ ds[1].node = es[1].node
  BY <1>2, <1>3
<1>10. ASSUME Head(js).what \in Declarers, NEW i \in 1..Len(ds)
       PROVE  ast[ds[i].node].symbol \in Inert
  <2>0. \A k \in 1..Len(es) : ast[es[k].node].symbol \in Inert
    BY <1>10 DEF Stacked
  <2>1. CASE i = Len(es) + 1
    <3>1. ast[top.node].symbol \in Inert
      BY <1>3, <2>0
    <3> QED BY <1>2, <1>4, <1>5, <2>1, <3>1, InertKids
  <2>2. CASE i \in 1..Len(es)
    BY <1>2, <1>3, <2>0, <2>2
  <2> QED BY <1>7, <2>1, <2>2
<1> QED BY <1>2, <1>8, <1>9, <1>10 DEF Stacked, c, ds

(* The return to the caller. *)
LEMMA StackedLeaves ==
  ASSUME NEW js, NEW ks, NEW es, Stacked(ast, js, es), es # <<>>,
         Front(es) # <<>> => ks = js
  PROVE  Stacked(ast, ks, Front(es))
<1>1. /\ Descent(ast, Front(es)) /\ Len(Front(es)) = Len(es) - 1
      /\ Len(es) \in Nat \ {0}
      /\ \A i \in 1..Len(es) - 1 : Front(es)[i] = es[i]
  BY Ascend DEF Stacked
<1>2. Front(es) # <<>> => Len(es) > 1
  <2>1. Front(es) \in Seq(Frames(ast))
    BY <1>1 DEF Descent
  <2> QED BY <1>1, <2>1
<1> QED BY <1>1, <1>2 DEF Stacked

-----------------------------------------------------------------------------
(* Lines. *)

LEMMA PlainLine ==
  ASSUME NEW op, NEW n
  PROVE  /\ Line(op, n).op = op /\ Line(op, n).node = n
         /\ Line(op, n).def = NULL /\ Line(op, n).label = NULL
BY DEF Line

LEMMA BraceLine ==
  ASSUME NEW n, NEW brace \in {"{", "}"}
  PROVE  Line(brace, n).op \notin {"goto", "unless", "label", "function"}
<1>1. Line(brace, n).op = brace
  BY PlainLine
<1>2. "{" \notin {"goto", "unless", "label", "function"}
  BY Zenon
<1>3. "}" \notin {"goto", "unless", "label", "function"}
  BY Zenon
<1> QED BY <1>1, <1>2, <1>3, Zenon

LEMMA DoingLine ==
  ASSUME NEW op, NEW n, NEW args
  PROVE  /\ Doing(op, n, args).op = op /\ Doing(op, n, args).node = n
         /\ Doing(op, n, args).def = NULL
BY DEF Doing, Line

LEMMA DefiningLine ==
  ASSUME NEW op, NEW n, NEW def, NEW type, NEW args
  PROVE  /\ Defining(op, n, def, type, args).op = op
         /\ Defining(op, n, def, type, args).node = n
         /\ Defining(op, n, def, type, args).def = def
BY DEF Defining, Doing, Line

LEMMA CallLine ==
  ASSUME NEW n, NEW def, NEW type, NEW args, NEW f
  PROVE  LET line == [Defining("call", n, def, type, args) EXCEPT !.label = f]
         IN  line.op = "call" /\ line.node = n /\ line.def = def
BY DEF Defining, Doing, Line

LEMMA LabelledLine ==
  ASSUME NEW op, NEW kind, NEW n, NEW args
  PROVE  /\ Labelled(op, kind, n, args).op = op
         /\ Labelled(op, kind, n, args).node = n
         /\ Labelled(op, kind, n, args).def = NULL
         /\ Labelled(op, kind, n, args).label = <<kind, n>>
BY DEF Labelled, Doing, Line

LEMMA JumpFacts ==
  ASSUME NEW kind, NEW n
  PROVE  /\ Label(kind, n).op = "label" /\ Label(kind, n).label = <<kind, n>>
         /\ Goto(kind, n).op = "goto" /\ Goto(kind, n).label = <<kind, n>>
         /\ Unless(kind, n).op = "unless" /\ Unless(kind, n).label = <<kind, n>>
         /\ Label(kind, n).def = NULL /\ Goto(kind, n).def = NULL
         /\ Unless(kind, n).def = NULL
BY LabelledLine DEF Label, Goto, Unless

(* The lines that Code makes. *)
CodeOps == BinaryOps \cup UnaryOps
             \cup {"=", "declare", "call", "return", "index", "select", "calloc"}

Allocators == {"TOK_NEW", "TOK_NEWARRAY", "TOK_NEWSTRING"}

(* One line at most, which defines a new register, a variable or nothing.  *)
CodeLine(n, line) ==
  /\ line.op \in CodeOps /\ line.node = n
  /\ AllocatesRegister(n) => line.def = Reg
  /\ ~ AllocatesRegister(n) =>
       \/ line.def = NULL /\ line.op # "declare"
       \/ /\ line.op = "declare" /\ symbol(n) = "TOK_VARDECL"
          /\ symbol(parent(n)) # "TOK_ROOT"
          /\ line.def = oilname[Used(n)[1]].name

LEMMA DeclUses ==
  ASSUME NEW n, symbol(n) = "TOK_VARDECL"
  PROVE  1 \in DOMAIN Used(n)
<1>1. "TOK_VARDECL" \notin BinaryOps \cup UnaryOps \cup TypeTokens
  BY DEF BinaryOps, UnaryOps, TypeTokens
<1>2. \E x, y : Used(n) = <<x, y>>
  BY <1>1 DEF Used
<1> QED BY <1>2

LEMMA RegisterLine ==
  ASSUME NEW n, AllocatesRegister(n), NEW op, op \in CodeOps, NEW t, NEW args
  PROVE  CodeLine(n, Defining(op, n, Reg, t, args))
BY DefiningLine DEF CodeLine

LEMMA SilentLine ==
  ASSUME NEW n, ~ AllocatesRegister(n), NEW op, op \in {"=", "return"}, NEW args
  PROVE  CodeLine(n, Doing(op, n, args))
BY DoingLine DEF CodeLine, CodeOps

LEMMA CodeIs ==
  ASSUME NEW n
  PROVE  /\ \/ Code(n) = <<>> /\ ~ AllocatesRegister(n)
            \/ \E line : Code(n) = <<line>> /\ CodeLine(n, line)
<1> DEFINE s == symbol(n)
           args == [i \in DOMAIN Used(n) |-> oilname[Used(n)[i]]]
           type == get_result_type_name(n)
           made == {"TOK_INDEX", "."} \cup Allocators
<1> HIDE DEF args, type
<1>1. CASE s \in BinaryOps \cup UnaryOps
  <2>0. s \notin {"=", "TOK_VARDECL", "TOK_CALL", "TOK_RETURN",
                  "TOK_RETURNVOID", "TOK_INDEX", "."} \cup Allocators
    BY <1>1 DEF BinaryOps, UnaryOps, Allocators
  <2>1. Code(n) = <<Defining(s, n, Reg, type, args)>>
    BY <1>1, <2>0 DEF Code, args, type, Allocators
  <2>2. AllocatesRegister(n)
    BY <1>1 DEF AllocatesRegister
  <2>3. CodeLine(n, Defining(s, n, Reg, type, args))
    BY <1>1, <2>2, DefiningLine DEF CodeLine, CodeOps
  <2> QED BY <2>1, <2>3
<1>2. CASE s \in made
  <2>1. AllocatesRegister(n) /\ s \notin BinaryOps \cup UnaryOps
    BY <1>2 DEF AllocatesRegister, Allocators, BinaryOps, UnaryOps
  <2>2. PICK op, t, as : /\ op \in {"index", "select", "calloc"}
                         /\ Code(n) = <<Defining(op, n, Reg, t, as)>>
    <3>1. CASE s = "TOK_INDEX"
      BY <3>1, <2>1 DEF Code
    <3>2. CASE s = "."
      BY <3>2, <2>1 DEF Code
    <3>3. CASE s = "TOK_NEW"
      BY <3>3, <2>1 DEF Code
    <3>4. CASE s = "TOK_NEWARRAY"
      BY <3>4, <2>1 DEF Code
    <3>5. CASE s = "TOK_NEWSTRING"
      BY <3>5, <2>1 DEF Code
    <3> QED BY <1>2, <3>1, <3>2, <3>3, <3>4, <3>5 DEF Allocators
  <2>3. CodeLine(n, Defining(op, n, Reg, t, as))
    BY <2>1, <2>2, RegisterLine DEF CodeOps
  <2> QED BY <2>2, <2>3
<1>3. CASE s = "TOK_CALL"
  <2> DEFINE void == IsVoidCall(n)
             def == IF void THEN NULL ELSE Reg
             line == [Defining("call", n, def,
                               IF void THEN CType("void", NULL, 0) ELSE type,
                               args)
                        EXCEPT !.label = lexinfo(child(n, 0))]
  <2>1. s \notin BinaryOps \cup UnaryOps \cup {"=", "TOK_VARDECL"}
    BY <1>3 DEF BinaryOps, UnaryOps
  <2>2. Code(n) = <<line>>
    BY <1>3, <2>1 DEF Code, args, type
  <2>3. AllocatesRegister(n) <=> ~ void
    BY <1>3 DEF AllocatesRegister, BinaryOps, UnaryOps
  <2>4. line.op = "call" /\ line.node = n /\ line.def = def
    BY CallLine
  <2> HIDE DEF line
  <2>5. CodeLine(n, line)
    BY <2>3, <2>4 DEF CodeLine, CodeOps
  <2> QED BY <2>2, <2>5
<1>4. CASE s \notin BinaryOps \cup UnaryOps \cup made \cup {"TOK_CALL"}
  <2>1. ~ AllocatesRegister(n)
    BY <1>4 DEF AllocatesRegister, Allocators
  <2>2. CASE s = "TOK_VARDECL" /\ symbol(parent(n)) # "TOK_ROOT"
    <3> DEFINE line == Defining("declare", n, args[1].name, args[1].type,
                                <<args[2]>>)
    <3>1. Code(n) = <<line>>
      BY <1>4, <2>2 DEF Code, args
    <3>2. args[1] = oilname[Used(n)[1]]
      BY <2>2, DeclUses DEF args
    <3>3. line.op = "declare" /\ line.node = n
          /\ line.def = oilname[Used(n)[1]].name
      BY <3>2, DefiningLine
    <3> HIDE DEF line
    <3>4. CodeLine(n, line)
      BY <2>1, <2>2, <3>3 DEF CodeLine, CodeOps
    <3> QED BY <3>1, <3>4
  <2>3. ASSUME NEW op \in {"=", "return"}, NEW as,
               Code(n) = <<Doing(op, n, as)>>
        PROVE  CodeLine(n, Doing(op, n, as))
    BY <2>1, SilentLine
  <2>4. CASE s = "TOK_VARDECL" /\ symbol(parent(n)) = "TOK_ROOT"
    <3>1. Code(n) = <<Doing("=", n, args)>>
      BY <1>4, <2>4 DEF Code, args
    <3> QED BY <2>3, <3>1
  <2>5. CASE s = "="
    <3>1. Code(n) = <<Doing("=", n, args)>>
      BY <1>4, <2>5 DEF Code, args
    <3> QED BY <2>3, <3>1
  <2>6. CASE s = "TOK_RETURN"
    <3>1. Code(n) = <<Doing("return", n, args)>>
      BY <1>4, <2>6 DEF Code, args
    <3> QED BY <2>3, <3>1
  <2>7. CASE s = "TOK_RETURNVOID"
    <3>1. Code(n) = <<Doing("return", n, <<>>)>>
      BY <1>4, <2>7 DEF Code
    <3> QED BY <2>3, <3>1
  <2>8. CASE s \notin {"=", "TOK_RETURN", "TOK_RETURNVOID", "TOK_VARDECL"}
    <3>1. Code(n) = <<>>
      BY <1>4, <2>8 DEF Code, Allocators
    <3> QED BY <2>1, <3>1
  <2> QED BY <2>2, <2>4, <2>5, <2>6, <2>7, <2>8
<1> QED BY <1>1, <1>2, <1>3, <1>4

(* At most two lines. *)
Few(code) == \/ code = <<>> \/ (\E x : code = <<x>>) \/ (\E x, y : code = <<x, y>>)

LEMMA FewAppended ==
  ASSUME NEW o, IsSeq(o), NEW code, Few(code)
  PROVE  /\ IsSeq(o \o code) /\ Len(code) \in Nat
         /\ Len(o \o code) = Len(o) + Len(code)
         /\ \A i \in 1..Len(o) : (o \o code)[i] = o[i]
<1>0. Len(o) \in Nat
  BY SeqFacts
<1>1. CASE code = <<>>
  BY <1>0, <1>1, SeqFacts
<1>2. ASSUME NEW x, code = <<x>>
      PROVE  /\ IsSeq(o \o code) /\ Len(code) \in Nat
             /\ Len(o \o code) = Len(o) + Len(code)
             /\ \A i \in 1..Len(o) : (o \o code)[i] = o[i]
  <2>1. o \o code = Append(o, x) /\ Len(code) = 1
    BY <1>2, AppendIsSeq
  <2> QED BY <2>1, AppendIsSeq
<1>3. ASSUME NEW x, NEW y, code = <<x, y>>
      PROVE  /\ IsSeq(o \o code) /\ Len(code) \in Nat
             /\ Len(o \o code) = Len(o) + Len(code)
             /\ \A i \in 1..Len(o) : (o \o code)[i] = o[i]
  <2> DEFINE q == Append(o, x)
  <2>1. o \o code = Append(q, y) /\ Len(code) = 2
    BY <1>3, AppendTwo
  <2>2. IsSeq(q) /\ Len(q) = Len(o) + 1 /\ \A i \in 1..Len(o) : q[i] = o[i]
    BY AppendIsSeq
  <2> HIDE DEF q
  <2>3. IsSeq(Append(q, y)) /\ Len(Append(q, y)) = Len(q) + 1
        /\ \A i \in 1..Len(q) : Append(q, y)[i] = q[i]
    BY <2>2, AppendIsSeq
  <2>4. \A i \in 1..Len(o) : i \in 1..Len(q)
    BY <1>0, <2>2
  <2> QED BY <1>0, <2>1, <2>2, <2>3, <2>4
<1> QED BY <1>1, <1>2, <1>3 DEF Few

Conditionals == {"TOK_WHILE", "TOK_IF", "TOK_IFELSE"}

LEMMA CodeFew ==
  ASSUME NEW n, NEW k
  PROVE  /\ Few(CodeBefore(n, k)) /\ Few(CodeAfter(n)) /\ Few(Code(n))
         /\ symbol(n) \notin Conditionals => CodeAfter(n) = Code(n)
         /\ AllocatesRegister(n) =>
              symbol(n) \notin Conditionals /\ Len(Code(n)) = 1
<1>1. Few(Code(n)) /\ (AllocatesRegister(n) => Len(Code(n)) = 1)
  BY CodeIs DEF Few
<1>2. Few(CodeBefore(n, k))
  <2>1. CASE symbol(n) = "TOK_WHILE"
    BY <2>1 DEF CodeBefore, Few
  <2>2. CASE symbol(n) = "TOK_IF"
    BY <2>2 DEF CodeBefore, Few
  <2>3. CASE symbol(n) = "TOK_IFELSE"
    BY <2>3 DEF CodeBefore, Few
  <2>4. CASE symbol(n) \notin Conditionals
    <3>1. CodeBefore(n, k) = <<>>
      BY <2>4 DEF CodeBefore, Conditionals
    <3> QED BY <3>1 DEF Few
  <2> QED BY <2>1, <2>2, <2>3, <2>4 DEF Conditionals
<1>3. symbol(n) \notin Conditionals => CodeAfter(n) = Code(n)
  BY DEF CodeAfter, Conditionals
<1>4. Few(CodeAfter(n))
  <2>1. CASE symbol(n) = "TOK_WHILE"
    BY <2>1 DEF CodeAfter, Few
  <2>2. CASE symbol(n) \in {"TOK_IF", "TOK_IFELSE"}
    <3>1. CodeAfter(n) = <<Label("fi", n)>>
      BY <2>2 DEF CodeAfter
    <3> QED BY <3>1 DEF Few
  <2>3. CASE symbol(n) \notin Conditionals
    BY <1>1, <1>3, <2>3
  <2> QED BY <2>1, <2>2, <2>3 DEF Conditionals
<1>5. AllocatesRegister(n) => symbol(n) \notin Conditionals
  BY DEF AllocatesRegister, Conditionals, BinaryOps, UnaryOps
<1> QED BY <1>1, <1>2, <1>3, <1>4, <1>5

LEMMA FrameFew ==
  ASSUME NEW job, NEW name
  PROVE  Few(Opening(job)) /\ Few(Closing(job, name)) /\ Few(Heading(job))
<1>1. Few(Opening(job))
  <2>1. CASE job.what = "main"
    BY <2>1 DEF Opening, Few
  <2>2. CASE job.what = "body"
    BY <2>2 DEF Opening, Few
  <2>3. CASE job.what \notin {"main", "body"}
    BY <2>3 DEF Opening, Few
  <2> QED BY <2>1, <2>2, <2>3
<1>2. Few(Closing(job, name))
  <2>1. CASE job.what \in {"body", "main"}
    BY <2>1 DEF Closing, Few
  <2>2. CASE job.what \notin {"body", "main"}
    BY <2>2 DEF Closing, Few
  <2> QED BY <2>1, <2>2
<1>3. Few(Heading(job))
  BY DEF Heading, Few
<1> QED BY <1>1, <1>2, <1>3

-----------------------------------------------------------------------------
(* The values of the emitter's variables. *)

NumbersInv ==
  /\ DOMAIN oilname = Node
  /\ reg_nr \in Nat \ {0} /\ reg_nr <= Len(oil) + 1
  /\ aborted \in DOMAIN ast \cup {NULL}

EmitInv == /\ PassInv /\ StartInv /\ JobsInv
           /\ Stacked(ast, jobs, emits) /\ NumbersInv

LEMMA EmitTree ==
  ASSUME EmitInv
  PROVE  /\ WellFormed(ast, Name) /\ DOMAIN ast \subseteq Node
         /\ IsSeq(oil) /\ Len(oil) \in Nat
BY Tree, SeqFacts DEF EmitInv, PassInv, TraversalInv, StartInv

(* The innermost call. *)
LEMMA EmittedIs ==
  ASSUME EmitInv, emits # <<>>
  PROVE  /\ Emitted = emits[Len(emits)] /\ Len(emits) \in Nat \ {0}
         /\ Emitted \in Frames(ast) /\ Emitted.node \in DOMAIN ast
         /\ Emitted.node \in Nat /\ Emitted.node \in Node
         /\ Emitted.next \in Nat \ {0}
         /\ Descent(ast, emits)
         /\ Emits(Emitted.node) = Below(ast, Emitted.node)
         /\ Len(Below(ast, Emitted.node)) \in Nat
         /\ Emitted.next <= Len(Below(ast, Emitted.node)) + 1
<1>1. Descent(ast, emits) /\ WellFormed(ast, Name) /\ DOMAIN ast \subseteq Node
  BY EmitTree DEF EmitInv, Stacked
<1>2. Emitted = emits[Len(emits)] /\ Len(emits) \in Nat \ {0}
  <2>1. emits \in Seq(Frames(ast))
    BY <1>1 DEF Descent
  <2> QED BY <2>1, FrontFacts DEF Emitted
<1>3. /\ Emitted \in Frames(ast) /\ Emitted.node \in DOMAIN ast
      /\ Emitted.node \in Nat /\ Emitted.next \in Nat \ {0}
  BY <1>1, <1>2, StackAhead
<1>4. Len(Below(ast, Emitted.node)) \in Nat
  BY <1>1, <1>3, BelowFollows
<1>5. Emitted.next <= Len(Below(ast, Emitted.node)) + 1
  BY <1>2 DEF EmitInv, Stacked
<1> QED BY <1>1, <1>2, <1>3, <1>4, <1>5, EmitsAreBelow

(* A child is entered. *)
LEMMA EnterIs ==
  ASSUME EmitInv, EnterChild
  PROVE  LET n == Emitted.node
             k == Emitted.next
         IN
         /\ jobs # <<>> /\ emits # <<>> /\ k \in 1..Len(Below(ast, n))
         /\ child(n, k - 1) = Below(ast, n)[k]
         /\ UNCHANGED <<jobs, reg_nr, oilname>>
         /\ \/ aborted' = n /\ UNCHANGED <<oil, emits>>
            \/ /\ oil' = oil \o CodeBefore(n, k - 1) /\ aborted' = aborted
               /\ emits' = Append(Bumped(emits), Frame(Below(ast, n)[k]))
<1> DEFINE n == Emitted.node
           k == Emitted.next
           c == Below(ast, n)[k]
<1>1. jobs # <<>> /\ emits # <<>> /\ k - 1 < Len(Emits(n))
  BY DEF EnterChild, Emitting
<1>2. k \in 1..Len(Below(ast, n)) /\ k \in Nat
  BY <1>1, EmittedIs
<1>3. child(n, k - 1) = c
  <2>1. Below(ast, n) = children(n)
    <3>1. Below(ast, n) # <<>>
      BY <1>2
    <3> QED BY <3>1 DEF Below, children
  <2>2. (k - 1) + 1 = k
    BY <1>2
  <2> QED BY <2>1, <2>2 DEF child
<1>4. \/ aborted' = n /\ UNCHANGED <<oil, emits>>
      \/ /\ oil' = oil \o CodeBefore(n, k - 1) /\ aborted' = aborted
         /\ emits' = Bumped(emits) \o <<Frame(c)>>
  BY <1>3 DEF EnterChild, Bumped
<1>5. Bumped(emits) \o <<Frame(c)>> = Append(Bumped(emits), Frame(c))
  <2>1. Descent(ast, Bumped(emits))
    BY <1>1, EmittedIs, Bump
  <2> DEFINE bs == Bumped(emits)
             f == Frame(c)
  <2>2. bs \in Seq(Frames(ast))
    BY <2>1 DEF Descent
  <2> HIDE DEF bs, f
  <2>3. IsSeq(bs)
    BY <2>2 DEF IsSeq
  <2>4. bs \o <<f>> = Append(bs, f)
    BY <2>3, AppendIsSeq
  <2> QED BY <2>4 DEF bs, f
<1>6. UNCHANGED <<jobs, reg_nr, oilname>>
  BY DEF EnterChild
<1> QED BY <1>1, <1>2, <1>3, <1>4, <1>5, <1>6

(* A call returns. *)
LEMMA LeaveIs ==
  ASSUME EmitInv, LeaveEmitted
  PROVE  LET n == Emitted.node
             last == Len(emits) = 1
         IN
         /\ jobs # <<>> /\ emits # <<>>
         /\ Emitted.next = Len(Below(ast, n)) + 1
         /\ \/ aborted' = n /\ UNCHANGED <<jobs, emits, oil, reg_nr, oilname>>
            \/ /\ ~ Fails(n) /\ aborted' = aborted
               /\ oilname' = [oilname EXCEPT ![n] = NewName(n)]
               /\ reg_nr' = IF AllocatesRegister(n) THEN reg_nr + 1 ELSE reg_nr
               /\ emits' = Front(emits)
               /\ ~ last => /\ oil' = oil \o CodeAfter(n) /\ jobs' = jobs
                            /\ Front(emits) # <<>>
               /\ last => /\ oil' = (oil \o CodeAfter(n))
                                      \o Closing(Head(jobs), NewName(n))
                          /\ jobs' = Tail(jobs) /\ emits' = <<>>
<1> DEFINE n == Emitted.node
           last == Len(emits) = 1
<1>1. jobs # <<>> /\ emits # <<>> /\ Emitted.next > Len(Emits(n))
  BY DEF LeaveEmitted, Emitting
<1>2. Emitted.next = Len(Below(ast, n)) + 1
  BY <1>1, EmittedIs
<1>3. /\ Front(emits) \in Seq(Frames(ast)) /\ Len(emits) \in Nat \ {0}
      /\ Len(Front(emits)) = Len(emits) - 1
  BY <1>1, EmittedIs, FrontFacts DEF Descent
<1>4. (~ last => Front(emits) # <<>>) /\ (last => Front(emits) = <<>>)
  <2>1. Front(emits) = <<>> <=> Len(Front(emits)) = 0
    BY <1>3, EmptySeq
  <2> QED BY <1>3, <2>1
<1>5. CASE Fails(n)
  <2>1. aborted' = n /\ UNCHANGED <<jobs, emits, oil, reg_nr, oilname>>
    BY <1>5 DEF LeaveEmitted
  <2> QED BY <1>1, <1>2, <2>1
<1>6. CASE ~ Fails(n)
  <2> DEFINE names == [oilname EXCEPT ![n] = NewName(n)]
             closing == IF last THEN Closing(Head(jobs), names[n]) ELSE <<>>
  <2>1. /\ oilname' = names /\ aborted' = aborted
        /\ reg_nr' = IF AllocatesRegister(n) THEN reg_nr + 1 ELSE reg_nr
        /\ emits' = Front(emits)
        /\ oil' = oil \o CodeAfter(n) \o closing
        /\ jobs' = IF last THEN Tail(jobs) ELSE jobs
    BY <1>6 DEF LeaveEmitted
  <2>2. names[n] = NewName(n)
    <3>1. n \in DOMAIN oilname
      BY <1>1, EmittedIs DEF EmitInv, NumbersInv
    <3> QED BY <3>1
  <2>3. CASE last
    <3>1. closing = Closing(Head(jobs), NewName(n))
      BY <2>2, <2>3
    <3> HIDE DEF closing
    <3> QED BY <1>1, <1>2, <1>4, <1>6, <2>1, <2>3, <3>1
  <2>4. CASE ~ last
    <3>1. closing = <<>>
      BY <2>4
    <3>2. IsSeq(oil \o CodeAfter(n))
      BY EmitTree, CodeFew, FewAppended
    <3>3. oil' = oil \o CodeAfter(n)
      <4>1. (oil \o CodeAfter(n)) \o <<>> = oil \o CodeAfter(n)
        BY <3>2, SeqFacts
      <4> HIDE DEF closing
      <4> QED BY <2>1, <3>1, <4>1
    <3> HIDE DEF closing
    <3> QED BY <1>1, <1>2, <1>4, <1>6, <2>1, <2>4, <3>3
  <2> QED BY <2>3, <2>4
<1> QED BY <1>5, <1>6

LEMMA BeginKeeps ==
  ASSUME EmitInv, BeginEmit, UNCHANGED vars
  PROVE  JobsInv' /\ Stacked(ast, jobs, emits)' /\ NumbersInv' /\ StartInv'
<1>1. /\ Accepted /\ oil = <<>> /\ jobs' = AllJobs /\ ast' = ast
      /\ oil' = <<Line("include", 1)>>
      /\ UNCHANGED <<emits, reg_nr, oilname, aborted>>
  BY DEF BeginEmit, vars
<1>2. JobsInv'
  BY <1>1, AllJobsSorted, EmitTree DEF JobsInv
<1>3. IsSeq(oil') /\ Len(oil') = 1 /\ oil' # <<>>
  <2>1. oil' \in Seq({Line("include", 1)}) /\ Len(oil') = 1
    BY <1>1
  <2> QED BY <2>1 DEF IsSeq
<1>4. emits' = <<>> /\ reg_nr' = 1 /\ aborted' = NULL
  BY <1>1 DEF EmitInv, StartInv
<1>5. Stacked(ast, jobs, emits)'
  BY <1>4, NothingStacked
<1>6. NumbersInv'
  BY <1>1, <1>3, <1>4 DEF EmitInv, NumbersInv
<1>7. Accepted'
  BY <1>1 DEF Accepted, Analysed, vars, semVars
<1> QED BY <1>2, <1>3, <1>5, <1>6, <1>7 DEF StartInv

(* All other steps are those of an accepted program. *)
LEMMA WritesAccepted ==
  ASSUME EmitInv, jobs # <<>>, UNCHANGED vars,
         NEW code, oil' = oil \o code, Few(code)
  PROVE  /\ oil # <<>> /\ oil' # <<>> /\ Accepted /\ Accepted' /\ StartInv'
         /\ IsSeq(oil') /\ Len(oil') = Len(oil) + Len(code)
         /\ Len(code) \in Nat /\ Len(oil) \in Nat \ {0}
         /\ Len(oil') \in Nat /\ Len(oil') >= Len(oil)
<1>1. oil # <<>> /\ Accepted
  BY DEF EmitInv, StartInv
<1>2. IsSeq(oil') /\ Len(oil') = Len(oil) + Len(code) /\ Len(code) \in Nat
  BY EmitTree, FewAppended
<1>3. Len(oil) \in Nat \ {0}
  <2>1. PICK S : oil \in Seq(S)
    BY EmitTree DEF IsSeq
  <2> QED BY <1>1, <2>1, EmptySeq
<1>4. oil' # <<>>
  <2>1. PICK S : oil' \in Seq(S)
    BY <1>2 DEF IsSeq
  <2> QED BY <1>2, <1>3, <2>1
<1>5. Accepted'
  BY <1>1 DEF Accepted, Analysed, vars, semVars
<1>6. Len(oil') \in Nat /\ Len(oil') >= Len(oil)
  BY <1>2, <1>3
<1> QED BY <1>1, <1>2, <1>3, <1>4, <1>5, <1>6 DEF StartInv

LEMMA AcceptedStays ==
  ASSUME EmitInv, jobs # <<>>, UNCHANGED vars
  PROVE  oil # <<>> /\ Accepted /\ Accepted' /\ Len(oil) \in Nat \ {0}
<1>1. oil # <<>> /\ Accepted
  BY DEF EmitInv, StartInv
<1>2. Len(oil) \in Nat \ {0}
  <2>1. PICK S : oil \in Seq(S)
    BY EmitTree DEF IsSeq
  <2> QED BY <1>1, <2>1, EmptySeq
<1>3. Accepted'
  BY <1>1 DEF Accepted, Analysed, vars, semVars
<1> QED BY <1>1, <1>2, <1>3

LEMMA NothingWritten ==
  ASSUME EmitInv
  PROVE  oil = oil \o <<>> /\ Few(<<>>)
BY EmitTree, SeqFacts DEF Few

LEMMA IterateKeeps ==
  ASSUME EmitInv, Iterate, UNCHANGED vars
  PROVE  JobsInv' /\ Stacked(ast, jobs, emits)' /\ NumbersInv' /\ StartInv'
<1>1. /\ jobs # <<>> /\ emits = <<>> /\ ast' = ast
      /\ UNCHANGED <<emits, oil, reg_nr, oilname, aborted>>
  BY DEF Iterate, Emitting, vars
<1>2. JobsInv'
  BY <1>1, EmitTree, IterateJobs DEF EmitInv, JobsInv
<1>3. Stacked(ast, jobs, emits)'
  BY <1>1, NothingStacked
<1>4. StartInv'
  BY <1>1, NothingWritten, WritesAccepted
<1> QED BY <1>1, <1>2, <1>3, <1>4 DEF EmitInv, NumbersInv

LEMMA BeginJobKeeps ==
  ASSUME EmitInv, BeginJob, UNCHANGED vars
  PROVE  JobsInv' /\ Stacked(ast, jobs, emits)' /\ NumbersInv' /\ StartInv'
<1> DEFINE job == Head(jobs)
<1>1. /\ jobs # <<>> /\ emits = <<>> /\ ast' = ast
      /\ UNCHANGED <<reg_nr, oilname, aborted>> /\ job.what \notin Loops
  BY DEF BeginJob, Emitting, vars
<1>2. JobsInv /\ job \in JobSet(ast) /\ Tail(jobs) \in Seq(JobSet(ast))
      /\ Sorted(Tail(jobs))
  BY <1>1, JobsTail DEF EmitInv
<1>3. CASE job.what \in Headings
  <2>1. oil' = oil \o Heading(job) /\ jobs' = Tail(jobs) /\ emits' = emits
    BY <1>3 DEF BeginJob, Headings
  <2>2. JobsInv'
    BY <1>1, <1>2, <2>1 DEF JobsInv
  <2>3. Stacked(ast, jobs, emits)'
    BY <1>1, <2>1, NothingStacked
  <2>4. StartInv' /\ Len(oil') >= Len(oil) /\ Len(oil) \in Nat /\ Len(oil') \in Nat
    <3>1. Few(Heading(job))
      BY FrameFew
    <3> QED BY ONLY <1>1, <2>1, <3>1, WritesAccepted, EmitInv, UNCHANGED vars
  <2> QED BY <1>1, <2>2, <2>3, <2>4 DEF EmitInv, NumbersInv
<1>4. CASE job.what \notin Headings
  <2>1. oil' = oil \o Opening(job) /\ jobs' = jobs /\ emits' = <<Frame(job.node)>>
    BY <1>4 DEF BeginJob, Headings
  <2>2. JobsInv'
    BY <1>1, <1>2, <2>1 DEF JobsInv
  <2>3. Stacked(ast, jobs, emits)'
    BY <1>1, <1>2, <1>4, <2>1, StackedBegins, EmitTree
  <2>4. StartInv' /\ Len(oil') >= Len(oil) /\ Len(oil) \in Nat /\ Len(oil') \in Nat
    <3>1. Few(Opening(job))
      BY FrameFew
    <3> QED BY ONLY <1>1, <2>1, <3>1, WritesAccepted, EmitInv, UNCHANGED vars
  <2> QED BY <1>1, <2>2, <2>3, <2>4 DEF EmitInv, NumbersInv
<1> QED BY <1>3, <1>4

LEMMA EnterKeeps ==
  ASSUME EmitInv, EnterChild, UNCHANGED vars
  PROVE  JobsInv' /\ Stacked(ast, jobs, emits)' /\ NumbersInv' /\ StartInv'
<1> DEFINE n == Emitted.node
           k == Emitted.next
<1>1. /\ jobs # <<>> /\ emits # <<>> /\ k \in 1..Len(Below(ast, n))
      /\ UNCHANGED <<jobs, reg_nr, oilname>> /\ ast' = ast
      /\ \/ aborted' = n /\ UNCHANGED <<oil, emits>>
         \/ /\ oil' = oil \o CodeBefore(n, k - 1) /\ aborted' = aborted
            /\ emits' = Append(Bumped(emits), Frame(Below(ast, n)[k]))
  BY EnterIs DEF vars
<1>2. JobsInv'
  BY <1>1 DEF EmitInv, JobsInv
<1>3. n \in DOMAIN ast /\ Emitted = emits[Len(emits)]
  BY <1>1, EmittedIs
<1>4. CASE aborted' = n /\ UNCHANGED <<oil, emits>>
  <2>1. Stacked(ast, jobs, emits)'
    BY <1>1, <1>4 DEF EmitInv
  <2>2. StartInv'
    BY <1>1, <1>4, NothingWritten, WritesAccepted
  <2> QED BY <1>1, <1>2, <1>3, <1>4, <2>1, <2>2 DEF EmitInv, NumbersInv
<1>5. CASE /\ oil' = oil \o CodeBefore(n, k - 1) /\ aborted' = aborted
           /\ emits' = Append(Bumped(emits), Frame(Below(ast, n)[k]))
  <2>1. Stacked(ast, jobs, emits)'
    <3>1. k <= Len(Below(ast, n))
      BY <1>1
    <3>2. Stacked(ast, jobs, Append(Bumped(emits), Frame(Below(ast, n)[k])))
      BY <1>1, <1>3, <3>1, StackedEnters, EmitTree DEF EmitInv
    <3> QED BY <1>1, <1>5, <3>2
  <2>2. StartInv' /\ Len(oil') >= Len(oil) /\ Len(oil) \in Nat /\ Len(oil') \in Nat
    <3>1. Few(CodeBefore(n, k - 1))
      BY CodeFew
    <3> QED BY ONLY <1>1, <1>5, <3>1, WritesAccepted, EmitInv, UNCHANGED vars
  <2> QED BY <1>1, <1>2, <1>5, <2>1, <2>2 DEF EmitInv, NumbersInv
<1> QED BY <1>1, <1>4, <1>5

LEMMA LeaveKeeps ==
  ASSUME EmitInv, LeaveEmitted, UNCHANGED vars
  PROVE  JobsInv' /\ Stacked(ast, jobs, emits)' /\ NumbersInv' /\ StartInv'
<1> DEFINE n == Emitted.node
           last == Len(emits) = 1
<1>1. /\ jobs # <<>> /\ emits # <<>> /\ ast' = ast
      /\ \/ aborted' = n /\ UNCHANGED <<jobs, emits, oil, reg_nr, oilname>>
         \/ /\ ~ Fails(n) /\ aborted' = aborted
            /\ oilname' = [oilname EXCEPT ![n] = NewName(n)]
            /\ reg_nr' = IF AllocatesRegister(n) THEN reg_nr + 1 ELSE reg_nr
            /\ emits' = Front(emits)
            /\ ~ last => /\ oil' = oil \o CodeAfter(n) /\ jobs' = jobs
                         /\ Front(emits) # <<>>
            /\ last => /\ oil' = (oil \o CodeAfter(n))
                                   \o Closing(Head(jobs), NewName(n))
                       /\ jobs' = Tail(jobs) /\ emits' = <<>>
  BY LeaveIs DEF vars
<1>2. n \in DOMAIN ast
  BY <1>1, EmittedIs
<1>3. CASE aborted' = n /\ UNCHANGED <<jobs, emits, oil, reg_nr, oilname>>
  <2>1. Stacked(ast, jobs, emits)' /\ JobsInv'
    BY <1>1, <1>3 DEF EmitInv, JobsInv
  <2>2. StartInv'
    BY <1>1, <1>3, NothingWritten, WritesAccepted
  <2> QED BY <1>1, <1>2, <1>3, <2>1, <2>2 DEF EmitInv, NumbersInv
<1>4. CASE aborted' # n \/ ~ UNCHANGED <<jobs, emits, oil, reg_nr, oilname>>
  <2>1. JobsInv'
    BY <1>1, <1>4, JobsTail DEF EmitInv, JobsInv
  <2>2. Stacked(ast, jobs, emits)'
    <3>1. Stacked(ast, jobs', Front(emits))
      BY <1>1, <1>4, StackedLeaves DEF EmitInv
    <3> QED BY <1>1, <1>4, <3>1
  <2>3. /\ StartInv' /\ Len(oil') \in Nat
        /\ Len(oil') >= Len(oil) + Len(CodeAfter(n))
        /\ Len(oil) \in Nat /\ Len(CodeAfter(n)) \in Nat
    <3>1. Few(CodeAfter(n)) /\ Few(Closing(Head(jobs), NewName(n)))
      BY CodeFew, FrameFew
    <3>2. CASE ~ last
      BY <1>1, <1>4, <3>1, <3>2, WritesAccepted
    <3>3. CASE last
      <4> DEFINE q == oil \o CodeAfter(n)
                 c == Closing(Head(jobs), NewName(n))
      <4>1. /\ IsSeq(q) /\ Len(q) = Len(oil) + Len(CodeAfter(n))
            /\ Len(CodeAfter(n)) \in Nat
        BY <3>1, EmitTree, FewAppended
      <4> HIDE DEF q, c
      <4>2. oil' = q \o c /\ Few(c)
        BY <1>1, <1>4, <3>1, <3>3 DEF q, c
      <4>3. IsSeq(oil') /\ Len(oil') = Len(q) + Len(c) /\ Len(c) \in Nat
        BY <4>1, <4>2, FewAppended
      <4>4. oil # <<>> /\ Accepted /\ Accepted' /\ Len(oil) \in Nat \ {0}
        BY <1>1, AcceptedStays
      <4>5. oil' # <<>>
        <5>1. PICK S : oil' \in Seq(S)
          BY <4>3 DEF IsSeq
        <5> QED BY <4>1, <4>3, <4>4, <5>1
      <4> QED BY <4>1, <4>3, <4>4, <4>5 DEF StartInv
    <3> QED BY <3>2, <3>3
  <2>4. NumbersInv'
    <3>1. DOMAIN oilname' = Node /\ aborted' \in DOMAIN ast' \cup {NULL}
      BY <1>1, <1>4 DEF EmitInv, NumbersInv
    <3>2. AllocatesRegister(n) => Len(CodeAfter(n)) = 1
      BY CodeFew
    <3>3. reg_nr' \in Nat \ {0} /\ reg_nr' <= Len(oil') + 1
      <4>1. reg_nr \in Nat \ {0} /\ reg_nr <= Len(oil) + 1
        BY DEF EmitInv, NumbersInv
      <4>2. reg_nr' = IF AllocatesRegister(n) THEN reg_nr + 1 ELSE reg_nr
        BY <1>1, <1>4
      <4>3. CASE AllocatesRegister(n)
        <5>1. /\ Len(oil') \in Nat /\ Len(oil) \in Nat
              /\ Len(oil') >= Len(oil) + 1
          BY <2>3, <3>2, <4>3
        <5> QED BY ONLY <4>1, <4>2, <4>3, <5>1
      <4>4. CASE ~ AllocatesRegister(n)
        BY <2>3, <4>1, <4>2, <4>4
      <4> QED BY <4>3, <4>4
    <3> QED BY <3>1, <3>3 DEF NumbersInv
  <2> QED BY <2>1, <2>2, <2>3, <2>4
<1> QED BY <1>3, <1>4

LEMMA EmitInvStep ==
  EmitInv /\ [\/ Next /\ UNCHANGED emitVars
              \/ EmitNext /\ UNCHANGED vars]_<<vars, emitVars>> => EmitInv'
<1> SUFFICES ASSUME EmitInv,
                    [\/ Next /\ UNCHANGED emitVars
                     \/ EmitNext /\ UNCHANGED vars]_<<vars, emitVars>>
             PROVE  EmitInv'
  OBVIOUS
<1>1. PassInv'
  BY PassUnderEmitter DEF EmitInv
<1>2. \/ UNCHANGED vars /\ EmitNext
      \/ UNCHANGED vars /\ UNCHANGED emitVars
      \/ Next /\ UNCHANGED emitVars /\ oil = <<>> /\ ast' = ast
  BY StepKinds DEF EmitInv
<1>3. CASE UNCHANGED vars /\ EmitNext
  <2>1. JobsInv' /\ Stacked(ast, jobs, emits)' /\ NumbersInv' /\ StartInv'
    BY <1>3, BeginKeeps, IterateKeeps, BeginJobKeeps, EnterKeeps, LeaveKeeps
       DEF EmitNext
  <2> QED BY <1>1, <2>1 DEF EmitInv
<1>4. CASE UNCHANGED emitVars /\ ast' = ast /\ (UNCHANGED vars \/ oil = <<>>)
  <2>1. UNCHANGED <<jobs, emits, oil, reg_nr, oilname, aborted>>
    BY <1>4 DEF emitVars
  <2>2. JobsInv' /\ Stacked(ast, jobs, emits)' /\ NumbersInv'
    BY <1>4, <2>1 DEF EmitInv, JobsInv, NumbersInv
  <2>3. StringNames' = StringNames
    BY <1>4 DEF StringNames, StringConstants, symbol
  <2>4. oil # <<>> => Accepted'
    BY <1>4 DEF EmitInv, StartInv, Accepted, Analysed, vars, semVars
  <2>5. StartInv'
    BY <2>1, <2>3, <2>4 DEF EmitInv, StartInv
  <2> QED BY <1>1, <2>2, <2>5 DEF EmitInv
<1> QED BY <1>2, <1>3, <1>4 DEF vars

LEMMA EmitInvInit == EmitInit => EmitInv
<1> SUFFICES ASSUME EmitInit  PROVE EmitInv
  OBVIOUS
<1>1. /\ Init /\ jobs = <<>> /\ emits = <<>> /\ oil = <<>> /\ reg_nr = 1
      /\ oilname = StringNames /\ aborted = NULL
  BY DEF EmitInit
<1>2. PassInv
  BY <1>1, PassInit
<1>3. Stacked(ast, jobs, emits)
  BY <1>1, NothingStacked
<1>4. JobsInv
  BY <1>1 DEF JobsInv, Sorted
<1>5. NumbersInv
  BY <1>1 DEF NumbersInv, StringNames
<1>6. StartInv
  BY <1>1, EmptyIsSeq DEF StartInv
<1> QED BY <1>2, <1>3, <1>4, <1>5, <1>6 DEF EmitInv

(* In every state of the emitter, its jobs are those that oc_run_emit has  *)
(* still to do, in their order, and the calls of emit_recursive are a path *)
(* below the node of the first job.                                        *)
THEOREM EmitCorrect == EmitSpec => []EmitInv
<1>1. EmitInv /\ [\/ Next /\ UNCHANGED emitVars
                  \/ EmitNext /\ UNCHANGED vars]_<<vars, emitVars>> => EmitInv'
  BY EmitInvStep
<1> QED BY <1>1, EmitInvInit, PTL DEF EmitSpec

(* The values the variables range over. *)
THEOREM EmitTypeCorrect == EmitSpec => []EmitTypeOK
<1>1. EmitInv => EmitTypeOK
  <2> SUFFICES ASSUME EmitInv  PROVE EmitTypeOK
    OBVIOUS
  <2>1. \A i \in DOMAIN jobs : jobs[i].node \in DOMAIN ast
    <3>1. \A i \in DOMAIN jobs : jobs[i] \in JobSet(ast)
      BY DEF EmitInv, JobsInv
    <3> QED BY <3>1 DEF JobSet
  <2>2. \A i \in DOMAIN emits : emits[i].node \in DOMAIN ast
    <3>1. \A i \in DOMAIN emits : emits[i] \in Frames(ast)
      BY DEF EmitInv, Stacked, Descent
    <3> QED BY <3>1 DEF Frames
  <2>3. reg_nr \in 1..Len(oil) + 1
    BY EmitTree DEF EmitInv, NumbersInv
  <2>4. emits # <<>> => jobs # <<>>
    BY DEF EmitInv, Stacked
  <2> QED BY <2>1, <2>2, <2>3, <2>4 DEF EmitTypeOK, EmitInv, NumbersInv
<1> QED BY <1>1, EmitCorrect, PTL

-----------------------------------------------------------------------------
(* Labels and jumps of the function that the last line belongs to, and of  *)
(* the functions before it.                                                *)

Jumping == {"goto", "unless"}

(* No function begins between two lines, or behind a line. *)
Same(o, i, j) ==
  \A k \in 1..Len(o) :
    (i < k /\ k <= j) \/ (j < k /\ k <= i) => o[k].op # "function"

Current(o) ==
  {i \in 1..Len(o) : \A k \in 1..Len(o) : i < k => o[k].op # "function"}

Labels(o) == {o[i].label : i \in {j \in Current(o) : o[j].op = "label"}}
Jumps(o) == {o[i].label : i \in {j \in Current(o) : o[j].op \in Jumping}}

(* A function has no label twice; in those that are complete, jumps land.  *)
Landing(o) ==
  /\ \A i, j \in 1..Len(o) :
       o[i].op = "label" /\ o[j].op = "label" /\ o[i].label = o[j].label =>
         (Same(o, i, j) => i = j)
  /\ \A i \in 1..Len(o) \ Current(o) : o[i].op \in Jumping =>
       \E j \in 1..Len(o) : /\ o[j].op = "label" /\ o[j].label = o[i].label
                            /\ Same(o, i, j)

LEMMA SameAppended ==
  ASSUME NEW o, IsSeq(o), NEW x
  PROVE  LET q == Append(o, x)
             n == Len(o)
         IN
         /\ \A i, j \in 1..n : Same(q, i, j) <=> Same(o, i, j)
         /\ \A i \in 1..n : Same(q, i, n + 1) \/ Same(q, n + 1, i) =>
              i \in Current(o)
         /\ x.op # "function" => Current(q) = Current(o) \cup {n + 1}
         /\ x.op = "function" => Current(q) = {n + 1}
<1> DEFINE q == Append(o, x)
           n == Len(o)
<1>1. /\ n \in Nat /\ Len(q) = n + 1 /\ q[n + 1] = x
      /\ \A i \in 1..n : q[i] = o[i]
  BY SeqFacts, AppendIsSeq
<1> HIDE DEF q, n
<1>2. ASSUME NEW i \in 1..n, NEW j \in 1..n
      PROVE  Same(q, i, j) <=> Same(o, i, j)
  BY <1>1, <1>2 DEF Same, n
<1>3. ASSUME NEW i \in 1..n, Same(q, i, n + 1) \/ Same(q, n + 1, i)
      PROVE  i \in Current(o)
  <2>1. ASSUME NEW k \in 1..n, i < k  PROVE o[k].op # "function"
    BY <1>1, <1>3, <2>1 DEF Same
  <2> QED BY <2>1 DEF Current, n
<1>4. ASSUME x.op # "function"  PROVE Current(q) = Current(o) \cup {n + 1}
  <2>1. ASSUME NEW i \in Current(q)  PROVE i \in Current(o) \cup {n + 1}
    BY <1>1, <2>1 DEF Current, n
  <2>2. ASSUME NEW i \in Current(o) \cup {n + 1}  PROVE i \in Current(q)
    BY <1>1, <1>4, <2>2 DEF Current, n
  <2> QED BY <2>1, <2>2
<1>5. ASSUME x.op = "function"  PROVE Current(q) = {n + 1}
  BY <1>1, <1>5 DEF Current
<1> QED BY <1>2, <1>3, <1>4, <1>5 DEF q, n

LEMMA SameCurrent ==
  ASSUME NEW o, NEW i \in Current(o), NEW j \in 1..Len(o), Len(o) \in Nat
  PROVE  Same(o, i, j) <=> j \in Current(o)
<1>1. ASSUME Same(o, i, j)  PROVE j \in Current(o)
  BY <1>1 DEF Current, Same
<1>2. ASSUME j \in Current(o)  PROVE Same(o, i, j)
  BY <1>2 DEF Current, Same
<1> QED BY <1>1, <1>2

(* What a line adds, other than the first of a function. *)
LEMMA LineAdded ==
  ASSUME NEW o, IsSeq(o), Landing(o), NEW x, x.op # "function",
         x.op = "label" => x.label \notin Labels(o)
  PROVE  LET q == Append(o, x) IN
         /\ Landing(q)
         /\ Labels(q) = Labels(o) \cup (IF x.op = "label" THEN {x.label} ELSE {})
         /\ Jumps(q) = Jumps(o) \cup (IF x.op \in Jumping THEN {x.label} ELSE {})
<1> DEFINE q == Append(o, x)
           n == Len(o)
<1>1. /\ n \in Nat /\ Len(q) = n + 1 /\ q[n + 1] = x
      /\ \A i \in 1..n : q[i] = o[i]
  BY SeqFacts, AppendIsSeq
<1>2. /\ \A i, j \in 1..n : Same(q, i, j) <=> Same(o, i, j)
      /\ \A i \in 1..n : Same(q, i, n + 1) \/ Same(q, n + 1, i) =>
           i \in Current(o)
      /\ Current(q) = Current(o) \cup {n + 1}
  BY SameAppended
<1>3. Current(o) \subseteq 1..n
  BY DEF Current
<1> HIDE DEF q, n
<1>4. ASSUME NEW i \in 1..n + 1, NEW j \in 1..n + 1,
             q[i].op = "label", q[j].op = "label",
             q[i].label = q[j].label, Same(q, i, j)
      PROVE  i = j
  <2>1. CASE i \in 1..n /\ j \in 1..n
    BY <1>1, <1>2, <1>4, <2>1 DEF Landing, n
  <2>2. CASE i = n + 1 /\ j \in 1..n
    <3>1. j \in Current(o) /\ o[j].op = "label" /\ o[j].label = x.label
      BY <1>1, <1>2, <1>4, <2>2
    <3> QED BY <1>1, <1>4, <2>2, <3>1 DEF Labels
  <2>3. CASE j = n + 1 /\ i \in 1..n
    <3>1. i \in Current(o) /\ o[i].op = "label" /\ o[i].label = x.label
      BY <1>1, <1>2, <1>4, <2>3
    <3> QED BY <1>1, <1>4, <2>3, <3>1 DEF Labels
  <2> QED BY <1>1, <2>1, <2>2, <2>3
<1>5. ASSUME NEW i \in 1..n + 1, i \notin Current(q), q[i].op \in Jumping
      PROVE  \E j \in 1..n + 1 : /\ q[j].op = "label" /\ q[j].label = q[i].label
                                 /\ Same(q, i, j)
  <2>1. i \in 1..n /\ i \notin Current(o)
    BY <1>1, <1>2, <1>5
  <2>2. PICK j \in 1..n : /\ o[j].op = "label" /\ o[j].label = o[i].label
                          /\ Same(o, i, j)
    BY <1>1, <1>5, <2>1 DEF Landing, n
  <2>3. j \in 1..n + 1 /\ q[j] = o[j] /\ q[i] = o[i] /\ Same(q, i, j)
    BY <1>1, <1>2, <2>1, <2>2
  <2> QED BY <2>2, <2>3
<1>6. Landing(q)
  BY <1>1, <1>4, <1>5 DEF Landing
<1>7. Labels(q) = Labels(o) \cup (IF x.op = "label" THEN {x.label} ELSE {})
  BY <1>1, <1>2, <1>3 DEF Labels
<1>8. Jumps(q) = Jumps(o) \cup (IF x.op \in Jumping THEN {x.label} ELSE {})
  BY <1>1, <1>2, <1>3 DEF Jumps
<1> QED BY <1>6, <1>7, <1>8 DEF q

(* A function begins when the jumps of the one before it land. *)
LEMMA FunctionAdded ==
  ASSUME NEW o, IsSeq(o), Landing(o), Jumps(o) \subseteq Labels(o),
         NEW x, x.op = "function"
  PROVE  LET q == Append(o, x) IN
         Landing(q) /\ Labels(q) = {} /\ Jumps(q) = {}
<1> DEFINE q == Append(o, x)
           n == Len(o)
<1>1. /\ n \in Nat /\ Len(q) = n + 1 /\ q[n + 1] = x
      /\ \A i \in 1..n : q[i] = o[i]
  BY SeqFacts, AppendIsSeq
<1>2. /\ \A i, j \in 1..n : Same(q, i, j) <=> Same(o, i, j)
      /\ Current(q) = {n + 1}
  BY SameAppended
<1> HIDE DEF q
<1>3. ASSUME NEW i \in 1..n + 1, NEW j \in 1..n + 1,
             q[i].op = "label", q[j].op = "label",
             q[i].label = q[j].label, Same(q, i, j)
      PROVE  i = j
  <2>1. i # n + 1 /\ j # n + 1
    BY <1>1, <1>3
  <2>2. i \in 1..n /\ j \in 1..n
    BY <1>1, <2>1
  <2> QED BY <1>1, <1>2, <1>3, <2>2 DEF Landing
<1>4. ASSUME NEW i \in 1..n + 1, i \notin Current(q), q[i].op \in Jumping
      PROVE  \E j \in 1..n + 1 : /\ q[j].op = "label" /\ q[j].label = q[i].label
                                 /\ Same(q, i, j)
  <2>1. i \in 1..n /\ q[i] = o[i]
    BY <1>1, <1>2, <1>4
  <2>2. \E j \in 1..n : /\ o[j].op = "label" /\ o[j].label = o[i].label
                        /\ Same(o, i, j)
    <3>1. CASE i \in Current(o)
      <4>1. o[i].label \in Labels(o)
        BY <1>4, <2>1, <3>1 DEF Jumps
      <4>2. PICK j \in Current(o) : o[j].op = "label" /\ o[j].label = o[i].label
        BY <4>1 DEF Labels
      <4>3. j \in 1..n
        BY <4>2 DEF Current
      <4> QED BY <1>1, <3>1, <4>2, <4>3, SameCurrent
    <3>2. CASE i \notin Current(o)
      BY <1>4, <2>1, <3>2 DEF Landing
    <3> QED BY <3>1, <3>2
  <2>3. PICK j \in 1..n : /\ o[j].op = "label" /\ o[j].label = o[i].label
                          /\ Same(o, i, j)
    BY <2>2
  <2>4. j \in 1..n + 1 /\ q[j] = o[j] /\ Same(q, i, j)
    BY <1>1, <1>2, <2>1, <2>3
  <2> QED BY <2>1, <2>3, <2>4
<1>5. Landing(q)
  BY <1>1, <1>3, <1>4 DEF Landing
<1>6. Labels(q) = {} /\ Jumps(q) = {}
  BY <1>1, <1>2 DEF Labels, Jumps, Jumping
<1> QED BY <1>5, <1>6 DEF q

-----------------------------------------------------------------------------
(* The labels of conditionals and loops. *)

(* The labels that a call for node n writes, and those it still has to. *)
Targets(p, n) ==
  LET s == p[n].symbol IN
  {<<kind, n>> : kind \in CASE s = "TOK_WHILE" -> {"while", "break"}
                            [] s = "TOK_IF" -> {"fi"}
                            [] s = "TOK_IFELSE" -> {"else", "fi"}
                            [] OTHER -> {}}

Owed(p, n, next) ==
  {t \in Targets(p, n) : /\ t[1] = "while" => next = 1
                         /\ t[1] = "else" => next <= 3}

OwedBy(p, f) == Owed(p, f.node, f.next)

(* The current function has the labels that its calls have written, and    *)
(* jumps only to these and to those they have still to write.              *)
Owing(p, L, J, es) ==
  /\ \A i \in 1..Len(es) : \A t \in Targets(p, es[i].node) :
       t \in L <=> t \notin OwedBy(p, es[i])
  /\ \A t \in J : t \in L \/ \E i \in 1..Len(es) : t \in OwedBy(p, es[i])

(* The labels belong to nodes before all that is left to do. *)
Passed(p, L, es) == \A t \in L : t[2] \in Nat /\ Ahead(p, es, t[2])

(* Labels are written between the beginning of a function's body and the   *)
(* beginning of the next function.                                         *)
Bodies == {"body", "main"}

Unlabelled ==
  jobs # <<>> =>
    \/ Head(jobs).what \in {"functions", "function", "main"}
    \/ Head(jobs).what = "body" /\ emits # <<>>
    \/ Labels(oil) = {}

JumpInv ==
  /\ Landing(oil)
  /\ Owing(ast, Labels(oil), Jumps(oil), emits)
  /\ emits # <<>> /\ Head(jobs).what \in Bodies => Passed(ast, Labels(oil), emits)
  /\ Unlabelled

LEMMA TargetsAre ==
  ASSUME NEW p, NEW n
  PROVE  /\ p[n].symbol \notin Conditionals => Targets(p, n) = {}
         /\ \A t \in Targets(p, n) : t[2] = n
         /\ \A k : Owed(p, n, k) \subseteq Targets(p, n)
         /\ p[n].symbol = "TOK_WHILE" =>
              Targets(p, n) = {<<"while", n>>, <<"break", n>>}
         /\ p[n].symbol = "TOK_IF" => Targets(p, n) = {<<"fi", n>>}
         /\ p[n].symbol = "TOK_IFELSE" =>
              Targets(p, n) = {<<"else", n>>, <<"fi", n>>}
<1>1. CASE p[n].symbol = "TOK_WHILE"
  <2>1. Targets(p, n) = {<<"while", n>>, <<"break", n>>}
    BY <1>1 DEF Targets
  <2> QED BY <1>1, <2>1 DEF Owed, Conditionals
<1>2. CASE p[n].symbol = "TOK_IF"
  <2>1. Targets(p, n) = {<<"fi", n>>}
    BY <1>2 DEF Targets
  <2> QED BY <1>2, <2>1 DEF Owed, Conditionals
<1>3. CASE p[n].symbol = "TOK_IFELSE"
  <2>1. Targets(p, n) = {<<"else", n>>, <<"fi", n>>}
    BY <1>3 DEF Targets
  <2> QED BY <1>3, <2>1 DEF Owed, Conditionals
<1>4. CASE p[n].symbol \notin Conditionals
  <2>1. Targets(p, n) = {}
    BY <1>4 DEF Targets, Conditionals
  <2> QED BY <1>4, <2>1 DEF Owed, Conditionals
<1> QED BY <1>1, <1>2, <1>3, <1>4 DEF Conditionals

LEMMA OwedAre ==
  ASSUME NEW p, NEW n, NEW k \in Nat \ {0}
  PROVE  /\ p[n].symbol = "TOK_WHILE" =>
              Owed(p, n, k) = IF k = 1 THEN {<<"while", n>>, <<"break", n>>}
                              ELSE {<<"break", n>>}
         /\ p[n].symbol = "TOK_IF" => Owed(p, n, k) = {<<"fi", n>>}
         /\ p[n].symbol = "TOK_IFELSE" =>
              Owed(p, n, k) = IF k <= 3 THEN {<<"else", n>>, <<"fi", n>>}
                              ELSE {<<"fi", n>>}
         /\ Owed(p, n, 1) = Targets(p, n)
<1>1. CASE p[n].symbol = "TOK_WHILE"
  <2>1. Targets(p, n) = {<<"while", n>>, <<"break", n>>}
    BY <1>1, TargetsAre
  <2>2. Owed(p, n, k) = IF k = 1 THEN {<<"while", n>>, <<"break", n>>}
                        ELSE {<<"break", n>>}
    BY <2>1 DEF Owed
  <2>3. Owed(p, n, 1) = Targets(p, n)
    BY <2>1 DEF Owed
  <2> QED BY <1>1, <2>2, <2>3
<1>2. CASE p[n].symbol = "TOK_IF"
  <2>1. Targets(p, n) = {<<"fi", n>>}
    BY <1>2, TargetsAre
  <2>2. Owed(p, n, k) = {<<"fi", n>>} /\ Owed(p, n, 1) = Targets(p, n)
    BY <2>1 DEF Owed
  <2> QED BY <1>2, <2>2
<1>3. CASE p[n].symbol = "TOK_IFELSE"
  <2>1. Targets(p, n) = {<<"else", n>>, <<"fi", n>>}
    BY <1>3, TargetsAre
  <2>2. Owed(p, n, k) = IF k <= 3 THEN {<<"else", n>>, <<"fi", n>>}
                        ELSE {<<"fi", n>>}
    BY <2>1 DEF Owed
  <2>3. Owed(p, n, 1) = Targets(p, n)
    BY <2>1 DEF Owed
  <2> QED BY <1>3, <2>2, <2>3
<1>4. CASE p[n].symbol \notin Conditionals
  <2>1. Targets(p, n) = {}
    BY <1>4, TargetsAre
  <2> QED BY <1>4, <2>1 DEF Owed, Conditionals
<1> QED BY <1>1, <1>2, <1>3, <1>4 DEF Conditionals

(* A call enters a child: it may write some of the labels it owes, and     *)
(* jump to any of its own.                                                 *)
LEMMA OwingEnters ==
  ASSUME NEW p, NEW names, WellFormed(p, names),
         NEW es, Descent(p, es), es # <<>>,
         NEW n, n = es[Len(es)].node, NEW k, k = es[Len(es)].next,
         k <= Len(Below(p, n)), NEW c, c = Below(p, n)[k],
         NEW L, NEW J, Owing(p, L, J, es),
         NEW A, A = Owed(p, n, k) \ Owed(p, n, k + 1),
         Owed(p, n, k + 1) \subseteq Owed(p, n, k),
         NEW B \in SUBSET Targets(p, n),
         \A t \in Targets(p, c) : t \notin L \cup A
  PROVE  Owing(p, L \cup A, J \cup B, Append(Bumped(es), Frame(c)))
<1> DEFINE ds == Append(Bumped(es), Frame(c))
           m == Len(es)
<1>1. /\ Len(ds) = m + 1 /\ m \in Nat \ {0}
      /\ \A i \in 1..m : ds[i].node = es[i].node /\ (i < m => ds[i] = es[i])
      /\ ds[m].next = k + 1 /\ ds[m].node = n
      /\ ds[m + 1] = Frame(c)
  <2>1. /\ k <= Len(Below(p, es[Len(es)].node))
        /\ es[Len(es)].next <= Len(Below(p, es[Len(es)].node))
        /\ c = Below(p, es[Len(es)].node)[es[Len(es)].next]
    OBVIOUS
  <2>2. /\ Len(ds) = m + 1 /\ ds[m + 1] = Frame(c)
        /\ \A i \in 1..m : ds[i] = Bumped(es)[i]
    BY <2>1, Descend
  <2>3. /\ m \in Nat \ {0}
        /\ \A i \in 1..m : /\ Bumped(es)[i].node = es[i].node
                           /\ i < m => Bumped(es)[i] = es[i]
        /\ Bumped(es)[m].next = es[m].next + 1
    BY Bump
  <2>4. m \in 1..m
    BY <2>3
  <2> HIDE DEF ds
  <2> QED BY <2>2, <2>3, <2>4
<1>2. \A i \in 1..m : i < m => es[i].node # n
  <2>1. es \in Seq(Frames(p)) /\ \A i \in 1..m : i < m => es[i].node < n
    BY <1>1 DEF Descent
  <2>2. n \in Nat /\ \A i \in 1..m : es[i].node \in Nat
    <3>1. \A i \in 1..m : es[i] \in Frames(p)
      BY <2>1
    <3> QED BY <1>1, <3>1 DEF Frames, WellFormed
  <2> QED BY <2>1, <2>2
<1>3. A \subseteq Targets(p, n) /\ \A t \in Targets(p, n) : t[2] = n
  BY TargetsAre
<1>4. Frame(c).node = c /\ Frame(c).next = 1
  BY DEF Frame
<1> HIDE DEF ds, m
<1>5. \A i \in 1..m : \A t \in Targets(p, es[i].node) :
        t \in L <=> t \notin OwedBy(p, es[i])
  BY DEF Owing, m
<1>6. OwedBy(p, es[m]) = Owed(p, n, k) /\ OwedBy(p, ds[m]) = Owed(p, n, k + 1)
  BY <1>1 DEF OwedBy, m
<1>7. ASSUME NEW i \in 1..m + 1, NEW t \in Targets(p, ds[i].node)
      PROVE  t \in L \cup A <=> t \notin OwedBy(p, ds[i])
  <2>1. CASE i < m
    <3>1. t[2] # n
      BY <1>1, <1>2, <1>7, <2>1, TargetsAre
    <3>2. t \notin A
      BY <1>3, <3>1
    <3> QED BY <1>1, <1>5, <1>7, <2>1, <3>2
  <2>2. CASE i = m
    <3>1. t \in L <=> t \notin Owed(p, n, k)
      BY <1>1, <1>5, <1>6, <1>7, <2>2
    <3> QED BY <1>6, <2>2, <3>1
  <2>3. CASE i = m + 1
    <3>1. t \in Targets(p, c) /\ OwedBy(p, ds[i]) = Targets(p, c)
      BY <1>1, <1>4, <1>7, <2>3, OwedAre DEF OwedBy
    <3> QED BY <3>1
  <2> QED BY <1>1, <2>1, <2>2, <2>3
<1>8. ASSUME NEW t \in J \cup B
      PROVE  t \in L \cup A \/ \E i \in 1..m + 1 : t \in OwedBy(p, ds[i])
  <2>1. CASE t \in J
    <3>1. t \in L \/ \E i \in 1..m : t \in OwedBy(p, es[i])
      BY <2>1 DEF Owing, m
    <3>2. ASSUME NEW i \in 1..m, t \in OwedBy(p, es[i])
          PROVE  t \in A \/ t \in OwedBy(p, ds[i])
      BY <1>1, <1>6, <3>2
    <3> QED BY <1>1, <3>1, <3>2
  <2>2. CASE t \in B
    <3>1. t \in Targets(p, ds[m].node)
      BY <1>1, <2>2
    <3> QED BY <1>1, <1>7, <3>1
  <2> QED BY <2>1, <2>2
<1>9. Len(ds) = m + 1
  BY <1>1
<1> QED BY <1>7, <1>8, <1>9 DEF Owing, ds

(* A call returns: it writes the labels it still owes. *)
LEMMA OwingLeaves ==
  ASSUME NEW p, NEW names, WellFormed(p, names),
         NEW es, Descent(p, es), es # <<>>,
         NEW n, n = es[Len(es)].node, NEW k, k = es[Len(es)].next,
         NEW L, NEW J, Owing(p, L, J, es),
         NEW B \in SUBSET Targets(p, n)
  PROVE  Owing(p, L \cup Owed(p, n, k), J \cup B, Front(es))
<1> DEFINE ds == Front(es)
           m == Len(es)
           A == Owed(p, n, k)
<1>1. /\ Len(ds) = m - 1 /\ m \in Nat \ {0}
      /\ \A i \in 1..m - 1 : ds[i] = es[i]
  BY Ascend
<1>2. \A i \in 1..m - 1 : es[i].node # n
  <2>1. es \in Seq(Frames(p)) /\ \A i \in 1..m : i < m => es[i].node < n
    BY <1>1 DEF Descent
  <2>2. n \in Nat /\ \A i \in 1..m : es[i].node \in Nat
    <3>1. \A i \in 1..m : es[i] \in Frames(p)
      BY <2>1
    <3> QED BY <1>1, <3>1 DEF Frames, WellFormed
  <2> QED BY <1>1, <2>1, <2>2
<1>3. A \subseteq Targets(p, n) /\ \A t \in Targets(p, n) : t[2] = n
  BY TargetsAre
<1> HIDE DEF ds, m
<1>4. \A i \in 1..m : \A t \in Targets(p, es[i].node) :
        t \in L <=> t \notin OwedBy(p, es[i])
  BY DEF Owing, m
<1>5. OwedBy(p, es[m]) = A /\ es[m].node = n
  BY DEF OwedBy, m
<1> HIDE DEF A
<1>6. ASSUME NEW i \in 1..m - 1, NEW t \in Targets(p, ds[i].node)
      PROVE  t \in L \cup A <=> t \notin OwedBy(p, ds[i])
  <2>1. t[2] # n
    BY <1>1, <1>2, <1>6, TargetsAre
  <2>2. t \notin A
    BY <1>3, <2>1
  <2> QED BY <1>1, <1>4, <1>6, <2>2
<1>7. ASSUME NEW t \in J \cup B
      PROVE  t \in L \cup A \/ \E i \in 1..m - 1 : t \in OwedBy(p, ds[i])
  <2>1. CASE t \in J
    <3>1. t \in L \/ \E i \in 1..m : t \in OwedBy(p, es[i])
      BY <2>1 DEF Owing, m
    <3>2. ASSUME NEW i \in 1..m, t \in OwedBy(p, es[i])
          PROVE  t \in A \/ (i \in 1..m - 1 /\ t \in OwedBy(p, ds[i]))
      BY <1>1, <1>5, <3>2
    <3> QED BY <1>1, <3>1, <3>2
  <2>2. CASE t \in B
    BY <1>1, <1>4, <1>5, <2>2
  <2> QED BY <2>1, <2>2
<1>8. Len(ds) = m - 1
  BY <1>1
<1> QED BY <1>6, <1>7, <1>8 DEF Owing, ds, A

(* What the lines of a call do to the labels and jumps. *)
LEMMA QuietAdded ==
  ASSUME NEW o, IsSeq(o), Landing(o),
         NEW x, x.op \notin Jumping \cup {"label", "function"}
  PROVE  LET q == o \o <<x>> IN
         Landing(q) /\ Labels(q) = Labels(o) /\ Jumps(q) = Jumps(o)
<1>1. o \o <<x>> = Append(o, x)
  BY AppendIsSeq
<1>2. x.op # "function" /\ x.op # "label" /\ x.op \notin Jumping
  BY DEF Jumping
<1>3. /\ Landing(Append(o, x))
      /\ Labels(Append(o, x))
           = Labels(o) \cup (IF x.op = "label" THEN {x.label} ELSE {})
      /\ Jumps(Append(o, x))
           = Jumps(o) \cup (IF x.op \in Jumping THEN {x.label} ELSE {})
  BY <1>2, LineAdded
<1> QED BY <1>1, <1>2, <1>3

LEMMA JumpAdded ==
  ASSUME NEW o, IsSeq(o), Landing(o), NEW x, x.op \in Jumping
  PROVE  LET q == o \o <<x>> IN
         Landing(q) /\ Labels(q) = Labels(o) /\ Jumps(q) = Jumps(o) \cup {x.label}
<1>1. o \o <<x>> = Append(o, x)
  BY AppendIsSeq
<1>2. x.op # "function" /\ x.op # "label" /\ x.op \in Jumping
  BY DEF Jumping
<1>3. /\ Landing(Append(o, x))
      /\ Labels(Append(o, x))
           = Labels(o) \cup (IF x.op = "label" THEN {x.label} ELSE {})
      /\ Jumps(Append(o, x))
           = Jumps(o) \cup (IF x.op \in Jumping THEN {x.label} ELSE {})
  BY <1>2, LineAdded
<1> QED BY <1>1, <1>2, <1>3

LEMMA LabelAdded ==
  ASSUME NEW o, IsSeq(o), Landing(o),
         NEW x, x.op = "label", x.label \notin Labels(o)
  PROVE  LET q == o \o <<x>> IN
         Landing(q) /\ Labels(q) = Labels(o) \cup {x.label} /\ Jumps(q) = Jumps(o)
<1>1. o \o <<x>> = Append(o, x)
  BY AppendIsSeq
<1>2. x.op # "function" /\ x.op = "label" /\ x.op \notin Jumping
  BY DEF Jumping
<1>3. /\ Landing(Append(o, x))
      /\ Labels(Append(o, x))
           = Labels(o) \cup (IF x.op = "label" THEN {x.label} ELSE {})
      /\ Jumps(Append(o, x))
           = Jumps(o) \cup (IF x.op \in Jumping THEN {x.label} ELSE {})
  BY <1>2, LineAdded
<1> QED BY <1>1, <1>2, <1>3

LEMMA JumpThenLabel ==
  ASSUME NEW o, IsSeq(o), Landing(o), NEW x, x.op \in Jumping,
         NEW y, y.op = "label", y.label \notin Labels(o)
  PROVE  LET q == o \o <<x, y>> IN
         /\ Landing(q) /\ Labels(q) = Labels(o) \cup {y.label}
         /\ Jumps(q) = Jumps(o) \cup {x.label}
<1> DEFINE m == o \o <<x>>
<1>1. m = Append(o, x) /\ IsSeq(m)
  BY AppendIsSeq
<1>2. Landing(m) /\ Labels(m) = Labels(o) /\ Jumps(m) = Jumps(o) \cup {x.label}
  BY JumpAdded
<1>3. o \o <<x, y>> = Append(m, y)
  BY <1>1, AppendTwo
<1> HIDE DEF m
<1>4. m \o <<y>> = Append(m, y)
  BY <1>1, AppendIsSeq
<1>5. LET q == m \o <<y>> IN
      /\ Landing(q) /\ Labels(q) = Labels(m) \cup {y.label} /\ Jumps(q) = Jumps(m)
  BY <1>1, <1>2, LabelAdded
<1> QED BY <1>2, <1>3, <1>4, <1>5

LEMMA NothingAdded ==
  ASSUME NEW o, IsSeq(o)
  PROVE  LET q == o \o <<>> IN q = o
BY SeqFacts

LEMMA BeforeWrites ==
  ASSUME IsSeq(oil), Landing(oil), NEW n, NEW k \in Nat \ {0},
         \A t \in Owed(ast, n, k) : t \notin Labels(oil)
  PROVE  LET q == oil \o CodeBefore(n, k - 1)
             A == Owed(ast, n, k) \ Owed(ast, n, k + 1)
         IN
         /\ Landing(q) /\ Labels(q) = Labels(oil) \cup A
         /\ \E B \in SUBSET Targets(ast, n) : Jumps(q) = Jumps(oil) \cup B
         /\ Owed(ast, n, k + 1) \subseteq Owed(ast, n, k)
         /\ A \subseteq Targets(ast, n)
<1> DEFINE code == CodeBefore(n, k - 1)
           A == Owed(ast, n, k) \ Owed(ast, n, k + 1)
           s == ast[n].symbol
           T == Targets(ast, n)
           P(q) == /\ Landing(q) /\ Labels(q) = Labels(oil) \cup A
                   /\ \E B \in SUBSET T : Jumps(q) = Jumps(oil) \cup B
<1>1. symbol(n) = s /\ k + 1 \in Nat \ {0}
  BY DEF symbol
<1>2. A \subseteq T
  BY TargetsAre
<1>3. s = "TOK_WHILE" =>
        /\ T = {<<"while", n>>, <<"break", n>>}
        /\ Owed(ast, n, k) = IF k = 1 THEN {<<"while", n>>, <<"break", n>>}
                             ELSE {<<"break", n>>}
        /\ Owed(ast, n, k + 1) = {<<"break", n>>}
  BY <1>1, TargetsAre, OwedAre
<1>4. s = "TOK_IF" => /\ T = {<<"fi", n>>} /\ Owed(ast, n, k) = {<<"fi", n>>}
                      /\ Owed(ast, n, k + 1) = {<<"fi", n>>}
  BY <1>1, TargetsAre, OwedAre
<1>5. s = "TOK_IFELSE" =>
        /\ T = {<<"else", n>>, <<"fi", n>>}
        /\ Owed(ast, n, k) = IF k <= 3 THEN {<<"else", n>>, <<"fi", n>>}
                             ELSE {<<"fi", n>>}
        /\ Owed(ast, n, k + 1) = IF k <= 2 THEN {<<"else", n>>, <<"fi", n>>}
                                 ELSE {<<"fi", n>>}
  <2>1. (k + 1 <= 3) <=> (k <= 2)
    OBVIOUS
  <2>2. s = "TOK_IFELSE" =>
          Owed(ast, n, k + 1) = IF k + 1 <= 3
                                THEN {<<"else", n>>, <<"fi", n>>}
                                ELSE {<<"fi", n>>}
    BY <1>1, OwedAre
  <2>3. s = "TOK_IFELSE" =>
          /\ T = {<<"else", n>>, <<"fi", n>>}
          /\ Owed(ast, n, k) = IF k <= 3 THEN {<<"else", n>>, <<"fi", n>>}
                               ELSE {<<"fi", n>>}
    BY TargetsAre, OwedAre
  <2> HIDE DEF T
  <2> QED BY <2>1, <2>2, <2>3
<1>6. s \notin Conditionals => Owed(ast, n, k) = {} /\ Owed(ast, n, k + 1) = {}
  BY TargetsAre
<1>7. Owed(ast, n, k + 1) \subseteq Owed(ast, n, k)
  BY <1>3, <1>4, <1>5, <1>6 DEF Conditionals
<1>8. ASSUME code = <<>>, A = {}  PROVE P(oil \o code)
  <2>1. oil \o code = oil
    BY <1>8, NothingAdded
  <2>2. Jumps(oil) = Jumps(oil) \cup {} /\ {} \in SUBSET T
    OBVIOUS
  <2> HIDE DEF code, T
  <2> QED BY <1>8, <2>1, <2>2
<1>9. ASSUME NEW kind, code = <<Unless(kind, n)>>, <<kind, n>> \in T, A = {}
      PROVE  P(oil \o code)
  <2>1. Unless(kind, n).op \in Jumping /\ Unless(kind, n).label = <<kind, n>>
    BY JumpFacts DEF Jumping
  <2>2. LET q == oil \o <<Unless(kind, n)>> IN
        /\ Landing(q) /\ Labels(q) = Labels(oil)
        /\ Jumps(q) = Jumps(oil) \cup {<<kind, n>>}
    BY <2>1, JumpAdded
  <2>3. {<<kind, n>>} \in SUBSET T
    BY <1>9
  <2> HIDE DEF code, T
  <2> QED BY <1>9, <2>2, <2>3
<1>10. CASE s = "TOK_WHILE" /\ k = 1
  <2>1. code = <<Label("while", n)>> /\ A = {<<"while", n>>}
    BY <1>1, <1>3, <1>10 DEF CodeBefore
  <2>2. /\ Label("while", n).op = "label"
        /\ Label("while", n).label = <<"while", n>>
    BY JumpFacts
  <2>3. LET q == oil \o <<Label("while", n)>> IN
        /\ Landing(q) /\ Labels(q) = Labels(oil) \cup {<<"while", n>>}
        /\ Jumps(q) = Jumps(oil) \cup {}
    BY <2>1, <2>2, LabelAdded
  <2> HIDE DEF code, T
  <2>4. {} \in SUBSET T
    OBVIOUS
  <2> QED BY <1>2, <1>7, <2>1, <2>3, <2>4 DEF code, T
<1>11. CASE s = "TOK_IFELSE" /\ k = 3
  <2>1. /\ code = <<Goto("fi", n), Label("else", n)>> /\ A = {<<"else", n>>}
        /\ <<"fi", n>> \in T
    BY <1>1, <1>5, <1>11 DEF CodeBefore
  <2>2. /\ Label("else", n).op = "label" /\ Goto("fi", n).op \in Jumping
        /\ Label("else", n).label = <<"else", n>>
        /\ Goto("fi", n).label = <<"fi", n>>
    BY JumpFacts DEF Jumping
  <2>3. LET q == oil \o <<Goto("fi", n), Label("else", n)>> IN
        /\ Landing(q) /\ Labels(q) = Labels(oil) \cup {<<"else", n>>}
        /\ Jumps(q) = Jumps(oil) \cup {<<"fi", n>>}
    BY <2>1, <2>2, JumpThenLabel
  <2> HIDE DEF code, T
  <2>4. {<<"fi", n>>} \in SUBSET T
    BY <2>1
  <2> QED BY <1>2, <1>7, <2>1, <2>3, <2>4 DEF code, T
<1>12. CASE s \in Conditionals /\ k = 2
  <2>1. CASE s = "TOK_WHILE"
    <3>1. /\ code = <<Unless("break", n)>> /\ A = {} /\ <<"break", n>> \in T
      BY <1>1, <1>3, <1>12, <2>1 DEF CodeBefore
    <3> QED BY <1>2, <1>7, <1>9, <3>1
  <2>2. CASE s = "TOK_IF"
    <3>1. /\ code = <<Unless("fi", n)>> /\ A = {} /\ <<"fi", n>> \in T
      BY <1>1, <1>4, <1>12, <2>2 DEF CodeBefore
    <3> QED BY <1>2, <1>7, <1>9, <3>1
  <2>3. CASE s = "TOK_IFELSE"
    <3>1. /\ code = <<Unless("else", n)>> /\ A = {} /\ <<"else", n>> \in T
      BY <1>1, <1>5, <1>12, <2>3 DEF CodeBefore
    <3> QED BY <1>2, <1>7, <1>9, <3>1
  <2> QED BY <1>12, <2>1, <2>2, <2>3 DEF Conditionals
<1>13. CASE /\ ~ (s \in Conditionals /\ k = 2)
            /\ ~ (s = "TOK_IFELSE" /\ k = 3) /\ ~ (s = "TOK_WHILE" /\ k = 1)
  <2>1. code = <<>>
    BY <1>1, <1>13 DEF CodeBefore, Conditionals
  <2>2. A = {}
    BY <1>3, <1>4, <1>5, <1>6, <1>13 DEF Conditionals
  <2> QED BY <1>2, <1>7, <1>8, <2>1, <2>2
<1> QED BY <1>10, <1>11, <1>12, <1>13

LEMMA Arities ==
  ASSUME NEW p, NEW names, WellFormed(p, names), NEW n \in DOMAIN p
  PROVE  /\ p[n].symbol \in {"TOK_WHILE", "TOK_IF"} => Len(Below(p, n)) = 2
         /\ p[n].symbol = "TOK_IFELSE" => Len(Below(p, n)) = 3
<1>1. Built(p, n)
  BY DEF WellFormed
<1>2. CASE p[n].symbol \in {"TOK_WHILE", "TOK_IF"}
  BY <1>1, <1>2 DEF Built, Below, Unentered
<1>3. CASE p[n].symbol = "TOK_IFELSE"
  BY <1>1, <1>3 DEF Built, Below, Unentered
<1> QED BY <1>2, <1>3

LEMMA AfterWrites ==
  ASSUME WellFormed(ast, Name), IsSeq(oil), Landing(oil), NEW n \in DOMAIN ast,
         NEW k, k = Len(Below(ast, n)) + 1,
         \A t \in Owed(ast, n, k) : t \notin Labels(oil)
  PROVE  LET q == oil \o CodeAfter(n) IN
         /\ Landing(q) /\ Labels(q) = Labels(oil) \cup Owed(ast, n, k)
         /\ \E B \in SUBSET Targets(ast, n) : Jumps(q) = Jumps(oil) \cup B
<1> DEFINE code == CodeAfter(n)
           A == Owed(ast, n, k)
           s == ast[n].symbol
           T == Targets(ast, n)
<1>1. symbol(n) = s
  BY DEF symbol
<1>2. CASE s = "TOK_WHILE"
  <2>1. /\ code = <<Goto("while", n), Label("break", n)>>
        /\ <<"while", n>> \in T /\ A = {<<"break", n>>}
    <3>1. k = 3
      <4>1. Len(Below(ast, n)) = 2
        BY <1>2, Arities
      <4> QED BY <4>1
    <3> QED BY <1>1, <1>2, <3>1, TargetsAre, OwedAre DEF CodeAfter
  <2>2. /\ Label("break", n).op = "label" /\ Goto("while", n).op \in Jumping
        /\ Label("break", n).label = <<"break", n>>
        /\ Goto("while", n).label = <<"while", n>>
    BY JumpFacts DEF Jumping
  <2>3. LET q == oil \o <<Goto("while", n), Label("break", n)>> IN
        /\ Landing(q) /\ Labels(q) = Labels(oil) \cup {<<"break", n>>}
        /\ Jumps(q) = Jumps(oil) \cup {<<"while", n>>}
    BY <2>1, <2>2, JumpThenLabel
  <2> HIDE DEF code, T
  <2>4. {<<"while", n>>} \in SUBSET T
    BY <2>1
  <2> QED BY <2>1, <2>3, <2>4 DEF code, T
<1>3. CASE s \in {"TOK_IF", "TOK_IFELSE"}
  <2>1. code = <<Label("fi", n)>> /\ A = {<<"fi", n>>}
    <3>1. ASSUME s = "TOK_IFELSE"  PROVE k = 4
      <4>1. Len(Below(ast, n)) = 3
        BY <3>1, Arities
      <4> QED BY <4>1
    <3>2. k \in Nat \ {0}
      BY BelowFollows
    <3> QED BY <1>1, <1>3, <3>1, <3>2, OwedAre DEF CodeAfter
  <2>2. Label("fi", n).op = "label" /\ Label("fi", n).label = <<"fi", n>>
    BY JumpFacts
  <2>3. LET q == oil \o <<Label("fi", n)>> IN
        /\ Landing(q) /\ Labels(q) = Labels(oil) \cup {<<"fi", n>>}
        /\ Jumps(q) = Jumps(oil) \cup {}
    BY <2>1, <2>2, LabelAdded
  <2> HIDE DEF code, T
  <2>4. {} \in SUBSET T
    OBVIOUS
  <2> QED BY <2>1, <2>3, <2>4 DEF code, T
<1>4. CASE s \notin Conditionals
  <2>1. code = Code(n) /\ A = {}
    BY <1>1, <1>4, CodeFew, TargetsAre
  <2>2. \/ Code(n) = <<>>
        \/ \E line : Code(n) = <<line>> /\ line.op \in CodeOps
    BY CodeIs DEF CodeLine
  <2>3. CodeOps \cap (Jumping \cup {"label", "function"}) = {}
    BY DEF CodeOps, Jumping, BinaryOps, UnaryOps
  <2> DEFINE q == oil \o code
  <2>4. Landing(q) /\ Labels(q) = Labels(oil) /\ Jumps(q) = Jumps(oil) \cup {}
    <3>1. CASE Code(n) = <<>>
      <4>1. q = oil
        BY <2>1, <3>1, NothingAdded
      <4> HIDE DEF q
      <4> QED BY <4>1
    <3>2. ASSUME NEW line, Code(n) = <<line>>, line.op \in CodeOps
          PROVE  Landing(q) /\ Labels(q) = Labels(oil)
                   /\ Jumps(q) = Jumps(oil) \cup {}
      <4>1. q = oil \o <<line>>
        BY <2>1, <3>2
      <4>2. line.op \notin Jumping \cup {"label", "function"}
        BY <2>3, <3>2
      <4> HIDE DEF q
      <4> QED BY <4>1, <4>2, QuietAdded
    <3> QED BY <2>2, <3>1, <3>2
  <2>5. {} \in SUBSET T
    OBVIOUS
  <2> HIDE DEF q, T
  <2> QED BY <2>1, <2>4, <2>5 DEF q, T
<1> QED BY <1>2, <1>3, <1>4 DEF Conditionals

-----------------------------------------------------------------------------
(* The steps of the emitter. *)

(* While nothing is on the stack, every jump of the function lands. *)
LEMMA NothingOwed ==
  ASSUME NEW p, NEW L, NEW J
  PROVE  Owing(p, L, J, <<>>) <=> J \subseteq L
BY DEF Owing

LEMMA OwingBegins ==
  ASSUME NEW p, NEW L, NEW J, J \subseteq L, NEW n, Targets(p, n) = {}
  PROVE  Owing(p, L, J, <<Frame(n)>>)
<1>1. Len(<<Frame(n)>>) = 1 /\ <<Frame(n)>>[1] = Frame(n)
  OBVIOUS
<1>2. Frame(n).node = n
  BY DEF Frame
<1> QED BY <1>1, <1>2 DEF Owing

(* After a body the next function begins, or main. *)
LEMMA NextJob ==
  ASSUME JobsInv, jobs # <<>>, Tail(jobs) # <<>>,
         Head(jobs).what \in {"functions", "body", "main"}
  PROVE  Head(Tail(jobs)).what \in {"functions", "main"}
<1>1. /\ Tail(jobs) \in Seq(JobSet(ast)) /\ Len(Tail(jobs)) \in Nat \ {0}
      /\ Before(Head(jobs), Tail(jobs)[1]) /\ Tail(jobs)[1] \in JobSet(ast)
      /\ Head(jobs) \in JobSet(ast)
  <2>1. /\ Tail(jobs) \in Seq(JobSet(ast)) /\ Head(jobs) \in JobSet(ast)
        /\ \A i \in 1..Len(Tail(jobs)) : Before(Head(jobs), Tail(jobs)[i])
    BY JobsTail
  <2>2. Len(Tail(jobs)) \in Nat \ {0}
    BY <2>1, EmptySeq
  <2>3. 1 \in 1..Len(Tail(jobs))
    BY <2>2
  <2> QED BY <2>1, <2>2, <2>3
<1>2. Head(Tail(jobs)) = Tail(jobs)[1]
  BY <1>1
<1> DEFINE a == Head(jobs)
           b == Tail(jobs)[1]
<1>3. /\ a.what \in Kinds /\ b.what \in Kinds
      /\ a.node \in DOMAIN ast /\ b.node \in DOMAIN ast
      /\ a.what = "main" => a.node = 1
      /\ b.what = "main" => b.node = 1
  BY <1>1 DEF JobSet, Shape
<1> HIDE DEF a, b
<1>4. Before(a, b)
  BY <1>1 DEF a, b
<1>5. a.what \in {"functions", "body", "main"}
  BY DEF a
<1>6. Stage("functions") = 4 /\ Stage("body") = 4 /\ Stage("main") = 5
  BY DEF Stage
<1>7. /\ b.what \in {"structs", "struct", "field"} => Stage(b.what) = 1
      /\ b.what \in {"strings", "string"} => Stage(b.what) = 2
      /\ b.what \in {"globals", "global"} => Stage(b.what) = 3
      /\ b.what \in {"function", "param", "body"} => Stage(b.what) = 4
  BY DEF Stage
<1>8. b.what \in {"functions", "main"}
  <2>1. Stage(a.what) >= 4 /\ Stage(a.what) \in Nat
    BY <1>5, <1>6
  <2>2. CASE b.what \in {"function", "param", "body"}
    <3>1. Stage(b.what) = 4 /\ b.what \notin Loops
      BY <1>7, <2>2 DEF Loops
    <3>2. a.what = "body" \/ a.what = "functions" \/ a.what = "main"
      BY <1>5
    <3> QED BY <1>4, <1>6, <3>1, <3>2 DEF Before, Loops
  <2>3. CASE b.what \in {"structs", "struct", "field", "strings", "string",
                         "globals", "global"}
    <3>1. Stage(b.what) \in 1..3
      BY <1>7, <2>3
    <3> QED BY <1>4, <2>1, <3>1 DEF Before
  <2> QED BY <1>3, <2>2, <2>3 DEF Kinds, Loops, Headings, Declarers
<1> QED BY <1>2, <1>8 DEF b

LEMMA JumpBegins ==
  ASSUME EmitInv, JumpInv, BeginEmit, UNCHANGED vars
  PROVE  JumpInv'
<1>1. /\ oil = <<>> /\ ast' = ast /\ oil' = <<Line("include", 1)>>
      /\ emits' = emits /\ emits = <<>>
  BY DEF BeginEmit, vars, EmitInv, StartInv
<1>2. Landing(oil') /\ Labels(oil') = {} /\ Jumps(oil') = {}
  <2>1. Labels(<<>>) = {} /\ Jumps(<<>>) = {} /\ Landing(<<>>)
    BY DEF Labels, Jumps, Current, Landing
  <2>2. Line("include", 1).op \notin Jumping \cup {"label", "function"}
    BY PlainLine DEF Jumping
  <2>3. <<>> \o <<Line("include", 1)>> = <<Line("include", 1)>>
    OBVIOUS
  <2> QED BY <1>1, <2>1, <2>2, <2>3, QuietAdded, EmptyIsSeq
<1>3. Owing(ast, Labels(oil'), Jumps(oil'), emits')
  BY <1>1, <1>2, NothingOwed
<1> QED BY <1>1, <1>2, <1>3 DEF JumpInv, Unlabelled

LEMMA JumpIterates ==
  ASSUME EmitInv, JumpInv, Iterate, UNCHANGED vars
  PROVE  JumpInv'
<1>1. /\ jobs # <<>> /\ emits = <<>> /\ ast' = ast /\ oil' = oil
      /\ emits' = emits
  BY DEF Iterate, Emitting, vars
<1> DEFINE loop == Head(jobs).what
<1>2. /\ loop \in Loops
      /\ \/ jobs' = Tail(jobs)
         \/ loop = "functions" => Head(jobs').what = "function"
  BY EmitTree, IterateJobs DEF EmitInv
<1>3. Unlabelled'
  <2>1. CASE loop = "functions"
    <3>1. jobs' # <<>> =>
            Head(jobs').what \in {"functions", "function", "main"}
      BY <1>1, <1>2, <2>1, NextJob DEF EmitInv
    <3> QED BY <3>1 DEF Unlabelled
  <2>2. CASE loop # "functions"
    <3>1. Labels(oil) = {}
      BY <1>1, <1>2, <2>2 DEF JumpInv, Unlabelled, Loops
    <3> QED BY <1>1, <3>1 DEF Unlabelled
  <2> QED BY <2>1, <2>2
<1> QED BY <1>1, <1>3 DEF JumpInv

LEMMA JobTargets ==
  ASSUME WellFormed(ast, Name), NEW job \in JobSet(ast),
         job.what \notin Loops \cup Headings
  PROVE  Targets(ast, job.node) = {}
<1>1. job.what \in Declarers \cup Bodies /\ Shape(ast, job)
  BY DEF JobSet, Kinds, Bodies
<1>2. CASE job.what \in Declarers
  <2>1. ast[job.node].symbol \in TypeName \cup {"TOK_ARRAY"}
    BY <1>1, <1>2 DEF Shape, Declaration
  <2>2. ast[job.node].symbol \notin Conditionals
    BY <2>1 DEF TypeName, Conditionals
  <2> QED BY <2>2, TargetsAre
<1>3. CASE job.what = "body"
  <2>1. ast[job.node].symbol = "TOK_BLOCK"
    BY <1>1, <1>3 DEF Shape
  <2> QED BY <2>1, TargetsAre DEF Conditionals
<1>4. CASE job.what = "main"
  <2>1. ast[job.node].symbol = "TOK_ROOT"
    BY <1>1, <1>4 DEF Shape, WellFormed
  <2> QED BY <2>1, TargetsAre DEF Conditionals
<1> QED BY <1>1, <1>2, <1>3, <1>4 DEF Bodies

(* A function of its own begins, with an opening brace. *)
LEMMA MainOpens ==
  ASSUME NEW o, IsSeq(o), Landing(o), Jumps(o) \subseteq Labels(o),
         NEW job, job.what = "main"
  PROVE  LET q == o \o Opening(job) IN
         Landing(q) /\ Labels(q) = {} /\ Jumps(q) = {}
<1> DEFINE x == Defining("function", 1, Operand("var", <<0, ocmain>>),
                         CType("void", NULL, 0), <<>>)
           y == Line("{", 1)
<1>1. Opening(job) = <<x, y>>
  BY DEF Opening
<1>2. x.op = "function" /\ y.op \notin {"goto", "unless", "label", "function"}
  <2>1. x.op = "function"
    BY DefiningLine
  <2>2. y.op \notin {"goto", "unless", "label", "function"}
    BY BraceLine, Zenon
  <2> HIDE DEF x, y
  <2> QED BY <2>1, <2>2
<1> HIDE DEF x, y
<1> DEFINE m == Append(o, x)
<1>3. Landing(m) /\ Labels(m) = {} /\ Jumps(m) = {} /\ IsSeq(m)
  BY <1>2, FunctionAdded, AppendIsSeq
<1>4. o \o <<x, y>> = Append(m, y)
  BY AppendTwo
<1> HIDE DEF m
<1>5. m \o <<y>> = Append(m, y)
  BY <1>3, AppendIsSeq
<1>6. y.op \notin Jumping \cup {"label", "function"}
  BY <1>2 DEF Jumping
<1>7. LET q == m \o <<y>> IN
      Landing(q) /\ Labels(q) = Labels(m) /\ Jumps(q) = Jumps(m)
  BY <1>3, <1>6, QuietAdded
<1> QED BY <1>1, <1>3, <1>4, <1>5, <1>7

(* The other lines around the calls. *)
LEMMA JobOpens ==
  ASSUME NEW o, IsSeq(o), Landing(o),
         NEW job, job.what \in Kinds \ (Loops \cup {"main"})
  PROVE  LET q == o \o (IF job.what \in Headings THEN Heading(job)
                        ELSE Opening(job))
         IN  Landing(q) /\ Labels(q) = Labels(o) /\ Jumps(q) = Jumps(o)
<1>1. CASE job.what \in Headings
  <2>1. PICK x : Heading(job) = <<x>> /\ x.op \in Headings
    <3>1. CASE job.what = "struct"
      BY <3>1, DefiningLine DEF Heading, Headings
    <3>2. CASE job.what # "struct"
      BY <3>2, DefiningLine DEF Heading, Headings
    <3> QED BY <3>1, <3>2
  <2>2. x.op \notin Jumping \cup {"label", "function"}
    BY <2>1 DEF Jumping, Headings
  <2> QED BY <1>1, <2>1, <2>2, QuietAdded
<1>2. CASE job.what = "body"
  <2> DEFINE x == Line("{", job.node)
  <2>1. Opening(job) = <<x>> /\ job.what \notin Headings
    BY <1>2 DEF Opening, Headings
  <2>2. x.op \notin {"goto", "unless", "label", "function"}
    BY BraceLine, Zenon
  <2> HIDE DEF x
  <2>3. x.op \notin Jumping \cup {"label", "function"}
    BY <2>2 DEF Jumping
  <2> QED BY <2>1, <2>3, QuietAdded
<1>3. CASE job.what \in Declarers
  <2>1. Opening(job) = <<>> /\ job.what \notin Headings
    BY <1>3 DEF Opening, Declarers, Headings
  <2> QED BY <2>1, NothingAdded
<1> QED BY <1>1, <1>2, <1>3 DEF Kinds

LEMMA JumpBeginsJob ==
  ASSUME EmitInv, JumpInv, BeginJob, UNCHANGED vars
  PROVE  JumpInv'
<1> DEFINE job == Head(jobs)
<1>1. /\ jobs # <<>> /\ emits = <<>> /\ ast' = ast /\ job.what \notin Loops
  BY DEF BeginJob, Emitting, vars
<1>2. /\ WellFormed(ast, Name) /\ IsSeq(oil) /\ Landing(oil)
      /\ Jumps(oil) \subseteq Labels(oil)
  BY <1>1, EmitTree, NothingOwed DEF JumpInv
<1>3. job \in JobSet(ast)
  BY <1>1, JobsTail DEF EmitInv
<1>4. job.what \in Kinds
  BY <1>3 DEF JobSet
<1>5. CASE job.what \in Headings
  <2>1. oil' = oil \o Heading(job) /\ jobs' = Tail(jobs) /\ emits' = emits
    BY <1>5 DEF BeginJob, Headings
  <2>2. job.what \in Kinds \ (Loops \cup {"main"})
    BY <1>4, <1>5 DEF Headings, Loops
  <2>3. Landing(oil') /\ Labels(oil') = Labels(oil) /\ Jumps(oil') = Jumps(oil)
    BY <1>2, <1>5, <2>1, <2>2, JobOpens
  <2>4. Labels(oil) = {}
    BY <1>1, <1>5 DEF JumpInv, Unlabelled, Headings
  <2> QED BY <1>1, <2>1, <2>3, <2>4 DEF JumpInv, Unlabelled
<1>6. CASE job.what \notin Headings
  <2>1. oil' = oil \o Opening(job) /\ jobs' = jobs /\ emits' = <<Frame(job.node)>>
    BY <1>6 DEF BeginJob, Headings
  <2>2. /\ Landing(oil') /\ Jumps(oil') \subseteq Labels(oil')
        /\ job.what # "main" => Labels(oil') = Labels(oil)
        /\ job.what = "main" => Labels(oil') = {}
    <3>1. CASE job.what = "main"
      <4>1. Landing(oil') /\ Labels(oil') = {} /\ Jumps(oil') = {}
        BY <1>2, <2>1, <3>1, MainOpens
      <4> QED BY <3>1, <4>1
    <3>2. CASE job.what # "main"
      <4>1. job.what \in Kinds \ (Loops \cup {"main"})
        BY <1>1, <1>4, <3>2
      <4>2. /\ Landing(oil') /\ Labels(oil') = Labels(oil)
            /\ Jumps(oil') = Jumps(oil)
        BY <1>2, <1>6, <2>1, <4>1, JobOpens
      <4> QED BY <1>2, <3>2, <4>2
    <3> QED BY <3>1, <3>2
  <2>3. Targets(ast, job.node) = {}
    BY <1>1, <1>2, <1>3, <1>6, JobTargets
  <2>4. Owing(ast, Labels(oil'), Jumps(oil'), emits')
    BY <2>1, <2>2, <2>3, OwingBegins
  <2>5. job.what \in Bodies => Labels(oil') = {}
    BY <1>1, <2>2 DEF JumpInv, Unlabelled, Bodies
  <2>6. Unlabelled'
    <3>1. CASE job.what \in {"functions", "function", "main"}
      BY <2>1, <3>1 DEF Unlabelled
    <3>2. CASE job.what \notin {"functions", "function", "main"}
      <4>1. Labels(oil') = {}
        BY <1>1, <2>2, <2>5, <3>2 DEF JumpInv, Unlabelled, Bodies
      <4> QED BY <4>1 DEF Unlabelled
    <3> QED BY <3>1, <3>2
  <2> QED BY <1>1, <2>1, <2>2, <2>4, <2>5, <2>6 DEF JumpInv, Passed
<1> QED BY <1>5, <1>6

LEMMA PassedGrows ==
  ASSUME NEW p, NEW names, WellFormed(p, names),
         NEW es, Descent(p, es), es # <<>>,
         NEW L, Passed(p, L, es),
         NEW A, \A t \in A : t[2] = es[Len(es)].node
  PROVE  Passed(p, L \cup A, es)
BY StackAhead DEF Passed

(* The labels written so far come before the child that is entered. *)
LEMMA PassedEnters ==
  ASSUME NEW p, NEW names, WellFormed(p, names),
         NEW es, Descent(p, es), es # <<>>,
         es[Len(es)].next <= Len(Below(p, es[Len(es)].node)),
         NEW L, Passed(p, L, es)
  PROVE  LET c == Below(p, es[Len(es)].node)[es[Len(es)].next] IN
         /\ Passed(p, L, Append(Bumped(es), Frame(c)))
         /\ \A t \in L : t[2] # c
<1> DEFINE c == Below(p, es[Len(es)].node)[es[Len(es)].next]
           ds == Append(Bumped(es), Frame(c))
<1>1. /\ c \in Nat /\ \A x : Ahead(p, es, x) => x < c
      /\ \A x \in Int : Ahead(p, es, x) => Ahead(p, ds, x)
  BY Descend
<1> HIDE DEF ds, c
<1>2. \A t \in L : t[2] \in Nat /\ Ahead(p, es, t[2])
  BY DEF Passed
<1>3. \A t \in L : Ahead(p, ds, t[2]) /\ t[2] < c
  BY <1>1, <1>2
<1> QED BY <1>1, <1>2, <1>3 DEF Passed, ds, c

LEMMA PassedLeaves ==
  ASSUME NEW p, NEW names, WellFormed(p, names),
         NEW es, Descent(p, es), es # <<>>, NEW L, Passed(p, L, es)
  PROVE  Passed(p, L, Front(es))
BY Ascend DEF Passed

(* The job that is under way. *)
LEMMA JobUnderWay ==
  ASSUME EmitInv, emits # <<>>
  PROVE  /\ jobs # <<>> /\ Head(jobs).what \in Declarers \cup Bodies
         /\ Head(jobs).what \in Declarers =>
              ast[Emitted.node].symbol \in Inert
                /\ Targets(ast, Emitted.node) = {}
<1>1. /\ jobs # <<>> /\ Head(jobs).what \notin Loops \cup Headings
      /\ Head(jobs).what \in Declarers =>
           \A i \in 1..Len(emits) : ast[emits[i].node].symbol \in Inert
  BY DEF EmitInv, Stacked
<1>2. Head(jobs).what \in Kinds
  BY <1>1, JobsTail DEF EmitInv, JobSet
<1>3. Len(emits) \in 1..Len(emits) /\ Emitted = emits[Len(emits)]
  BY EmittedIs
<1>4. Inert \cap Conditionals = {}
  BY DEF Inert, Conditionals, TypeName
<1>5. Head(jobs).what \in Declarers =>
        ast[Emitted.node].symbol \in Inert /\ Targets(ast, Emitted.node) = {}
  BY <1>1, <1>3, <1>4, TargetsAre
<1> QED BY <1>1, <1>2, <1>5 DEF Kinds, Bodies

LEMMA JumpEnters ==
  ASSUME EmitInv, JumpInv, EnterChild, UNCHANGED vars
  PROVE  JumpInv'
<1> DEFINE n == Emitted.node
           k == Emitted.next
           c == Below(ast, n)[k]
           L == Labels(oil)
           J == Jumps(oil)
           A == Owed(ast, n, k) \ Owed(ast, n, k + 1)
<1>1. /\ jobs # <<>> /\ emits # <<>> /\ k \in 1..Len(Below(ast, n))
      /\ jobs' = jobs /\ ast' = ast
      /\ \/ UNCHANGED <<oil, emits>>
         \/ /\ oil' = oil \o CodeBefore(n, k - 1)
            /\ emits' = Append(Bumped(emits), Frame(c))
  BY EnterIs DEF vars
<1>2. /\ Emitted = emits[Len(emits)] /\ n \in DOMAIN ast /\ k \in Nat \ {0}
      /\ Descent(ast, emits) /\ Len(emits) \in 1..Len(emits)
      /\ Len(Below(ast, n)) \in Nat
  BY <1>1, EmittedIs
<1>3. WellFormed(ast, Name) /\ IsSeq(oil) /\ Landing(oil) /\ Owing(ast, L, J, emits)
  BY EmitTree DEF JumpInv
<1>4. /\ Head(jobs).what \in Declarers \cup Bodies
      /\ Head(jobs).what \in Declarers =>
           ast[n].symbol \in Inert /\ Targets(ast, n) = {}
  BY <1>1, JobUnderWay
<1>5. CASE UNCHANGED <<oil, emits>>
  BY <1>1, <1>5 DEF JumpInv, Unlabelled
<1>6. CASE /\ oil' = oil \o CodeBefore(n, k - 1)
           /\ emits' = Append(Bumped(emits), Frame(c))
  <2>1. \A t \in Owed(ast, n, k) : t \in Targets(ast, n) /\ t \notin L
    <3>1. OwedBy(ast, emits[Len(emits)]) = Owed(ast, n, k)
      BY <1>2 DEF OwedBy
    <3>2. Owed(ast, n, k) \subseteq Targets(ast, n)
      BY TargetsAre
    <3> HIDE DEF L, J
    <3> QED BY <1>2, <1>3, <3>1, <3>2 DEF Owing
  <2>2. \A t \in A : t \notin L
    BY <2>1
  <2>3. /\ Landing(oil') /\ Labels(oil') = L \cup A
        /\ \E B \in SUBSET Targets(ast, n) : Jumps(oil') = J \cup B
        /\ Owed(ast, n, k + 1) \subseteq Owed(ast, n, k)
        /\ A \subseteq Targets(ast, n)
    <3> HIDE DEF n, k
    <3>1. \A t \in Owed(ast, n, k) : t \notin Labels(oil)
      BY <2>1
    <3> QED BY <1>2, <1>3, <1>6, <3>1, BeforeWrites
  <2> HIDE DEF A, L, J
  <2>4. PICK B \in SUBSET Targets(ast, n) : Jumps(oil') = J \cup B
    BY <2>3
  <2>5. /\ n = emits[Len(emits)].node /\ k = emits[Len(emits)].next
        /\ k <= Len(Below(ast, n)) /\ A \in SUBSET Targets(ast, n)
    BY <1>1, <1>2, <2>3
  <2>6. Head(jobs).what \in Bodies =>
          /\ Passed(ast, L \cup A, emits')
          /\ \A t \in L \cup A : t[2] # c
    <3> SUFFICES ASSUME Head(jobs).what \in Bodies
                 PROVE  /\ Passed(ast, L \cup A, emits')
                        /\ \A t \in L \cup A : t[2] # c
      OBVIOUS
    <3>1. Passed(ast, L, emits)
      BY <1>1 DEF JumpInv, L
    <3>2. \A t \in A : t[2] = emits[Len(emits)].node
      BY <1>2, <2>3, TargetsAre
    <3>3. Passed(ast, L \cup A, emits)
      BY <1>1, <1>2, <1>3, <3>1, <3>2, PassedGrows
    <3>4. /\ emits[Len(emits)].next <= Len(Below(ast, emits[Len(emits)].node))
          /\ c = Below(ast, emits[Len(emits)].node)[emits[Len(emits)].next]
      BY <1>2, <2>5
    <3> HIDE DEF c
    <3> QED BY <1>1, <1>2, <1>3, <1>6, <3>3, <3>4, PassedEnters
  <2>7. \A t \in Targets(ast, c) : t \notin L \cup A
    <3>1. CASE Head(jobs).what \in Bodies
      BY <2>6, <3>1, TargetsAre
    <3>2. CASE Head(jobs).what \in Declarers
      <4>1. c \in Kids(ast, n)
        BY <1>1, <1>2, <1>3, BelowFollows
      <4>2. ast[c].symbol \in Inert
        BY <1>2, <1>3, <1>4, <3>2, <4>1, InertKids
      <4>3. Inert \cap Conditionals = {}
        BY DEF Inert, Conditionals, TypeName
      <4>4. Targets(ast, c) = {}
        BY <4>2, <4>3, TargetsAre
      <4> QED BY <4>4
    <3> QED BY <1>4, <3>1, <3>2
  <2>8. Owing(ast, L \cup A, J \cup B, emits')
    <3> HIDE DEF n, k
    <3>1. c = Below(ast, n)[k] /\ A = Owed(ast, n, k) \ Owed(ast, n, k + 1)
      BY DEF A
    <3> HIDE DEF c
    <3> QED BY <1>1, <1>2, <1>3, <1>6, <2>3, <2>5, <2>7, <3>1, OwingEnters
  <2>9. emits' # <<>>
    <3>1. Descent(ast, Bumped(emits)) /\ Len(Bumped(emits)) = Len(emits)
      BY <1>1, <1>2, Bump
    <3>2. IsSeq(Bumped(emits))
      BY <3>1 DEF Descent, IsSeq
    <3>3. IsSeq(emits') /\ Len(emits') = Len(emits) + 1
      BY <1>6, <3>1, <3>2, AppendIsSeq
    <3> QED BY <1>2, <3>3, EmptyIsSeq
  <2>10. Unlabelled'
    <3>1. CASE Head(jobs).what \in Bodies
      BY <1>1, <2>9, <3>1 DEF Unlabelled, Bodies
    <3>2. CASE Head(jobs).what = "function"
      BY <1>1, <3>2 DEF Unlabelled
    <3>3. CASE Head(jobs).what \in Declarers \ {"function"}
      <4>1. L = {}
        BY <1>1, <3>3 DEF JumpInv, Unlabelled, Declarers, L
      <4>2. A = {}
        BY <1>4, <2>3, <3>3
      <4> QED BY <1>1, <2>3, <4>1, <4>2 DEF Unlabelled
    <3> QED BY <1>4, <3>1, <3>2, <3>3
  <2> QED BY <1>1, <2>3, <2>4, <2>6, <2>8, <2>10 DEF JumpInv
<1> QED BY <1>1, <1>5, <1>6

(* The lines behind the last call. *)
LEMMA JobCloses ==
  ASSUME NEW o, IsSeq(o), Landing(o), Jumps(o) \subseteq Labels(o),
         NEW job, job.what \in Declarers \cup Bodies, NEW name
  PROVE  LET q == o \o Closing(job, name) IN
         /\ Landing(q) /\ Jumps(q) \subseteq Labels(q)
         /\ job.what = "function" => Labels(q) = {}
         /\ job.what # "function" => Labels(q) = Labels(o)
<1>1. CASE job.what \in Bodies
  <2> DEFINE x == Line("}", job.node)
  <2>1. Closing(job, name) = <<x>> /\ job.what # "function"
    BY <1>1 DEF Closing, Bodies
  <2>2. x.op \notin {"goto", "unless", "label", "function"}
    BY BraceLine, Zenon
  <2> HIDE DEF x
  <2>3. x.op \notin Jumping \cup {"label", "function"}
    BY <2>2 DEF Jumping
  <2>4. LET q == o \o <<x>> IN
        Landing(q) /\ Labels(q) = Labels(o) /\ Jumps(q) = Jumps(o)
    BY <2>3, QuietAdded
  <2> QED BY <2>1, <2>4
<1>2. CASE job.what \in Declarers
  <2> DEFINE x == Defining(job.what, job.node, name.name, name.type, <<>>)
  <2>1. Closing(job, name) = <<x>> /\ x.op = job.what
    <3>1. job.what \notin {"body", "main"}
      BY <1>2 DEF Declarers
    <3>2. Closing(job, name) = <<x>>
      BY <3>1 DEF Closing
    <3>3. x.op = job.what
      BY DefiningLine
    <3> QED BY <3>2, <3>3
  <2> HIDE DEF x
  <2>2. o \o <<x>> = Append(o, x)
    BY AppendIsSeq
  <2>3. CASE job.what = "function"
    <3>1. LET q == Append(o, x) IN
          Landing(q) /\ Labels(q) = {} /\ Jumps(q) = {}
      BY <2>1, <2>3, FunctionAdded
    <3> QED BY <2>1, <2>2, <2>3, <3>1
  <2>4. CASE job.what # "function"
    <3>1. x.op \notin Jumping \cup {"label", "function"}
      BY <1>2, <2>1, <2>4 DEF Jumping, Declarers
    <3>2. LET q == o \o <<x>> IN
          Landing(q) /\ Labels(q) = Labels(o) /\ Jumps(q) = Jumps(o)
      BY <3>1, QuietAdded
    <3> QED BY <2>1, <2>4, <3>2
  <2> QED BY <2>3, <2>4
<1> QED BY <1>1, <1>2

LEMMA JumpLeaves ==
  ASSUME EmitInv, JumpInv, LeaveEmitted, UNCHANGED vars
  PROVE  JumpInv'
<1> DEFINE n == Emitted.node
           k == Emitted.next
           L == Labels(oil)
           J == Jumps(oil)
           A == Owed(ast, n, k)
           q == oil \o CodeAfter(n)
           last == Len(emits) = 1
<1>1. /\ jobs # <<>> /\ emits # <<>> /\ ast' = ast
      /\ k = Len(Below(ast, n)) + 1
      /\ \/ UNCHANGED <<jobs, emits, oil>>
         \/ /\ emits' = Front(emits)
            /\ ~ last => oil' = q /\ jobs' = jobs /\ Front(emits) # <<>>
            /\ last => /\ oil' = q \o Closing(Head(jobs), NewName(n))
                       /\ jobs' = Tail(jobs) /\ emits' = <<>>
  BY LeaveIs DEF vars
<1>2. /\ Emitted = emits[Len(emits)] /\ n \in DOMAIN ast /\ k \in Nat \ {0}
      /\ Descent(ast, emits) /\ Len(emits) \in 1..Len(emits)
  BY <1>1, EmittedIs
<1>3. WellFormed(ast, Name) /\ IsSeq(oil) /\ Landing(oil) /\ Owing(ast, L, J, emits)
  BY EmitTree DEF JumpInv
<1>4. /\ Head(jobs).what \in Declarers \cup Bodies
      /\ Head(jobs).what \in Declarers => Targets(ast, n) = {}
  BY <1>1, JobUnderWay
<1>5. CASE UNCHANGED <<jobs, emits, oil>>
  BY <1>1, <1>5 DEF JumpInv, Unlabelled
<1>6. CASE ~ UNCHANGED <<jobs, emits, oil>>
  <2>1. \A t \in Owed(ast, n, k) : t \notin Labels(oil)
    <3>1. OwedBy(ast, emits[Len(emits)]) = Owed(ast, n, k)
      BY <1>2 DEF OwedBy
    <3>2. Owed(ast, n, k) \subseteq Targets(ast, n)
      BY TargetsAre
    <3> QED BY <1>2, <1>3, <3>1, <3>2 DEF Owing
  <2>2. /\ Landing(q) /\ Labels(q) = L \cup A
        /\ \E B \in SUBSET Targets(ast, n) : Jumps(q) = J \cup B
    <3> HIDE DEF n, k
    <3>1. k = Len(Below(ast, n)) + 1
      BY <1>1
    <3> QED BY <1>2, <1>3, <2>1, <3>1, AfterWrites
  <2>3. IsSeq(q)
    BY <1>3, CodeFew, FewAppended
  <2>4. PICK B \in SUBSET Targets(ast, n) : Jumps(q) = J \cup B
    BY <2>2
  <2> HIDE DEF L, J, q
  <2>5. n = emits[Len(emits)].node /\ k = emits[Len(emits)].next
    BY <1>2
  <2>6. Owing(ast, L \cup A, J \cup B, Front(emits))
    <3> HIDE DEF n, k
    <3> QED BY <1>1, <1>2, <1>3, <2>5, OwingLeaves
  <2>7. Owing(ast, Labels(q), Jumps(q), Front(emits))
    BY <2>2, <2>4, <2>6
  <2>8. Head(jobs).what \in Bodies => Passed(ast, Labels(q), Front(emits))
    <3> SUFFICES ASSUME Head(jobs).what \in Bodies
                 PROVE  Passed(ast, L \cup A, Front(emits))
      BY <2>2
    <3>1. Passed(ast, L, emits)
      BY <1>1 DEF JumpInv, L
    <3>2. \A t \in A : t[2] = emits[Len(emits)].node
      BY <1>2, TargetsAre
    <3> HIDE DEF A
    <3>3. Passed(ast, L \cup A, emits)
      BY <1>1, <1>2, <1>3, <3>1, <3>2, PassedGrows
    <3> QED BY <1>1, <1>2, <1>3, <3>3, PassedLeaves
  <2>9. Head(jobs).what \in Declarers \ {"function"} => Labels(q) = {}
    <3> SUFFICES ASSUME Head(jobs).what \in Declarers \ {"function"}
                 PROVE  Labels(q) = {}
      OBVIOUS
    <3>1. L = {}
      BY <1>1 DEF JumpInv, Unlabelled, Declarers, L
    <3>2. A = {}
      BY <1>4, TargetsAre
    <3> QED BY <2>2, <3>1, <3>2
  <2>10. CASE ~ last
    <3>1. /\ oil' = q /\ jobs' = jobs /\ emits' = Front(emits)
          /\ Front(emits) # <<>>
      BY <1>1, <1>6, <2>10
    <3>2. Unlabelled'
      <4>1. CASE Head(jobs).what \in Bodies
        BY <3>1, <4>1 DEF Unlabelled, Bodies
      <4>2. CASE Head(jobs).what = "function"
        BY <3>1, <4>2 DEF Unlabelled
      <4>3. CASE Head(jobs).what \in Declarers \ {"function"}
        BY <2>9, <3>1, <4>3 DEF Unlabelled
      <4> QED BY <1>4, <4>1, <4>2, <4>3
    <3> QED BY <1>1, <2>2, <2>7, <2>8, <3>1, <3>2 DEF JumpInv
  <2>11. CASE last
    <3> DEFINE job == Head(jobs)
    <3>1. /\ oil' = q \o Closing(job, NewName(n)) /\ jobs' = Tail(jobs)
          /\ emits' = <<>> /\ Front(emits) = <<>>
      BY <1>1, <1>6, <2>11
    <3>2. Jumps(q) \subseteq Labels(q)
      BY <2>7, <3>1, NothingOwed
    <3>3. /\ Landing(oil') /\ Jumps(oil') \subseteq Labels(oil')
          /\ job.what = "function" => Labels(oil') = {}
          /\ job.what # "function" => Labels(oil') = Labels(q)
      <4>1. job.what \in Declarers \cup Bodies
        BY <1>4
      <4> HIDE DEF job
      <4> QED BY <2>2, <2>3, <3>1, <3>2, <4>1, JobCloses
    <3>4. Owing(ast, Labels(oil'), Jumps(oil'), emits')
      BY <3>1, <3>3, NothingOwed
    <3>5. Unlabelled'
      <4>1. CASE job.what \in Bodies
        BY <1>1, <3>1, <4>1, NextJob DEF EmitInv, Unlabelled, Bodies
      <4>2. CASE job.what = "function"
        BY <3>3, <4>2 DEF Unlabelled
      <4>3. CASE job.what \in Declarers \ {"function"}
        BY <2>9, <3>3, <4>3 DEF Unlabelled
      <4> QED BY <1>4, <4>1, <4>2, <4>3
    <3> QED BY <1>1, <3>1, <3>3, <3>4, <3>5 DEF JumpInv
  <2> QED BY <2>10, <2>11
<1> QED BY <1>1, <1>5, <1>6

LEMMA JumpInvStep ==
  EmitInv /\ JumpInv /\ [\/ Next /\ UNCHANGED emitVars
                         \/ EmitNext /\ UNCHANGED vars]_<<vars, emitVars>>
    => JumpInv'
<1> SUFFICES ASSUME EmitInv, JumpInv,
                    [\/ Next /\ UNCHANGED emitVars
                     \/ EmitNext /\ UNCHANGED vars]_<<vars, emitVars>>
             PROVE  JumpInv'
  OBVIOUS
<1>1. \/ UNCHANGED vars /\ EmitNext
      \/ UNCHANGED emitVars /\ ast' = ast
  BY StepKinds DEF EmitInv, vars
<1>2. CASE UNCHANGED vars /\ EmitNext
  BY <1>2, JumpBegins, JumpIterates, JumpBeginsJob, JumpEnters, JumpLeaves
     DEF EmitNext
<1>3. CASE UNCHANGED emitVars /\ ast' = ast
  BY <1>3 DEF JumpInv, Unlabelled, emitVars
<1> QED BY <1>1, <1>2, <1>3

LEMMA JumpInvInit == EmitInit => JumpInv
<1> SUFFICES ASSUME EmitInit  PROVE JumpInv
  OBVIOUS
<1>1. jobs = <<>> /\ emits = <<>> /\ oil = <<>>
  BY DEF EmitInit
<1>2. Labels(<<>>) = {} /\ Jumps(<<>>) = {} /\ Landing(<<>>)
  BY DEF Labels, Jumps, Current, Landing
<1> QED BY <1>1, <1>2, NothingOwed DEF JumpInv, Unlabelled

(* FunctionAt tells the functions apart. *)
LEMMA FunctionsDiffer ==
  ASSUME IsSeq(oil), NEW i \in 1..Len(oil), NEW j \in 1..Len(oil)
  PROVE  FunctionAt(i) = FunctionAt(j) <=> Same(oil, i, j)
<1> DEFINE S(m) == {0} \cup {x \in 1..m : oil[x].op = "function"}
<1>1. Len(oil) \in Nat /\ i \in Nat /\ j \in Nat
  BY SeqFacts
<1>2. ASSUME NEW m \in 1..Len(oil)
      PROVE  /\ FunctionAt(m) = Max(S(m)) /\ Max(S(m)) \in S(m)
             /\ \A x \in S(m) : x <= Max(S(m))
  <2>1. \E x \in S(m) : \A y \in S(m) : y <= x
    <3>1. CASE S(m) = {0}
      BY <3>1
    <3>2. CASE S(m) # {0}
      <4> DEFINE T == {x \in 1..m : oil[x].op = "function"}
      <4>1. T \in SUBSET (1..m) /\ T # {} /\ m \in Nat
        BY <1>1, <3>2
      <4>2. PICK x \in T : \A y \in T : y <= x
        <5> HIDE DEF T
        <5> QED BY <4>1, Greatest
      <4>3. x \in S(m) /\ \A y \in S(m) : y <= x
        BY <1>1, <4>2
      <4> QED BY <4>3
    <3> QED BY <3>1, <3>2
  <2>2. FunctionAt(m) = Max(S(m))
    BY DEF FunctionAt
  <2> HIDE DEF S
  <2> QED BY <2>1, <2>2 DEF Max
<1>3. ASSUME NEW x \in 1..Len(oil), NEW y \in 1..Len(oil), x <= y
      PROVE  FunctionAt(x) = FunctionAt(y) <=> Same(oil, x, y)
  <2>1. ASSUME Same(oil, x, y)  PROVE S(x) = S(y)
    BY <1>1, <1>3, <2>1 DEF Same
  <2>2. ASSUME ~ Same(oil, x, y)  PROVE FunctionAt(x) # FunctionAt(y)
    <3>1. PICK z \in 1..Len(oil) : x < z /\ z <= y /\ oil[z].op = "function"
      BY <1>1, <1>3, <2>2 DEF Same
    <3>2. z \in S(y) /\ z \in Nat
      BY <1>1, <3>1
    <3>3. z <= FunctionAt(y) /\ FunctionAt(y) \in Nat
      <4>1. FunctionAt(y) \in S(y) /\ z <= FunctionAt(y)
        <5> HIDE DEF S
        <5> QED BY <1>2, <3>2
      <4> QED BY <1>1, <4>1
    <3>4. FunctionAt(x) <= x /\ FunctionAt(x) \in Nat
      <4>1. FunctionAt(x) \in S(x)
        <5> HIDE DEF S
        <5> QED BY <1>2
      <4> QED BY <1>1, <4>1
    <3> QED BY <1>1, <3>1, <3>2, <3>3, <3>4
  <2>3. FunctionAt(x) = Max(S(x)) /\ FunctionAt(y) = Max(S(y))
    BY <1>2
  <2> HIDE DEF S
  <2> QED BY <2>1, <2>2, <2>3
<1>4. Same(oil, i, j) <=> Same(oil, j, i)
  BY DEF Same
<1> HIDE DEF S
<1> QED BY <1>1, <1>3, <1>4

(* Every function has the labels that it jumps to, once. *)
THEOREM JumpsCorrect == EmitSpec => []JumpsLand
<1>1. EmitInv /\ JumpInv => JumpsLand
  <2> SUFFICES ASSUME EmitInv, JumpInv, Compiled,
                      NEW i \in DOMAIN oil, oil[i].op \in {"goto", "unless"}
               PROVE  Cardinality({j \in DOMAIN oil :
                                     /\ oil[j].op = "label"
                                     /\ oil[j].label = oil[i].label
                                     /\ FunctionAt(j) = FunctionAt(i)}) = 1
    BY DEF JumpsLand
  <2> DEFINE S == {j \in DOMAIN oil : /\ oil[j].op = "label"
                                      /\ oil[j].label = oil[i].label
                                      /\ FunctionAt(j) = FunctionAt(i)}
  <2>1. IsSeq(oil) /\ Len(oil) \in Nat /\ DOMAIN oil = 1..Len(oil) /\ Landing(oil)
    BY EmitTree, SeqFacts DEF JumpInv
  <2>2. Jumps(oil) \subseteq Labels(oil)
    <3>1. emits = <<>>
      BY DEF Compiled, EmitInv, Stacked
    <3> QED BY <3>1, NothingOwed DEF JumpInv
  <2>3. \E j \in 1..Len(oil) : /\ oil[j].op = "label"
                               /\ oil[j].label = oil[i].label /\ Same(oil, i, j)
    <3>1. CASE i \in Current(oil)
      <4>1. oil[i].label \in Labels(oil)
        BY <2>2, <3>1 DEF Jumps, Jumping
      <4>2. PICK j \in Current(oil) : /\ oil[j].op = "label"
                                      /\ oil[j].label = oil[i].label
        BY <4>1 DEF Labels
      <4>3. j \in 1..Len(oil)
        BY <4>2 DEF Current
      <4> QED BY <2>1, <3>1, <4>2, <4>3, SameCurrent
    <3>2. CASE i \notin Current(oil)
      BY <2>1, <3>2 DEF Landing, Jumping
    <3> QED BY <3>1, <3>2
  <2>4. PICK j \in 1..Len(oil) : /\ oil[j].op = "label"
                                 /\ oil[j].label = oil[i].label
                                 /\ Same(oil, i, j)
    BY <2>3
  <2>5. j \in S
    BY <2>1, <2>4, FunctionsDiffer
  <2>6. ASSUME NEW m \in S  PROVE m = j
    <3>1. /\ m \in 1..Len(oil) /\ oil[m].op = "label"
          /\ oil[m].label = oil[j].label
          /\ FunctionAt(m) = FunctionAt(j)
      BY <2>1, <2>4, <2>5, <2>6
    <3>2. Same(oil, m, j)
      BY <2>1, <2>4, <3>1, FunctionsDiffer
    <3> QED BY <2>1, <2>4, <3>1, <3>2 DEF Landing
  <2>7. S = {j}
    BY <2>5, <2>6
  <2> QED BY <2>7, FS_Singleton
<1>2. EmitInv /\ JumpInv /\ [\/ Next /\ UNCHANGED emitVars
                             \/ EmitNext /\ UNCHANGED vars]_<<vars, emitVars>>
        => JumpInv'
  BY JumpInvStep
<1> QED BY <1>1, <1>2, JumpInvInit, EmitCorrect, PTL DEF EmitSpec
=============================================================================
