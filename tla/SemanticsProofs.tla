-------------------------- MODULE SemanticsProofs --------------------------
(***************************************************************************)
(* Proofs about the semantic pass, for every program that the parser       *)
(* builds.  First the traversal: it meets the nodes in the order of the    *)
(* text, so it declares no node twice; it closes every block it opens; and *)
(* so it uses the symbol tables as Scopes allows.  Then the data: what the *)
(* variables hold, and what a step does to the error count.                *)
(***************************************************************************)
EXTENDS SemanticsProperties, ScopesProofs, FiniteSetTheorems, SequenceTheorems

-----------------------------------------------------------------------------
(* Trees. *)

Kids(p, n) == Range(p[n].children)

(* Every child is a later node, and later than its elder siblings. *)
LEMMA KidsFollow ==
  ASSUME NEW p, NEW names, WellFormed(p, names), NEW n \in DOMAIN p
  PROVE  /\ DOMAIN p \subseteq Nat
         /\ p[n].children \in Seq(DOMAIN p)
         /\ \A i \in 1..Len(p[n].children) : n < p[n].children[i]
         /\ \A i, j \in 1..Len(p[n].children) :
              i < j => p[n].children[i] < p[n].children[j]
<1>1. /\ DOMAIN p \subseteq Nat /\ p[n].children \in Seq(Nat)
      /\ InOrder(p, n)
  BY DEF WellFormed
<1> DEFINE kids == p[n].children
<1>2. kids \in [1..Len(kids) -> Nat] /\ Len(kids) \in Nat
  BY <1>1
<1>3. \A i \in 1..Len(kids) :
        /\ kids[i] \in DOMAIN p /\ n < kids[i]
        /\ \A j \in 1..Len(kids) : i < j => kids[i] < kids[j]
  BY <1>1, <1>2 DEF InOrder
<1>4. kids \in Seq(DOMAIN p)
  BY <1>2, <1>3
<1> QED BY <1>1, <1>3, <1>4

(* What is below a node comes before the node's younger siblings. *)
LEMMA KidsNest ==
  ASSUME NEW p, NEW names, WellFormed(p, names),
         NEW n \in DOMAIN p, NEW c \in Kids(p, n),
         NEW m \in DOMAIN p, n < m, m < c, NEW e \in Kids(p, m)
  PROVE  e < c
<1>1. DOMAIN p \subseteq Nat /\ InOrder(p, n)
  BY DEF WellFormed
<1>2. PICK i \in DOMAIN p[n].children : c = p[n].children[i]
  BY DEF Kids, Range
<1>3. c \in Nat /\ n \in Nat /\ m \in Nat
  BY <1>1, <1>2 DEF InOrder
<1>4. m \in n + 1..c - 1
  BY <1>3
<1> QED BY <1>1, <1>2, <1>4 DEF InOrder, Kids

LEMMA KidsType ==
  ASSUME NEW p, NEW names, WellFormed(p, names),
         NEW n \in DOMAIN p, NEW c \in Kids(p, n)
  PROVE  c \in DOMAIN p /\ c \in Nat /\ n \in Nat /\ n < c
BY KidsFollow DEF Kids, Range

(* A node has one parent. *)
LEMMA OneParent ==
  ASSUME NEW p, NEW names, WellFormed(p, names),
         NEW n \in DOMAIN p, NEW m \in DOMAIN p,
         NEW c, c \in Kids(p, n), c \in Kids(p, m)
  PROVE  n = m
<1>1. n \in Nat /\ m \in Nat /\ c \in Nat /\ n < c /\ m < c
  BY KidsType
<1>2. ~ (n < m) /\ ~ (m < n)
  BY <1>1, KidsNest
<1> QED BY <1>1, <1>2

-----------------------------------------------------------------------------
(* The order of the traversal. *)

Body(p, n) == p[n].children[3]

(* Visits(n), of the tree p. *)
Path(p, n) ==
  CASE p[n].symbol = "TOK_FUNCTION" ->
         <<p[n].children[2]>> \o p[Body(p, n)].children
    [] p[n].symbol \in {"TOK_PROTOTYPE", "TOK_NEWARRAY"} ->
         <<p[n].children[2]>>
    [] p[n].symbol = "TOK_NEW" -> <<>>
    [] OTHER -> p[n].children

LEMMA VisitsArePath == ASSUME NEW n PROVE Visits(n) = Path(ast, n)
BY DEF Visits, Path, Body, symbol, child, children

IsBody(p, n, m) == p[n].symbol = "TOK_FUNCTION" /\ m = Body(p, n)

LEMMA BodyIsKid ==
  ASSUME NEW p, NEW names, WellFormed(p, names),
         NEW n \in DOMAIN p, p[n].symbol = "TOK_FUNCTION"
  PROVE  /\ Body(p, n) \in Kids(p, n) /\ Body(p, n) \in DOMAIN p
         /\ p[Body(p, n)].symbol = "TOK_BLOCK"
<1>1. Built(p, n) /\ p[n].children \in Seq(DOMAIN p)
  BY KidsFollow DEF WellFormed
<1>2. Len(p[n].children) = 3 /\ p[p[n].children[3]].symbol = "TOK_BLOCK"
  BY <1>1 DEF Built
<1>3. 3 \in DOMAIN p[n].children
  BY <1>1, <1>2
<1> QED BY <1>1, <1>2, <1>3 DEF Kids, Range, Body

(* The traversal goes from a node to children or children of its body, in  *)
(* order.                                                                  *)
LEMMA PathFollows ==
  ASSUME NEW p, NEW names, WellFormed(p, names), NEW n \in DOMAIN p
  PROVE  /\ Path(p, n) \in Seq(DOMAIN p)
         /\ \A i \in 1..Len(Path(p, n)) :
              /\ n < Path(p, n)[i]
              /\ \/ /\ Path(p, n)[i] \in Kids(p, n)
                    /\ ~ IsBody(p, n, Path(p, n)[i])
                 \/ /\ p[n].symbol = "TOK_FUNCTION"
                    /\ Body(p, n) \in Kids(p, n)
                    /\ Path(p, n)[i] \in Kids(p, Body(p, n))
         /\ \A i, j \in 1..Len(Path(p, n)) :
              i < j => Path(p, n)[i] < Path(p, n)[j]
<1> DEFINE kids == p[n].children
<1>1. /\ DOMAIN p \subseteq Nat /\ kids \in Seq(DOMAIN p)
      /\ \A i \in 1..Len(kids) : n < kids[i]
      /\ \A i, j \in 1..Len(kids) : i < j => kids[i] < kids[j]
      /\ \A i \in 1..Len(kids) : kids[i] \in Kids(p, n)
  BY KidsFollow DEF Kids, Range
<1>2. Built(p, n)
  BY DEF WellFormed
<1>3. CASE p[n].symbol = "TOK_FUNCTION"
  <2> DEFINE b == Body(p, n)
             rest == p[b].children
             s == <<kids[2]>> \o rest
  <2>1. Len(kids) = 3
    BY <1>2, <1>3 DEF Built
  <2>2. /\ kids[2] \in DOMAIN p /\ kids[2] < b /\ n < kids[2]
        /\ b \in DOMAIN p /\ b \in Kids(p, n) /\ kids[2] \in Kids(p, n)
    BY <1>1, <2>1 DEF Body
  <2> HIDE DEF b
  <2>3. /\ rest \in Seq(DOMAIN p)
        /\ \A i \in 1..Len(rest) : b < rest[i]
        /\ \A i, j \in 1..Len(rest) : i < j => rest[i] < rest[j]
        /\ \A i \in 1..Len(rest) : rest[i] \in Kids(p, b)
    <3>1. /\ rest \in Seq(DOMAIN p)
          /\ \A i \in 1..Len(rest) : b < rest[i]
          /\ \A i, j \in 1..Len(rest) : i < j => rest[i] < rest[j]
      BY <2>2, KidsFollow
    <3>2. \A i \in 1..Len(rest) : rest[i] \in Kids(p, b)
      BY <3>1 DEF Kids, Range
    <3> QED BY <3>1, <3>2
  <2> HIDE DEF rest
  <2>4. /\ s \in Seq(DOMAIN p) /\ Len(s) = 1 + Len(rest) /\ s[1] = kids[2]
        /\ \A i \in 1..Len(rest) : s[i + 1] = rest[i]
    BY <2>2, <2>3
  <2> HIDE DEF s
  <2>5. \A i \in 1..Len(s) :
          i = 1 \/ (i - 1 \in 1..Len(rest) /\ s[i] = rest[i - 1])
    <3> SUFFICES ASSUME NEW i \in 1..Len(s), i # 1
                 PROVE  i - 1 \in 1..Len(rest) /\ s[i] = rest[i - 1]
      OBVIOUS
    <3>1. i - 1 \in 1..Len(rest) /\ (i - 1) + 1 = i
      BY <2>3, <2>4
    <3> QED BY <3>1, <2>4
  <2>6. \A i \in 1..Len(s) :
          /\ n < s[i] /\ s[i] \in DOMAIN p /\ (i # 1 => b < s[i])
          /\ \/ s[i] \in Kids(p, n) /\ s[i] # b
             \/ s[i] \in Kids(p, b)
    <3> SUFFICES ASSUME NEW i \in 1..Len(s)
                 PROVE /\ n < s[i] /\ s[i] \in DOMAIN p /\ (i # 1 => b < s[i])
                       /\ \/ s[i] \in Kids(p, n) /\ s[i] # b
                          \/ s[i] \in Kids(p, b)
      OBVIOUS
    <3>1. CASE i = 1
      <4>1. kids[2] \in Nat /\ b \in Nat
        BY <1>1, <2>2
      <4> QED BY <2>2, <2>4, <3>1, <4>1
    <3>2. CASE i # 1
      <4>1. b < s[i] /\ s[i] \in Kids(p, b) /\ s[i] \in DOMAIN p
        BY <2>3, <2>5, <3>2
      <4>2. n \in Nat /\ b \in Nat /\ n < b
        BY <2>2, KidsType
      <4> QED BY <1>1, <4>1, <4>2
    <3> QED BY <3>1, <3>2
  <2>7. \A i, j \in 1..Len(s) : i < j => s[i] < s[j]
    <3> SUFFICES ASSUME NEW i \in 1..Len(s), NEW j \in 1..Len(s), i < j
                 PROVE  s[i] < s[j]
      OBVIOUS
    <3>1. CASE i = 1
      <4>1. kids[2] \in Nat /\ b \in Nat /\ s[j] \in Nat /\ b < s[j]
        BY <1>1, <2>2, <2>6, <3>1
      <4> QED BY <2>2, <2>4, <3>1, <4>1
    <3>2. CASE i # 1
      <4>1. i - 1 \in 1..Len(rest) /\ j - 1 \in 1..Len(rest) /\ i - 1 < j - 1
        BY <2>3, <2>4, <3>2
      <4> QED BY <2>3, <2>5, <3>2, <4>1
    <3> QED BY <3>1, <3>2
  <2>8. Path(p, n) = s /\ b = Body(p, n)
    BY <1>3 DEF Path, s, rest, b
  <2> QED BY <1>3, <2>2, <2>4, <2>6, <2>7, <2>8 DEF IsBody
<1>4. CASE p[n].symbol \in {"TOK_PROTOTYPE", "TOK_NEWARRAY"}
  <2>1. Len(kids) = 2 /\ 2 \in 1..Len(kids)
    <3>1. CASE p[n].symbol = "TOK_PROTOTYPE"
      BY <1>2, <3>1 DEF Built
    <3>2. CASE p[n].symbol = "TOK_NEWARRAY"
      BY <1>2, <3>2 DEF Built
    <3> QED BY <1>4, <3>1, <3>2
  <2>2. Path(p, n) = <<kids[2]>>
    BY <1>4 DEF Path
  <2> QED BY <1>1, <1>4, <2>1, <2>2 DEF IsBody
<1>5. CASE p[n].symbol = "TOK_NEW"
  BY <1>5 DEF Path
<1>6. CASE p[n].symbol \notin {"TOK_FUNCTION", "TOK_PROTOTYPE", "TOK_NEWARRAY",
                               "TOK_NEW"}
  <2>1. Path(p, n) = kids
    BY <1>6 DEF Path
  <2> QED BY <1>1, <1>6, <2>1 DEF IsBody
<1> QED BY <1>3, <1>4, <1>5, <1>6

(* What is below a node that the traversal meets comes before what it      *)
(* meets next, at every level of the call stack.                           *)
LEMMA PathNests ==
  ASSUME NEW p, NEW names, WellFormed(p, names),
         NEW n \in DOMAIN p, NEW i \in 1..Len(Path(p, n)),
         NEW m \in DOMAIN p, n < m, m < Path(p, n)[i], ~ IsBody(p, n, m),
         NEW e \in Kids(p, m)
  PROVE  e < Path(p, n)[i]
<1> DEFINE c == Path(p, n)[i]
           b == Body(p, n)
<1>1. /\ \/ c \in Kids(p, n)
         \/ p[n].symbol = "TOK_FUNCTION" /\ b \in Kids(p, n) /\ c \in Kids(p, b)
      /\ c \in DOMAIN p
  BY PathFollows
<1> HIDE DEF c
<1>2. CASE c \in Kids(p, n)
  BY <1>2, KidsNest DEF c
<1>3. CASE p[n].symbol = "TOK_FUNCTION" /\ b \in Kids(p, n) /\ c \in Kids(p, b)
  <2> HIDE DEF b
  <2>1. /\ b \in DOMAIN p /\ b \in Nat /\ m \in Nat /\ c \in Nat /\ b < c
        /\ e \in Nat
    BY <1>3, KidsType
  <2>2. m # b
    BY <1>3 DEF IsBody, b
  <2>3. CASE m < b
    <3>1. e < b
      BY <1>3, <2>3, KidsNest
    <3> QED BY <2>1, <3>1 DEF c
  <2>4. CASE b < m
    BY <1>3, <2>1, <2>4, KidsNest DEF c
  <2> QED BY <2>1, <2>2, <2>3, <2>4
<1> QED BY <1>1, <1>2, <1>3

LEMMA PathNestsTwice ==
  ASSUME NEW p, NEW names, WellFormed(p, names),
         NEW n \in DOMAIN p, NEW i \in 1..Len(Path(p, n)),
         NEW m \in DOMAIN p, n < m, m < Path(p, n)[i], ~ IsBody(p, n, m),
         NEW e \in Kids(p, m), NEW g \in Kids(p, e)
  PROVE  g < Path(p, n)[i]
<1>1. e < Path(p, n)[i]
  BY PathNests
<1>2. e \in DOMAIN p /\ n < e
  <2>1. e \in DOMAIN p /\ e \in Nat /\ m \in Nat /\ n \in Nat /\ m < e
    BY KidsFollow, KidsType
  <2> QED BY <2>1
<1>3. ~ IsBody(p, n, e)
  <2> SUFFICES ASSUME IsBody(p, n, e) PROVE FALSE
    OBVIOUS
  <2>1. e \in Kids(p, n)
    BY BodyIsKid DEF IsBody
  <2>2. n = m
    BY <2>1, OneParent
  <2>3. n \in Nat
    BY KidsFollow
  <2> QED BY <2>2, <2>3
<1> QED BY <1>1, <1>2, <1>3, PathNests

-----------------------------------------------------------------------------
(* The call stack. *)

Frames(p) == [node : DOMAIN p, next : Nat \ {0}]

(* The nodes a frame has still to visit. *)
Todo(p, f) == {Path(p, f.node)[k] : k \in f.next..Len(Path(p, f.node))}

(* x lies behind all that is still to be visited. *)
Behind(p, cs, x) == \A i \in 1..Len(cs) : \A r \in Todo(p, cs[i]) : x < r

(* The nodes of the frames are in the order of the text, an inner frame    *)
(* has to do with what comes before all that is left to the outer ones.    *)
Nested(p, cs) ==
  \A i, j \in 1..Len(cs) : i < j =>
    /\ cs[i].node < cs[j].node
    /\ \A r \in Todo(p, cs[i]) :
         cs[j].node < r /\ \A q \in Todo(p, cs[j]) : q < r

LEMMA TodoFollows ==
  ASSUME NEW p, NEW names, WellFormed(p, names), NEW f \in Frames(p),
         NEW r \in Todo(p, f)
  PROVE  /\ r \in DOMAIN p /\ r \in Nat
         /\ f.node \in DOMAIN p /\ f.node \in Nat /\ f.node < r
         /\ \E i \in 1..Len(Path(p, f.node)) : r = Path(p, f.node)[i]
<1>1. /\ f.node \in DOMAIN p /\ f.next \in Nat \ {0}
      /\ DOMAIN p \subseteq Nat
  BY KidsFollow DEF Frames
<1>2. PICK k \in f.next..Len(Path(p, f.node)) : r = Path(p, f.node)[k]
  BY DEF Todo
<1>3. /\ Path(p, f.node) \in Seq(DOMAIN p)
      /\ \A i \in 1..Len(Path(p, f.node)) : f.node < Path(p, f.node)[i]
  BY <1>1, PathFollows
<1>4. k \in 1..Len(Path(p, f.node))
  BY <1>1, <1>3
<1> QED BY <1>1, <1>2, <1>3, <1>4

(* Everything below m, to the depth of two. *)
BelowBehind(p, cs, m) ==
  \A e \in Kids(p, m) :
    Behind(p, cs, e) /\ \A g \in Kids(p, e) : Behind(p, cs, g)

(* The frames, once the innermost went on to its next node. *)
AdvancedIn(cs) == [cs EXCEPT ![Len(cs)].next = @ + 1]

(* The next node of the innermost frame comes after all nodes on the stack *)
(* and before all others that are still to be visited, and so does what is *)
(* below it.                                                               *)
LEMMA Advance ==
  ASSUME NEW p, NEW names, WellFormed(p, names),
         NEW cs \in Seq(Frames(p)), Nested(p, cs), cs # <<>>,
         cs[Len(cs)].next <= Len(Path(p, cs[Len(cs)].node))
  PROVE  LET f == cs[Len(cs)]
             v == Path(p, f.node)[f.next]
             as == AdvancedIn(cs)
         IN  /\ as \in Seq(Frames(p)) /\ Len(as) = Len(cs)
             /\ \A i \in 1..Len(cs) : as[i].node = cs[i].node
             /\ \A i \in 1..Len(cs) : Todo(p, as[i]) \subseteq Todo(p, cs[i])
             /\ v \in DOMAIN p /\ v \in Todo(p, f)
             /\ Nested(p, as)
             /\ \A i \in 1..Len(cs) : as[i].node < v
             /\ Behind(p, as, v)
             /\ BelowBehind(p, as, v)
<1> DEFINE k == Len(cs)
           f == cs[k]
           s == Path(p, f.node)
           v == s[f.next]
           g == [f EXCEPT !.next = @ + 1]
           as == AdvancedIn(cs)
<1>1. /\ k \in 1..Len(cs) /\ f \in Frames(p) /\ f.node \in DOMAIN p
      /\ f.next \in Nat \ {0} /\ DOMAIN p \subseteq Nat /\ k = Len(cs)
      /\ k \in Nat
  <2>1. k \in 1..Len(cs) /\ k \in Nat /\ f \in Frames(p)
    OBVIOUS
  <2> HIDE DEF f, k
  <2>2. f.node \in DOMAIN p /\ f.next \in Nat \ {0}
    BY <2>1 DEF Frames
  <2> QED BY <2>1, <2>2, KidsFollow DEF k
<1>2. /\ s \in Seq(DOMAIN p) /\ Len(s) \in Nat
      /\ \A i \in 1..Len(s) : f.node < s[i]
      /\ \A i, j \in 1..Len(s) : i < j => s[i] < s[j]
      /\ f.next \in 1..Len(s)
  <2>1. f.next <= Len(s)
    OBVIOUS
  <2> HIDE DEF f, k
  <2>2. /\ s \in Seq(DOMAIN p)
        /\ \A i \in 1..Len(s) : f.node < s[i]
        /\ \A i, j \in 1..Len(s) : i < j => s[i] < s[j]
    BY <1>1, PathFollows
  <2> QED BY <1>1, <2>1, <2>2
<1>3. g \in Frames(p) /\ g.node = f.node /\ g.next = f.next + 1
  BY <1>1 DEF Frames
<1>4. as = [cs EXCEPT ![k] = g]
  BY DEF AdvancedIn
<1>5. /\ as \in Seq(Frames(p)) /\ Len(as) = Len(cs) /\ as[k] = g
      /\ \A i \in 1..Len(cs) : i # k => as[i] = cs[i]
      /\ \A i \in 1..Len(cs) : cs[i] \in Frames(p) /\ as[i] \in Frames(p)
  <2> HIDE DEF g, k, as
  <2>1. /\ as \in Seq(Frames(p)) /\ Len(as) = Len(cs) /\ as[k] = g
        /\ \A i \in 1..Len(cs) : i # k => as[i] = cs[i]
    BY <1>1, <1>3, <1>4
  <2> QED BY <2>1, ElementOfSeq
<1>6. v \in DOMAIN p /\ v \in Todo(p, f) /\ v \in Nat
  <2>1. f.next \in f.next..Len(s)
    BY <1>1, <1>2
  <2> QED BY <1>1, <1>2, <2>1 DEF Todo
<1>7. Todo(p, g) \subseteq Todo(p, f) /\ \A r \in Todo(p, g) : v < r
  <2>1. SUFFICES ASSUME NEW i \in f.next + 1..Len(s)
                 PROVE  i \in f.next..Len(s) /\ v < s[i]
    BY <1>3 DEF Todo
  <2>2. i \in 1..Len(s) /\ f.next < i
    BY <1>1, <1>2
  <2> QED BY <1>2, <2>2
<1> HIDE DEF g, v, s, f, k, as
<1>8. \A i \in 1..Len(cs) :
        as[i].node = cs[i].node /\ Todo(p, as[i]) \subseteq Todo(p, cs[i])
  BY <1>3, <1>5, <1>7 DEF f
<1>9. Nested(p, as)
  BY <1>5, <1>8 DEF Nested
<1>10. \A i \in 1..Len(cs) : as[i].node < v
  <2> SUFFICES ASSUME NEW i \in 1..Len(cs) PROVE cs[i].node < v
    BY <1>8
  <2>1. f.node < v
    BY <1>1, <1>6, TodoFollows
  <2>2. CASE i = k
    BY <2>1, <2>2 DEF f
  <2>3. CASE i # k
    <3>1. cs[i].node < f.node /\ cs[i] \in Frames(p)
      BY <1>1, <2>3 DEF Nested, f
    <3>2. cs[i].node \in Nat /\ f.node \in Nat
      BY <1>1, <3>1 DEF Frames
    <3> QED BY <1>6, <2>1, <3>1, <3>2
  <2> QED BY <2>2, <2>3
<1>11. Behind(p, as, v)
  <2> SUFFICES ASSUME NEW i \in 1..Len(cs), NEW r \in Todo(p, as[i])
               PROVE  v < r
    BY <1>5 DEF Behind
  <2>1. CASE i = k
    BY <1>5, <1>7, <2>1
  <2>2. CASE i # k
    <3>1. Todo(p, as[i]) = Todo(p, cs[i]) /\ i < k /\ i \in 1..Len(cs)
      <4>1. as[i] = cs[i]
        BY <1>5, <2>2
      <4>2. i < k
        BY <1>1, <2>2
      <4> QED BY <4>1, <4>2
    <3>2. \A x \in Todo(p, cs[i]) : \A q \in Todo(p, cs[k]) : q < x
      BY <1>1, <3>1 DEF Nested
    <3> QED BY <1>6, <3>1, <3>2 DEF f
  <2> QED BY <2>1, <2>2
<1>12. \A i \in 1..Len(cs) : ~ IsBody(p, as[i].node, v)
  <2> SUFFICES ASSUME NEW i \in 1..Len(cs), IsBody(p, as[i].node, v)
               PROVE  FALSE
    OBVIOUS
  <2> DEFINE n == as[i].node
  <2>1. n \in DOMAIN p /\ p[n].symbol = "TOK_FUNCTION" /\ v = Body(p, n)
    BY <1>5 DEF Frames, IsBody
  <2>2. p[v].symbol = "TOK_BLOCK" /\ v \in Kids(p, n)
    BY <2>1, BodyIsKid
  <2>3. \/ v \in Kids(p, f.node) /\ ~ IsBody(p, f.node, v)
        \/ /\ p[f.node].symbol = "TOK_FUNCTION"
           /\ Body(p, f.node) \in Kids(p, f.node)
           /\ v \in Kids(p, Body(p, f.node))
    BY <1>1, <1>2, PathFollows DEF v, s
  <2>4. CASE v \in Kids(p, f.node) /\ ~ IsBody(p, f.node, v)
    <3>1. n = f.node
      BY <1>1, <1>6, <2>1, <2>2, <2>4, OneParent
    <3> QED BY <2>4, <3>1
  <2>5. CASE /\ p[f.node].symbol = "TOK_FUNCTION"
             /\ Body(p, f.node) \in Kids(p, f.node)
             /\ v \in Kids(p, Body(p, f.node))
    <3>1. Body(p, f.node) \in DOMAIN p
      BY <1>1, <2>5, KidsType
    <3>2. n = Body(p, f.node)
      BY <1>6, <2>1, <2>2, <2>5, <3>1, OneParent
    <3>3. Built(p, f.node)
      BY <1>1 DEF WellFormed
    <3>4. p[Body(p, f.node)].symbol = "TOK_BLOCK"
      BY <2>5, <3>3 DEF Built, Body
    <3> QED BY <2>1, <3>2, <3>4
  <2> QED BY <2>3, <2>4, <2>5
<1>13. BelowBehind(p, as, v)
  <2> SUFFICES ASSUME NEW e \in Kids(p, v),
                      NEW i \in 1..Len(cs), NEW r \in Todo(p, as[i])
               PROVE  e < r /\ \A d \in Kids(p, e) : d < r
    BY <1>5 DEF BelowBehind, Behind
  <2>1. as[i] \in Frames(p)
    BY <1>5
  <2>2. PICK j \in 1..Len(Path(p, as[i].node)) : r = Path(p, as[i].node)[j]
    BY <2>1, TodoFollows
  <2>3. as[i].node \in DOMAIN p /\ as[i].node < v /\ v < r
    BY <1>5, <1>10, <1>11, <2>1 DEF Behind, Frames
  <2> QED BY <1>6, <1>12, <2>2, <2>3, PathNests, PathNestsTwice
<1> QED BY <1>5, <1>6, <1>8, <1>9, <1>10, <1>11, <1>13 DEF f, s, v, as, k

LEMMA FrontFacts ==
  ASSUME NEW S, NEW cs \in Seq(S), cs # <<>>
  PROVE  /\ Front(cs) \in Seq(S)
         /\ Len(cs) \in Nat \ {0}
         /\ Len(Front(cs)) = Len(cs) - 1
         /\ \A i \in 1..Len(cs) - 1 : Front(cs)[i] = cs[i]
         /\ Last(cs) = cs[Len(cs)] /\ Last(cs) \in S
<1>1. Len(cs) \in Nat \ {0} /\ \A i \in 1..Len(cs) : cs[i] \in S
  BY EmptySeq, ElementOfSeq
<1>2. \A i \in 1..Len(cs) - 1 : i \in 1..Len(cs)
  BY <1>1
<1>3. \A i \in 1..Len(cs) - 1 : cs[i] \in S
  BY <1>1, <1>2
<1>4. Front(cs) = SubSeq(cs, 1, Len(cs) - 1)
  BY DEF Front
<1>5. /\ SubSeq(cs, 1, Len(cs) - 1) \in Seq(S)
      /\ Len(SubSeq(cs, 1, Len(cs) - 1)) = Len(cs) - 1
      /\ \A i \in 1..Len(cs) - 1 : SubSeq(cs, 1, Len(cs) - 1)[i] = cs[i]
  <2> DEFINE k == Len(cs) - 1
  <2>1. k \in Int /\ k >= 0 /\ \A i \in 1..k : cs[i] \in S
    BY <1>1, <1>3
  <2> HIDE DEF k
  <2>2. /\ SubSeq(cs, 1, k) \in Seq(S)
        /\ Len(SubSeq(cs, 1, k)) = IF 1 <= k THEN k - 1 + 1 ELSE 0
        /\ \A i \in 1..k - 1 + 1 : SubSeq(cs, 1, k)[i] = cs[1 + i - 1]
    BY <2>1, SubSeqProperties
  <2>3. /\ Len(SubSeq(cs, 1, k)) = k
        /\ \A i \in 1..k : SubSeq(cs, 1, k)[i] = cs[i]
    BY <2>1, <2>2
  <2> QED BY <2>2, <2>3 DEF k
<1>6. Last(cs) = cs[Len(cs)] /\ Len(cs) \in 1..Len(cs)
  BY <1>1 DEF Last
<1> QED BY <1>1, <1>4, <1>5, <1>6

(* Entering a node that comes after the stack, and before what is left.    *)
LEMMA Push ==
  ASSUME NEW p, NEW cs \in Seq(Frames(p)), Nested(p, cs),
         NEW f \in Frames(p),
         \A i \in 1..Len(cs) : cs[i].node < f.node,
         Behind(p, cs, f.node), \A q \in Todo(p, f) : Behind(p, cs, q)
  PROVE  /\ Append(cs, f) \in Seq(Frames(p))
         /\ Len(Append(cs, f)) = Len(cs) + 1
         /\ Append(cs, f)[Len(cs) + 1] = f
         /\ \A i \in 1..Len(cs) : Append(cs, f)[i] = cs[i]
         /\ Nested(p, Append(cs, f))
         /\ \A x : Behind(p, cs, x) /\ (\A q \in Todo(p, f) : x < q)
                     => Behind(p, Append(cs, f), x)
<1> DEFINE as == Append(cs, f)
           k == Len(cs) + 1
<1>1. /\ as \in Seq(Frames(p)) /\ Len(as) = k /\ as[k] = f
      /\ \A i \in 1..Len(cs) : as[i] = cs[i]
      /\ Len(cs) \in Nat
  BY AppendProperties
<1>2. \A i \in 1..k : i = k \/ i \in 1..Len(cs)
  BY <1>1
<1> HIDE DEF as
<1>3. Nested(p, as)
  <2> SUFFICES ASSUME NEW i \in 1..k, NEW j \in 1..k, i < j
               PROVE  /\ as[i].node < as[j].node
                      /\ \A r \in Todo(p, as[i]) :
                           as[j].node < r /\ \A q \in Todo(p, as[j]) : q < r
    BY <1>1 DEF Nested
  <2>1. i \in 1..Len(cs) /\ as[i] = cs[i]
    <3>1. i \in 1..Len(cs)
      BY <1>1
    <3> QED BY <1>1, <3>1
  <2>2. CASE j = k
    BY <1>1, <2>1, <2>2 DEF Behind
  <2>3. CASE j # k
    <3>1. j \in 1..Len(cs) /\ as[j] = cs[j]
      BY <1>1, <1>2, <2>3
    <3> QED BY <2>1, <3>1 DEF Nested
  <2> QED BY <2>2, <2>3
<1>4. ASSUME NEW x, Behind(p, cs, x), \A q \in Todo(p, f) : x < q
      PROVE  Behind(p, as, x)
  BY <1>1, <1>2, <1>4 DEF Behind
<1> QED BY <1>1, <1>3, <1>4 DEF as

(* Leaving a node. *)
LEMMA Pop ==
  ASSUME NEW p, NEW cs \in Seq(Frames(p)), Nested(p, cs), cs # <<>>
  PROVE  /\ Front(cs) \in Seq(Frames(p))
         /\ Len(Front(cs)) = Len(cs) - 1
         /\ \A i \in 1..Len(cs) - 1 : Front(cs)[i] = cs[i]
         /\ Nested(p, Front(cs))
         /\ \A x : Behind(p, cs, x) => Behind(p, Front(cs), x)
<1> DEFINE as == Front(cs)
           k == Len(cs) - 1
<1>1. /\ as \in Seq(Frames(p)) /\ Len(as) = k
      /\ \A i \in 1..k : as[i] = cs[i]
      /\ k \in Nat /\ \A i \in 1..k : i \in 1..Len(cs)
  BY FrontFacts
<1> HIDE DEF as, k
<1> QED BY <1>1 DEF Nested, Behind, as, k

-----------------------------------------------------------------------------
(* Blocks. *)

BlockTokens == {"TOK_BLOCK", "TOK_FUNCTION", "TOK_PROTOTYPE"}

(* The frames that have a block open, and their number. *)
OpenFrames(p, cs) == {i \in 1..Len(cs) : p[cs[i].node].symbol \in BlockTokens}
Open(p, cs) == Cardinality(OpenFrames(p, cs))

LEMMA OpenType ==
  ASSUME NEW p, NEW S, NEW cs \in Seq(S)
  PROVE  IsFiniteSet(OpenFrames(p, cs)) /\ Open(p, cs) \in Nat
<1>1. IsFiniteSet(1..Len(cs))
  BY FS_Interval
<1>2. IsFiniteSet(OpenFrames(p, cs))
  BY <1>1, FS_Subset DEF OpenFrames
<1> QED BY <1>2, FS_CardinalityType DEF Open

LEMMA OpenSame ==
  ASSUME NEW p, NEW cs, NEW as, Len(as) = Len(cs),
         \A i \in 1..Len(cs) : as[i].node = cs[i].node
  PROVE  Open(p, as) = Open(p, cs)
<1>1. OpenFrames(p, as) = OpenFrames(p, cs)
  BY DEF OpenFrames
<1> QED BY <1>1 DEF Open

LEMMA OpenPush ==
  ASSUME NEW p, NEW S, NEW cs \in Seq(S), NEW f \in S
  PROVE  Open(p, Append(cs, f))
           = Open(p, cs) + IF p[f.node].symbol \in BlockTokens THEN 1 ELSE 0
<1> DEFINE as == Append(cs, f)
           k == Len(cs) + 1
<1>1. /\ Len(as) = k /\ as[k] = f /\ Len(cs) \in Nat
      /\ \A i \in 1..Len(cs) : as[i] = cs[i]
      /\ \A i \in 1..k : i = k \/ i \in 1..Len(cs)
      /\ k \notin 1..Len(cs) /\ \A i \in 1..Len(cs) : i \in 1..k
      /\ k \in 1..k
  BY AppendProperties
<1>2. IsFiniteSet(OpenFrames(p, cs)) /\ Open(p, cs) \in Nat
  BY OpenType
<1> HIDE DEF as, k
<1>3. CASE p[f.node].symbol \in BlockTokens
  <2>1. OpenFrames(p, as) = OpenFrames(p, cs) \cup {k}
    BY <1>1, <1>3 DEF OpenFrames
  <2>2. k \notin OpenFrames(p, cs)
    BY <1>1 DEF OpenFrames
  <2> QED BY <1>2, <1>3, <2>1, <2>2, FS_AddElement DEF Open, as
<1>4. CASE p[f.node].symbol \notin BlockTokens
  <2>1. OpenFrames(p, as) = OpenFrames(p, cs)
    BY <1>1, <1>4 DEF OpenFrames
  <2> QED BY <1>2, <1>4, <2>1 DEF Open, as
<1> QED BY <1>3, <1>4

LEMMA OpenPop ==
  ASSUME NEW p, NEW S, NEW cs \in Seq(S), cs # <<>>
  PROVE  /\ Open(p, cs)
              = Open(p, Front(cs))
                  + IF p[Last(cs).node].symbol \in BlockTokens THEN 1 ELSE 0
         /\ Open(p, Front(cs)) \in Nat
<1> DEFINE as == Front(cs)
           k == Len(cs)
<1>1. /\ as \in Seq(S) /\ Len(as) = k - 1
      /\ cs[k] = Last(cs) /\ k \in 1..Len(cs)
      /\ \A i \in 1..Len(as) : as[i] = cs[i] /\ i \in 1..k
      /\ \A i \in 1..k : i = k \/ i \in 1..Len(as)
      /\ k \notin 1..Len(as)
  BY FrontFacts
<1> HIDE DEF as, k
<1>2. /\ IsFiniteSet(OpenFrames(p, as)) /\ Open(p, as) \in Nat
  BY <1>1, OpenType
<1>3. CASE p[Last(cs).node].symbol \in BlockTokens
  <2>1. OpenFrames(p, cs) = OpenFrames(p, as) \cup {k}
    BY <1>1, <1>3 DEF OpenFrames, k
  <2>2. k \notin OpenFrames(p, as)
    BY <1>1 DEF OpenFrames
  <2> QED BY <1>2, <1>3, <2>1, <2>2, FS_AddElement DEF Open, as
<1>4. CASE p[Last(cs).node].symbol \notin BlockTokens
  <2>1. OpenFrames(p, cs) = OpenFrames(p, as)
    BY <1>1, <1>4 DEF OpenFrames, k
  <2> QED BY <1>2, <1>4, <2>1 DEF Open, as
<1> QED BY <1>2, <1>3, <1>4 DEF as

-----------------------------------------------------------------------------
(* The invariant of the traversal. *)

(* Nodes that are never on the call stack. *)
Unstacked == Special \ {"TOK_FUNCTION", "TOK_PROTOTYPE"}

(* The call stack is a path through the tree, and all that was declared    *)
(* lies behind what is still to be visited.                                *)
Walk(p, cs, ds) ==
  /\ cs \in Seq(Frames(p))
  /\ \A i \in 1..Len(cs) : p[cs[i].node].symbol \notin Unstacked
  /\ Nested(p, cs)
  /\ \A d \in ds : /\ d \in DOMAIN p /\ p[d].symbol = "TOK_DECLID"
                   /\ Behind(p, cs, d)

TraversalInv ==
  /\ ast \in Programs
  /\ ScopesInv
  /\ Walk(ast, calls, Declared)
  /\ Depth = 1 + Open(ast, calls)

LEMMA Tree ==
  ASSUME ast \in Programs
  PROVE  WellFormed(ast, Name) /\ DOMAIN ast \subseteq Node
BY ProgramsAssumption

LEMMA WalkDeclares ==
  ASSUME NEW p, NEW cs, NEW ds, Walk(p, cs, ds),
         NEW d \in DOMAIN p, p[d].symbol = "TOK_DECLID", Behind(p, cs, d),
         NEW es \in SUBSET (ds \cup {d})
  PROVE  Walk(p, cs, es)
BY DEF Walk

LEMMA WalkPops ==
  ASSUME NEW p, NEW cs, NEW ds, Walk(p, cs, ds), cs # <<>>
  PROVE  Walk(p, Front(cs), ds)
<1>1. cs \in Seq(Frames(p)) /\ Nested(p, cs)
  BY DEF Walk
<1>2. /\ Front(cs) \in Seq(Frames(p)) /\ Nested(p, Front(cs))
      /\ Len(Front(cs)) = Len(cs) - 1
      /\ \A i \in 1..Len(cs) - 1 : Front(cs)[i] = cs[i]
      /\ \A x : Behind(p, cs, x) => Behind(p, Front(cs), x)
  BY <1>1, Pop
<1>3. \A i \in 1..Len(cs) - 1 : i \in 1..Len(cs)
  BY <1>1, FrontFacts
<1> QED BY <1>2, <1>3 DEF Walk

LEMMA WalkPushes ==
  ASSUME NEW p, NEW cs, NEW ds, Walk(p, cs, ds),
         NEW f \in Frames(p), p[f.node].symbol \notin Unstacked,
         \A i \in 1..Len(cs) : cs[i].node < f.node,
         Behind(p, cs, f.node), \A q \in Todo(p, f) : Behind(p, cs, q),
         \A q \in Todo(p, f) : \A d \in ds : d < q
  PROVE  Walk(p, Append(cs, f), ds)
<1>1. cs \in Seq(Frames(p)) /\ Nested(p, cs) /\ Len(cs) \in Nat
  BY DEF Walk
<1>2. /\ Append(cs, f) \in Seq(Frames(p)) /\ Nested(p, Append(cs, f))
      /\ Len(Append(cs, f)) = Len(cs) + 1
      /\ Append(cs, f)[Len(cs) + 1] = f
      /\ \A i \in 1..Len(cs) : Append(cs, f)[i] = cs[i]
      /\ \A x : Behind(p, cs, x) /\ (\A q \in Todo(p, f) : x < q)
                     => Behind(p, Append(cs, f), x)
  BY <1>1, Push
<1>3. \A i \in 1..Len(cs) + 1 : i = Len(cs) + 1 \/ i \in 1..Len(cs)
  BY <1>1
<1> QED BY <1>2, <1>3 DEF Walk

(* What a declaration declares. *)
DeclaredBy(p, n) ==
  IF p[n].symbol = "TOK_ARRAY" THEN p[n].children[2] ELSE p[n].children[1]

LEMMA DeclaredIs ==
  ASSUME NEW n
  PROVE  declared(n) = DeclaredBy(ast, n)
BY DEF declared, DeclaredBy, IsArray, symbol, child, children

LEMMA DeclarationDeclares ==
  ASSUME NEW p, NEW names, WellFormed(p, names), NEW n \in DOMAIN p,
         NEW what \in {"TOK_DECLID", "TOK_FIELD"}, Declaration(p, n, what)
  PROVE  /\ DeclaredBy(p, n) \in Kids(p, n)
         /\ DeclaredBy(p, n) \in DOMAIN p
         /\ p[DeclaredBy(p, n)].symbol = what
         /\ p[DeclaredBy(p, n)].lexinfo \in names
<1> DEFINE d == DeclaredBy(p, n)
<1>1. d \in Kids(p, n) /\ p[d].symbol = what
  <2>1. p[n].children \in Seq(DOMAIN p)
    BY KidsFollow
  <2>2. CASE p[n].symbol = "TOK_ARRAY"
    <3>1. Len(p[n].children) = 2 /\ p[p[n].children[2]].symbol = what
      BY <2>2 DEF Declaration, TypeName
    <3>2. 2 \in DOMAIN p[n].children
      BY <2>1, <3>1
    <3> QED BY <2>2, <3>1, <3>2 DEF DeclaredBy, Kids, Range
  <2>3. CASE p[n].symbol # "TOK_ARRAY"
    <3>1. Len(p[n].children) = 1 /\ p[p[n].children[1]].symbol = what
      BY <2>3 DEF Declaration
    <3>2. 1 \in DOMAIN p[n].children
      BY <2>1, <3>1
    <3> QED BY <2>3, <3>1, <3>2 DEF DeclaredBy, Kids, Range
  <2> QED BY <2>2, <2>3
<1>2. d \in DOMAIN p
  BY <1>1, KidsType
<1> QED BY <1>1, <1>2 DEF WellFormed

(* A type on the way of the traversal is that of a declaration. *)
LEMMA TypesDeclare ==
  ASSUME NEW p, NEW names, WellFormed(p, names), NEW n \in DOMAIN p,
         p[n].symbol \notin Unstacked,
         NEW i \in 1..Len(Path(p, n)),
         \/ p[n].symbol = "TOK_PARAMLIST"
         \/ p[Path(p, n)[i]].symbol \in VariableTypes
  PROVE  Declaration(p, Path(p, n)[i], "TOK_DECLID")
<1> DEFINE kids == p[n].children
           v == Path(p, n)[i]
<1>1. /\ kids \in Seq(DOMAIN p) /\ Built(p, n) /\ DOMAIN kids = 1..Len(kids)
      /\ \A m \in DOMAIN p : Built(p, m)
      /\ \A j \in 1..Len(kids) : kids[j] \in DOMAIN p
  <2>1. kids \in Seq(DOMAIN p)
    BY KidsFollow
  <2>2. \A m \in DOMAIN p : Built(p, m)
    BY DEF WellFormed
  <2> QED BY <2>1, <2>2, LenProperties, ElementOfSeq
<1>2. CASE p[n].symbol = "TOK_FUNCTION"
  <2>1. \/ v \in Kids(p, n) /\ ~ IsBody(p, n, v) /\ v = kids[2]
        \/ v \in Kids(p, Body(p, n))
    <3>1. p[Body(p, n)].children \in Seq(DOMAIN p)
      BY <1>2, BodyIsKid, KidsFollow
    <3>2. kids[2] \in DOMAIN p
      <4>1. Len(kids) = 3
        BY <1>1, <1>2 DEF Built
      <4> QED BY <1>1, <4>1
    <3>3. i = 1 => v = kids[2]
      BY <1>2, <3>1, <3>2 DEF Path
    <3>4. i # 1 => v \in Kids(p, Body(p, n))
      <4> DEFINE rest == p[Body(p, n)].children
      <4> SUFFICES ASSUME i # 1 PROVE v \in Kids(p, Body(p, n))
        OBVIOUS
      <4>1. Path(p, n) = <<kids[2]>> \o rest
        BY <1>2 DEF Path
      <4>2. i \in 2..1 + Len(rest) /\ v = rest[i - 1] /\ i - 1 \in DOMAIN rest
        <5> HIDE DEF rest, kids
        <5>1. rest \in Seq(DOMAIN p)
          BY <3>1 DEF rest
        <5> QED BY <3>2, <4>1, <5>1
      <4> QED BY <4>2 DEF Kids, Range
    <3>5. i = 1 => v \in Kids(p, n) /\ ~ IsBody(p, n, v)
      <4>1. Len(kids) = 3
        BY <1>1, <1>2 DEF Built
      <4>2. 2 \in DOMAIN kids /\ 2 \in 1..Len(kids) /\ 3 \in 1..Len(kids)
        BY <1>1, <4>1
      <4>3. kids[2] < kids[3] /\ kids[2] \in Nat /\ kids[3] \in Nat
        BY <1>1, <4>2, KidsFollow
      <4> QED BY <3>3, <4>2, <4>3 DEF Kids, Range, IsBody, Body
    <3> QED BY <3>3, <3>4, <3>5
  <2>2. CASE v = kids[2]
    BY <1>1, <1>2, <2>2 DEF Built, VariableTypes
  <2>3. CASE v \in Kids(p, Body(p, n))
    <3>1. Built(p, Body(p, n)) /\ p[Body(p, n)].symbol = "TOK_BLOCK"
      BY <1>1, <1>2, BodyIsKid
    <3>2. p[v].symbol \in Statement
      BY <2>3, <3>1 DEF Built, Kids, Range
    <3> QED BY <1>2, <3>2 DEF VariableTypes, Statement, Expression, NoOperand,
                   OneOperand, TwoOperands
  <2> QED BY <2>1, <2>2, <2>3
<1>3. CASE p[n].symbol = "TOK_PROTOTYPE"
  <2>1. Path(p, n) = <<kids[2]>> /\ p[kids[2]].symbol = "TOK_PARAMLIST"
    BY <1>1, <1>3 DEF Path, Built
  <2> QED BY <1>3, <2>1 DEF VariableTypes
<1>4. CASE p[n].symbol = "TOK_NEWARRAY"
  <2>1. Path(p, n) = <<kids[2]>> /\ p[kids[2]].symbol \in Expression
    BY <1>1, <1>4 DEF Path, Built
  <2> QED BY <1>4, <2>1 DEF VariableTypes, Expression, NoOperand, OneOperand,
                 TwoOperands
<1>5. CASE p[n].symbol = "TOK_NEW"
  BY <1>5 DEF Path
<1>6. CASE p[n].symbol \notin {"TOK_FUNCTION", "TOK_PROTOTYPE", "TOK_NEWARRAY",
                               "TOK_NEW"}
  <2>1. Path(p, n) = kids /\ i \in DOMAIN kids
    BY <1>1, <1>6 DEF Path
  <2>2. CASE p[n].symbol = "TOK_PARAMLIST"
    BY <1>1, <2>1, <2>2 DEF Built
  <2>3. CASE p[n].symbol = "TOK_VARDECL"
    <3>1. /\ Len(kids) = 2 /\ Declaration(p, kids[1], "TOK_DECLID")
          /\ p[kids[2]].symbol \in Expression
      BY <1>1, <2>3 DEF Built
    <3>2. i = 1 \/ i = 2
      BY <1>1, <2>1, <3>1
    <3> QED BY <2>1, <2>3, <3>1, <3>2 DEF VariableTypes, Expression, NoOperand,
                   OneOperand, TwoOperands
  <2>4. CASE p[n].symbol \notin {"TOK_PARAMLIST", "TOK_VARDECL"}
    <3> SUFFICES p[kids[i]].symbol \notin VariableTypes
      BY <2>1, <2>4
    <3> DEFINE plain == Statement \cup {"TOK_FUNCTION", "TOK_PROTOTYPE",
                                        "TOK_STRUCT", "TOK_FIELD"}
    <3>1. \A t \in plain : t \notin VariableTypes
      BY DEF VariableTypes, Statement, Expression, NoOperand, OneOperand,
             TwoOperands
    <3>2. p[kids[i]].symbol \in plain
      <4>1. p[n].symbol \in Token
        BY <1>1 DEF Built
      <4>2. CASE p[n].symbol \in {"TOK_ROOT", "TOK_BLOCK"}
        BY <1>1, <2>1, <4>2 DEF Built
      <4>3. CASE p[n].symbol \in {"TOK_WHILE", "TOK_IF", "TOK_IFELSE"}
        <5>1. CASE p[n].symbol = "TOK_IFELSE"
          <6>1. /\ Len(kids) = 3 /\ p[kids[1]].symbol \in Expression
                /\ p[kids[2]].symbol \in Statement
                /\ p[kids[3]].symbol \in Statement
            BY <1>1, <5>1 DEF Built
          <6>2. i = 1 \/ i = 2 \/ i = 3
            BY <1>1, <2>1, <6>1
          <6> QED BY <6>1, <6>2 DEF Statement
        <5>2. CASE p[n].symbol \in {"TOK_WHILE", "TOK_IF"}
          <6>1. /\ Len(kids) = 2 /\ p[kids[1]].symbol \in Expression
                /\ p[kids[2]].symbol \in Statement
            BY <1>1, <5>2 DEF Built
          <6>2. i = 1 \/ i = 2
            BY <1>1, <2>1, <6>1
          <6> QED BY <6>1, <6>2 DEF Statement
        <5> QED BY <4>3, <5>1, <5>2
      <4>4. CASE p[n].symbol \in OneOperand \cup {"TOK_RETURN"}
        <5>1. Len(kids) = 1 /\ p[kids[1]].symbol \in Expression
          BY <1>1, <4>4 DEF Built
        <5>2. i = 1
          BY <1>1, <2>1, <5>1
        <5> QED BY <5>1, <5>2 DEF Statement
      <4>5. CASE p[n].symbol \in TwoOperands \cup {"TOK_CALL"}
        <5>1. \A j \in DOMAIN kids : p[kids[j]].symbol \in Expression
          BY <1>1, <4>5 DEF Built
        <5> QED BY <2>1, <5>1 DEF Statement
      <4>6. CASE p[n].symbol = "."
        <5>1. /\ Len(kids) = 2 /\ p[kids[1]].symbol \in Expression
              /\ p[kids[2]].symbol = "TOK_FIELD"
          BY <1>1, <4>6 DEF Built
        <5>2. i = 1 \/ i = 2
          BY <1>1, <2>1, <5>1
        <5> QED BY <5>1, <5>2 DEF Statement
      <4>7. CASE p[n].symbol \in NoOperand \cup
                   {";", "TOK_RETURNVOID", "TOK_DECLID", "TOK_FIELD"}
        <5>1. kids = <<>>
          BY <1>1, <4>7 DEF Built
        <5> QED BY <2>1, <5>1
      <4> QED BY <1>6, <2>4, <4>1, <4>2, <4>3, <4>4, <4>5, <4>6, <4>7
              DEF Token, Statement, Expression, TypeName, Unstacked, Special,
                  VariableTypes
    <3> QED BY <3>1, <3>2
  <2> QED BY <2>2, <2>3, <2>4
<1> QED BY <1>2, <1>3, <1>4, <1>5, <1>6

(* The next node of the innermost call, and the stack without it. *)
LEMMA Goes ==
  ASSUME TraversalInv, Running, HasNext
  PROVE  /\ WellFormed(ast, Name)
         /\ Caller.node \in DOMAIN ast /\ symbol(Caller.node) \notin Unstacked
         /\ \E i \in 1..Len(Path(ast, Caller.node)) :
              Next_node = Path(ast, Caller.node)[i]
         /\ Advanced \in Seq(Frames(ast)) /\ Advanced \o <<>> = Advanced
         /\ Walk(ast, Advanced, Declared)
         /\ Open(ast, Advanced) = Open(ast, calls)
         /\ Next_node \in DOMAIN ast /\ Next_node \in Nat
         /\ \A i \in 1..Len(Advanced) : Advanced[i].node < Next_node
         /\ Behind(ast, Advanced, Next_node)
         /\ BelowBehind(ast, Advanced, Next_node)
         /\ \A d \in Declared : d < Next_node
<1> DEFINE f == calls[Len(calls)]
           n == f.node
<1>1. WellFormed(ast, Name)
  BY Tree DEF TraversalInv
<1>2. /\ calls \in Seq(Frames(ast)) /\ calls # <<>> /\ Nested(ast, calls)
      /\ \A i \in 1..Len(calls) : symbol(calls[i].node) \notin Unstacked
      /\ \A d \in Declared : /\ d \in DOMAIN ast /\ ast[d].symbol = "TOK_DECLID"
                             /\ Behind(ast, calls, d)
  BY DEF TraversalInv, Walk, Running, symbol
<1>3. /\ Len(calls) \in Nat \ {0} /\ Len(calls) \in 1..Len(calls)
      /\ Last(calls) = f /\ f \in Frames(ast) /\ n \in DOMAIN ast
  <2>1. /\ Len(calls) \in Nat \ {0} /\ Last(calls) = f /\ f \in Frames(ast)
    BY <1>2, FrontFacts
  <2> QED BY <2>1 DEF Frames
<1>4. Visits(n) = Path(ast, n) /\ Caller = f
  BY <1>3, VisitsArePath DEF Caller
<1> DEFINE v == Path(ast, n)[f.next]
<1>5. /\ Next_node = v /\ f.next <= Len(Path(ast, n))
      /\ Advanced = AdvancedIn(calls)
  BY <1>4 DEF HasNext, Next_node, Advanced, AdvancedIn
<1> DEFINE as == AdvancedIn(calls)
<1> HIDE DEF f, as
<1>6. /\ as \in Seq(Frames(ast)) /\ Len(as) = Len(calls)
      /\ \A i \in 1..Len(calls) : as[i].node = calls[i].node
      /\ \A i \in 1..Len(calls) : Todo(ast, as[i]) \subseteq Todo(ast, calls[i])
      /\ v \in DOMAIN ast /\ v \in Todo(ast, f)
      /\ Nested(ast, as)
      /\ \A i \in 1..Len(calls) : as[i].node < v
      /\ Behind(ast, as, v)
      /\ BelowBehind(ast, as, v)
  BY <1>1, <1>2, <1>5, Advance DEF f, as
<1>7. Open(ast, as) = Open(ast, calls)
  BY <1>6, OpenSame
<1>8. Walk(ast, as, Declared)
  BY <1>2, <1>6 DEF Walk, Behind, symbol
<1>9. \A d \in Declared : d < v
  BY <1>2, <1>3, <1>6 DEF Behind, f
<1>10. v \in Nat /\ \E i \in 1..Len(Path(ast, n)) : v = Path(ast, n)[i]
  BY <1>1, <1>3, <1>6, TodoFollows
<1>11. as \o <<>> = as
  BY <1>6, ConcatEmptySeq
<1> HIDE DEF v
<1> QED BY <1>1, <1>2, <1>3, <1>4, <1>5, <1>6, <1>7, <1>8, <1>9, <1>10, <1>11
        DEF as, f

(* A declaration at the next node, or at its first child, was not met      *)
(* before.                                                                 *)
LEMMA NewDeclaration ==
  ASSUME TraversalInv, Running, HasNext,
         NEW n, n = Next_node \/ n \in Kids(ast, Next_node),
         Declaration(ast, n, "TOK_DECLID")
  PROVE  /\ declared(n) \in Node \ Declared /\ declared(n) \in DOMAIN ast
         /\ declared(n) \in Kids(ast, n)
         /\ symbol(declared(n)) = "TOK_DECLID"
         /\ lexinfo(declared(n)) \in Name
         /\ Behind(ast, Advanced, declared(n))
<1> DEFINE d == declared(n)
           v == Next_node
<1>1. /\ WellFormed(ast, Name) /\ v \in DOMAIN ast /\ v \in Nat
      /\ BelowBehind(ast, Advanced, v) /\ \A e \in Declared : e < v
      /\ DOMAIN ast \subseteq Node
  BY Goes, Tree DEF TraversalInv
<1>2. n \in DOMAIN ast /\ n \in Nat /\ v <= n
  <2>1. CASE n = v
    BY <1>1, <2>1
  <2>2. CASE n \in Kids(ast, v)
    <3>1. n \in DOMAIN ast /\ n \in Nat /\ v < n
      BY <1>1, <2>2, KidsType
    <3> QED BY <1>1, <3>1
  <2> QED BY <2>1, <2>2
<1>3. d = DeclaredBy(ast, n)
  BY DeclaredIs
<1> HIDE DEF d, v
<1>4. /\ d \in Kids(ast, n) /\ d \in DOMAIN ast
      /\ ast[d].symbol = "TOK_DECLID" /\ ast[d].lexinfo \in Name
  BY <1>1, <1>2, <1>3, DeclarationDeclares
<1>5. d \in Nat /\ n < d
  BY <1>1, <1>2, <1>4, KidsType
<1>6. d \notin Declared
  <2> SUFFICES ASSUME d \in Declared PROVE FALSE
    OBVIOUS
  <2>1. d < v
    BY <1>1
  <2> QED BY <1>1, <1>2, <1>5, <2>1
<1>7. Behind(ast, Advanced, d)
  BY <1>1, <1>4 DEF BelowBehind, v
<1> QED BY <1>1, <1>4, <1>6, <1>7 DEF d, symbol, lexinfo

LEMMA InsertAdds ==
  ASSUME NEW d, NEW n, NEW level, Insert(d, n, level)
  PROVE  Declared' \subseteq Declared \cup {d}
BY DEF Insert, Declared, Extend

(* symbolize_declaration of a declaration at the next node. *)
LEMMA SymbolizeStep ==
  ASSUME TraversalInv, Running, HasNext,
         Declaration(ast, Next_node, "TOK_DECLID"),
         NEW initial, Symbolize(Next_node, initial),
         Call(<<>>), ast' = ast
  PROVE  ScopesNext /\ TraversalInv'
<1> DEFINE d == declared(Next_node)
<1>1. /\ d \in Node \ Declared /\ d \in DOMAIN ast
      /\ ast[d].symbol = "TOK_DECLID" /\ lexinfo(d) \in Name
      /\ Behind(ast, Advanced, d)
  BY NewDeclaration DEF symbol
<1>2. /\ Walk(ast, Advanced, Declared) /\ Open(ast, Advanced) = Open(ast, calls)
      /\ calls' = Advanced
  BY Goes DEF Call
<1> HIDE DEF d
<1>3. DeclareLocal(d, lexinfo(d)) \/ DeclareNothing
  BY DEF Symbolize, d
<1>4. ScopesNext
  BY <1>1, <1>3 DEF ScopesNext
<1>5. ScopesInv'
  BY <1>4, StepInv DEF TraversalInv
<1>6. Declared' \subseteq Declared \cup {d}
  <2>1. CASE DeclareLocal(d, lexinfo(d))
    BY <2>1, InsertAdds DEF DeclareLocal
  <2>2. CASE DeclareNothing
    BY <2>2 DEF DeclareNothing, Declared
  <2> QED BY <1>3, <2>1, <2>2
<1>7. Walk(ast, calls, Declared)'
  <2>1. Walk(ast, Advanced, Declared')
    BY <1>1, <1>2, <1>6, WalkDeclares
  <2> QED BY <1>2, <2>1
<1>8. Depth' = Depth
  <2>1. symbol_stack \in Seq(Tables(Name) \cup {NULL})
    BY DEF TraversalInv, ScopesInv, Good, Stacks
  <2> QED BY <1>3, <2>1 DEF DeclareLocal, DeclareNothing, TouchTopTable, Depth
<1>9. Open(ast, calls)' = Open(ast, calls)
  BY <1>2
<1> QED BY <1>4, <1>5, <1>7, <1>8, <1>9 DEF TraversalInv

(* Passing over the next node. *)
LEMMA PassStep ==
  ASSUME TraversalInv, Running, HasNext, Call(<<>>),
         ast' = ast, UNCHANGED scopeVars
  PROVE  TraversalInv'
<1>1. /\ Walk(ast, Advanced, Declared) /\ Open(ast, Advanced) = Open(ast, calls)
      /\ calls' = Advanced
  BY Goes DEF Call
<1>2. ScopesInv'
  BY StepInv DEF TraversalInv
<1>3. Declared' = Declared /\ Depth' = Depth
  BY DEF scopeVars, Declared, Depth
<1> QED BY <1>1, <1>2, <1>3 DEF TraversalInv

(* Entering the next node, in a block of its own or not. *)
LEMMA EnterStep ==
  ASSUME TraversalInv, Running, HasNext,
         Call(<<Frame(Next_node)>>),
         ast' = ast, symbol(Next_node) \notin Special,
         IF symbol(Next_node) = "TOK_BLOCK" THEN EnterBlock
         ELSE UNCHANGED scopeVars
  PROVE  [ScopesNext]_scopeVars /\ TraversalInv'
<1> DEFINE v == Next_node
           f == Frame(v)
           as == Advanced
<1>1. /\ WellFormed(ast, Name) /\ as \in Seq(Frames(ast))
      /\ Walk(ast, as, Declared) /\ Open(ast, as) = Open(ast, calls)
      /\ v \in DOMAIN ast /\ v \in Nat
      /\ \A i \in 1..Len(as) : as[i].node < v
      /\ Behind(ast, as, v) /\ BelowBehind(ast, as, v)
      /\ \A d \in Declared : d < v
  BY Goes
<1> HIDE DEF as, v
<1>2. f \in Frames(ast) /\ f.node = v
  BY <1>1 DEF Frame, Frames
<1> HIDE DEF f
<1>3. \A q \in Todo(ast, f) : Behind(ast, as, q) /\ v < q /\ q \in Nat
  <2> SUFFICES ASSUME NEW q \in Todo(ast, f)
               PROVE  Behind(ast, as, q) /\ v < q /\ q \in Nat
    OBVIOUS
  <2>1. /\ v < q /\ q \in Nat
        /\ \E i \in 1..Len(Path(ast, v)) : q = Path(ast, v)[i]
    BY <1>1, <1>2, TodoFollows
  <2>2. \/ q \in Kids(ast, v)
        \/ Body(ast, v) \in Kids(ast, v) /\ q \in Kids(ast, Body(ast, v))
    BY <1>1, <2>1, PathFollows
  <2> QED BY <1>1, <2>1, <2>2 DEF BelowBehind
<1>4. \A q \in Todo(ast, f) : \A d \in Declared : d < q
  <2> SUFFICES ASSUME NEW q \in Todo(ast, f), NEW d \in Declared PROVE d < q
    OBVIOUS
  <2>1. d \in DOMAIN ast /\ DOMAIN ast \subseteq Nat
    <3>1. d \in DOMAIN ast
      BY <1>1 DEF Walk
    <3> QED BY <1>1, <3>1, KidsFollow
  <2>2. d \in Nat /\ d < v /\ v < q /\ q \in Nat /\ v \in Nat
    BY <1>1, <1>3, <2>1
  <2> QED BY <2>2
<1>5. ast[f.node].symbol \notin Unstacked
  BY <1>2 DEF Unstacked, symbol, v
<1>6. Walk(ast, Append(as, f), Declared)
  BY <1>1, <1>2, <1>3, <1>4, <1>5, WalkPushes
<1>7. calls' = Append(as, f)
  BY <1>1, <1>2, AppendIsConcat DEF as, f, v, Call
<1>8. Open(ast, Append(as, f))
        = Open(ast, calls) + IF symbol(v) = "TOK_BLOCK" THEN 1 ELSE 0
  <2>1. symbol(v) \in BlockTokens <=> symbol(v) = "TOK_BLOCK"
    BY DEF BlockTokens, Special, v
  <2> QED BY <1>1, <1>2, <2>1, OpenPush DEF symbol
<1>9. [ScopesNext]_scopeVars
  BY DEF ScopesNext
<1>10. ScopesInv'
  BY <1>9, StepInv DEF TraversalInv
<1>11. Declared' = Declared
  BY DEF scopeVars, Declared, EnterBlock
<1>12. /\ symbol(v) = "TOK_BLOCK" => Depth' = Depth + 1
       /\ symbol(v) # "TOK_BLOCK" => Depth' = Depth
       /\ Depth = 1 + Open(ast, calls) /\ Open(ast, calls) \in Nat
  <2>1. symbol_stack \in Seq(Tables(Name) \cup {NULL}) /\ Depth \in Nat
    BY DEF TraversalInv, ScopesInv, Good, Stacks, Depth
  <2>2. symbol(v) = "TOK_BLOCK" => Depth' = Depth + 1
    <3> SUFFICES ASSUME symbol(v) = "TOK_BLOCK" PROVE Depth' = Depth + 1
      OBVIOUS
    <3>1. symbol_stack' = Append(symbol_stack, NULL)
      BY DEF EnterBlock, enter_block, v
    <3>2. Len(Append(symbol_stack, NULL)) = Len(symbol_stack) + 1
      BY <2>1, AppendProperties
    <3> QED BY <3>1, <3>2 DEF Depth
  <2>3. symbol(v) # "TOK_BLOCK" => Depth' = Depth
    BY DEF scopeVars, Depth, v
  <2>4. Open(ast, calls) \in Nat /\ Depth = 1 + Open(ast, calls)
    BY OpenType DEF TraversalInv, Walk
  <2> QED BY <2>2, <2>3, <2>4
<1>13. Depth' = 1 + Open(ast, Append(as, f))
  BY <1>8, <1>12
<1> QED BY <1>6, <1>7, <1>9, <1>10, <1>11, <1>13 DEF TraversalInv

(* Returning from a node; its block, if it has one, is closed. *)
LEMMA LeaveStep ==
  ASSUME TraversalInv, Running, calls' = Front(calls), ast' = ast,
         IF symbol(Caller.node) \in BlockTokens THEN LeaveBlock
         ELSE /\ Depth' = Depth /\ Declared' = Declared
              /\ [ScopesNext]_scopeVars
  PROVE  [ScopesNext]_scopeVars /\ TraversalInv'
<1>1. calls \in Seq(Frames(ast)) /\ calls # <<>>
  BY DEF TraversalInv, Walk, Running
<1>2. Walk(ast, Front(calls), Declared)
  BY <1>1, WalkPops DEF TraversalInv
<1>3. /\ Open(ast, calls) = Open(ast, Front(calls))
              + IF symbol(Caller.node) \in BlockTokens THEN 1 ELSE 0
      /\ Open(ast, Front(calls)) \in Nat
  BY <1>1, OpenPop DEF Caller, symbol
<1>4. Depth = 1 + Open(ast, calls) /\ Depth \in Nat
      /\ symbol_stack \in Seq(Tables(Name) \cup {NULL})
  BY DEF TraversalInv, ScopesInv, Good, Stacks, Depth
<1>5. CASE symbol(Caller.node) \in BlockTokens
  <2>1. Depth > 1 /\ LeaveBlock
    BY <1>3, <1>4, <1>5
  <2>2. ScopesNext
    BY <2>1 DEF ScopesNext
  <2>3. ScopesInv' /\ Declared' = Declared
    BY <2>1, <2>2, StepInv DEF TraversalInv, LeaveBlock, Declared
  <2>4. Depth' = Depth - 1
    <3>1. symbol_stack # <<>> /\ symbol_stack' = Front(symbol_stack)
      BY <1>4, <2>1 DEF LeaveBlock, leave_block, Depth
    <3> QED BY <1>4, <3>1, FrontFacts DEF Depth
  <2>5. Depth' = 1 + Open(ast, Front(calls))
    BY <1>3, <1>4, <1>5, <2>4
  <2> QED BY <1>2, <2>2, <2>3, <2>5 DEF TraversalInv
<1>6. CASE symbol(Caller.node) \notin BlockTokens
  <2>1. [ScopesNext]_scopeVars /\ Depth' = Depth /\ Declared' = Declared
    BY <1>6
  <2>2. ScopesInv'
    BY <2>1, StepInv DEF TraversalInv
  <2>3. Depth' = 1 + Open(ast, Front(calls))
    BY <1>3, <1>4, <1>6, <2>1
  <2> QED BY <1>2, <2>1, <2>2, <2>3 DEF TraversalInv
<1> QED BY <1>5, <1>6

LEMMA AppendTwice ==
  ASSUME NEW S, NEW cs \in Seq(S), NEW f \in S, NEW g \in S
  PROVE  cs \o <<f, g>> = Append(Append(cs, f), g)
OBVIOUS

LEMMA AppendBelow ==
  ASSUME NEW p, NEW names, WellFormed(p, names),
         NEW cs \in Seq(Frames(p)), NEW f \in Frames(p),
         NEW b \in Nat, f.node < b,
         \A i \in 1..Len(cs) : cs[i].node < f.node
  PROVE  \A i \in 1..Len(Append(cs, f)) : Append(cs, f)[i].node < b
<1>1. /\ Len(Append(cs, f)) = Len(cs) + 1 /\ Len(cs) \in Nat
      /\ Append(cs, f)[Len(cs) + 1] = f
      /\ \A i \in 1..Len(cs) : Append(cs, f)[i] = cs[i] /\ cs[i] \in Frames(p)
  BY AppendProperties, ElementOfSeq
<1>2. \A i \in 1..Len(cs) + 1 : i = Len(cs) + 1 \/ i \in 1..Len(cs)
  BY <1>1
<1>3. \A h \in Frames(p) : h.node \in Nat
  BY KidsFollow DEF WellFormed, Frames
<1>4. \A i \in 1..Len(cs) : cs[i].node < b
  BY <1>1, <1>3
<1> QED BY <1>1, <1>2, <1>4

(* Entering two nodes, the second of which is below the first. *)
LEMMA WalkPushesTwice ==
  ASSUME NEW p, NEW names, WellFormed(p, names),
         NEW cs, NEW ds, Walk(p, cs, ds),
         NEW f \in Frames(p), p[f.node].symbol \notin Unstacked,
         NEW g \in Frames(p), p[g.node].symbol \notin Unstacked,
         \A i \in 1..Len(cs) : cs[i].node < f.node, f.node < g.node,
         Behind(p, cs, f.node), Behind(p, cs, g.node),
         \A q \in Todo(p, g) : Behind(p, cs, q),
         \A q \in Todo(p, f) : /\ Behind(p, cs, q) /\ g.node < q
                              /\ \A r \in Todo(p, g) : r < q,
         \A d \in ds : d < g.node
  PROVE  Walk(p, Append(Append(cs, f), g), ds)
<1>1. /\ cs \in Seq(Frames(p)) /\ Nested(p, cs)
      /\ \A d \in ds : d \in DOMAIN p
  BY DEF Walk
<1>2. /\ DOMAIN p \subseteq Nat /\ f.node \in Nat /\ g.node \in Nat
      /\ \A d \in ds : d \in Nat
  BY <1>1, KidsFollow DEF WellFormed, Frames
<1>3. \A q \in Todo(p, f) : q \in Nat
  BY TodoFollows
<1>4. \A q \in Todo(p, g) : q \in Nat /\ g.node < q
  BY TodoFollows
<1>5. Walk(p, Append(cs, f), ds)
  <2>1. \A q \in Todo(p, f) : \A d \in ds : d < q
    <3> SUFFICES ASSUME NEW q \in Todo(p, f), NEW d \in ds PROVE d < q
      OBVIOUS
    <3>1. g.node < q /\ d < g.node /\ d \in Nat /\ q \in Nat
      BY <1>2, <1>3
    <3> QED BY <1>2, <3>1
  <2> QED BY <2>1, WalkPushes
<1>6. \A x : Behind(p, cs, x) /\ (\A q \in Todo(p, f) : x < q)
               => Behind(p, Append(cs, f), x)
  BY <1>1, Push
<1>7. \A i \in 1..Len(Append(cs, f)) : Append(cs, f)[i].node < g.node
  BY <1>1, <1>2, AppendBelow
<1>8. /\ Behind(p, Append(cs, f), g.node)
      /\ \A q \in Todo(p, g) : Behind(p, Append(cs, f), q)
  BY <1>6
<1>9. \A q \in Todo(p, g) : \A d \in ds : d < q
  <2> SUFFICES ASSUME NEW q \in Todo(p, g), NEW d \in ds PROVE d < q
    OBVIOUS
  <2>1. g.node < q /\ d < g.node /\ d \in Nat /\ q \in Nat
    BY <1>2, <1>4
  <2> QED BY <1>2, <2>1
<1> QED BY <1>5, <1>7, <1>8, <1>9, WalkPushes

(* handle_function up to its parameters. *)
LEMMA FunctionStep ==
  ASSUME TraversalInv, Running, HasNext, ast' = ast,
         symbol(Next_node) \in {"TOK_FUNCTION", "TOK_PROTOTYPE"},
         NEW prev, EnterFunction(Next_node, prev)
  PROVE  ScopesNext /\ TraversalInv'
<1> DEFINE v == Next_node
           a == ast[v].children[1]
           b == ast[v].children[2]
           d == declared(child(v, 0))
           as == Advanced
           f == [node |-> v, next |-> 2]
           g == Frame(b)
           ds == Declared \cup {d}
<1>1. /\ WellFormed(ast, Name) /\ as \in Seq(Frames(ast))
      /\ Walk(ast, as, Declared) /\ Open(ast, as) = Open(ast, calls)
      /\ v \in DOMAIN ast /\ v \in Nat
      /\ \A i \in 1..Len(as) : as[i].node < v
      /\ Behind(ast, as, v) /\ BelowBehind(ast, as, v)
      /\ \A e \in Declared : e < v
      /\ DOMAIN ast \subseteq Nat
  <2>1. WellFormed(ast, Name)
    BY Goes
  <2> QED BY <2>1, Goes DEF WellFormed
<1>2. /\ Declaration(ast, a, "TOK_DECLID")
      /\ ast[b].symbol = "TOK_PARAMLIST"
      /\ a \in Kids(ast, v) /\ b \in Kids(ast, v) /\ a < b
      /\ child(Next_node, 0) = a /\ child(Next_node, 1) = b
      /\ a \in DOMAIN ast /\ b \in DOMAIN ast
  <2> DEFINE kids == ast[v].children
  <2>1. /\ kids \in Seq(DOMAIN ast)
        /\ \A i, j \in 1..Len(kids) : i < j => kids[i] < kids[j]
        /\ Built(ast, v)
    BY <1>1, KidsFollow DEF WellFormed
  <2>2. Len(kids) = 2 \/ Len(kids) = 3
    BY <2>1 DEF Built, symbol
  <2>3. /\ Declaration(ast, a, "TOK_DECLID")
        /\ ast[b].symbol = "TOK_PARAMLIST"
    BY <2>1 DEF Built, symbol
  <2>4. 1 \in 1..Len(kids) /\ 2 \in 1..Len(kids)
    <3> HIDE DEF kids
    <3> QED BY <2>2
  <2>5. a \in Kids(ast, v) /\ b \in Kids(ast, v) /\ a < b
    <3>1. DOMAIN kids = 1..Len(kids)
      BY <2>1, LenProperties
    <3>2. kids[1] < kids[2]
      BY <2>1, <2>4
    <3> QED BY <2>4, <3>1, <3>2 DEF Kids, Range
  <2>6. child(Next_node, 0) = a /\ child(Next_node, 1) = b
    BY DEF child, children
  <2> QED BY <1>1, <2>3, <2>5, <2>6, KidsType
<1>3. /\ d \in Node \ Declared /\ d \in DOMAIN ast /\ d \in Kids(ast, a)
      /\ ast[d].symbol = "TOK_DECLID" /\ lexinfo(d) \in Name
      /\ Behind(ast, as, d)
  BY <1>2, NewDeclaration DEF symbol
<1>4. /\ BeginFunction(d, lexinfo(d))
      /\ calls' = as \o <<f, g>>
  BY <1>2 DEF EnterFunction, Call
<1>5. calls' = Append(Append(as, f), g)
  <2>1. as \in Seq(Frames(ast)) /\ f \in Frames(ast) /\ g \in Frames(ast)
    BY <1>1, <1>2 DEF Frame, Frames
  <2> QED BY <1>4, <2>1, AppendTwice
<1> HIDE DEF v, a, b, as, d
<1>6. d < b /\ v < b /\ v < a /\ b \in Nat /\ d \in Nat
  <2>1. v < a /\ v < b
    BY <1>1, <1>2, KidsType
  <2> QED BY <1>1, <1>2, <1>3, <2>1, KidsNest
<1>7. /\ f \in Frames(ast) /\ f.node = v /\ g \in Frames(ast) /\ g.node = b
  BY <1>1, <1>2 DEF Frame, Frames
<1>8. \A q \in Todo(ast, f) : /\ Behind(ast, as, q) /\ q \in Nat /\ v < q
                              /\ b < q
                              /\ \A e \in Kids(ast, b) : e < q
  <2> SUFFICES ASSUME NEW k \in 2..Len(Path(ast, v))
               PROVE  LET q == Path(ast, v)[k] IN
                      /\ Behind(ast, as, q) /\ q \in Nat /\ v < q
                      /\ b < q
                      /\ \A e \in Kids(ast, b) : e < q
    BY DEF Todo
  <2> DEFINE q == Path(ast, v)[k]
             c == Body(ast, v)
             rest == ast[c].children
  <2>1. ast[v].symbol = "TOK_FUNCTION"
    <3> SUFFICES ASSUME ast[v].symbol = "TOK_PROTOTYPE" PROVE FALSE
      BY DEF symbol, v
    <3>1. Path(ast, v) = <<ast[v].children[2]>>
      BY DEF Path
    <3> QED BY <3>1
  <2>2. /\ c \in Kids(ast, v) /\ c \in DOMAIN ast /\ c \in Nat
    BY <1>1, <2>1, BodyIsKid
  <2>3. b < c
    <3>1. Len(ast[v].children) = 3
      BY <1>1, <2>1 DEF Built, WellFormed
    <3>2. \A i, j \in 1..Len(ast[v].children) :
            i < j => ast[v].children[i] < ast[v].children[j]
      BY <1>1, KidsFollow
    <3> QED BY <3>1, <3>2 DEF b, Body
  <2>4. q \in Kids(ast, c)
    <3>1. rest \in Seq(DOMAIN ast) /\ Path(ast, v) = <<b>> \o rest
      BY <1>1, <2>1, <2>2, KidsFollow DEF Path, b
    <3>2. k - 1 \in DOMAIN rest /\ q = rest[k - 1]
      <4> HIDE DEF rest
      <4> QED BY <1>2, <3>1
    <3> QED BY <3>2 DEF Kids, Range
  <2> HIDE DEF q, c
  <2>5. q \in Nat /\ c < q /\ q \in DOMAIN ast
    BY <1>1, <2>2, <2>4, KidsType
  <2>6. Behind(ast, as, q)
    BY <1>1, <2>2, <2>4 DEF BelowBehind
  <2>7. v < q /\ b < q
    BY <1>1, <1>6, <2>2, <2>3, <2>5
  <2>8. ASSUME NEW e \in Kids(ast, b) PROVE e < q
    <3>1. e < c
      BY <1>1, <1>2, <1>6, <2>2, <2>3, KidsNest
    <3>2. e \in Nat
      BY <1>1, <1>2, KidsType
    <3> QED BY <2>2, <2>5, <3>1, <3>2
  <2> QED BY <2>5, <2>6, <2>7, <2>8 DEF q
<1>9. \A q \in Todo(ast, g) : q \in Kids(ast, b) /\ b < q /\ q \in Nat
  <2> SUFFICES ASSUME NEW q \in Todo(ast, g)
               PROVE  q \in Kids(ast, b) /\ b < q /\ q \in Nat
    OBVIOUS
  <2>1. /\ b < q /\ q \in Nat
        /\ \E i \in 1..Len(Path(ast, b)) : q = Path(ast, b)[i]
    BY <1>1, <1>7, TodoFollows
  <2>2. \/ q \in Kids(ast, b)
        \/ ast[b].symbol = "TOK_FUNCTION"
    BY <1>1, <1>2, <2>1, PathFollows
  <2> QED BY <1>2, <2>1, <2>2
<1> HIDE DEF f, g
<1>10. \A q \in Todo(ast, g) : Behind(ast, as, q)
  BY <1>1, <1>2, <1>9 DEF BelowBehind
<1>11. Behind(ast, as, b)
  BY <1>1, <1>2 DEF BelowBehind
<1>12. Walk(ast, as, ds)
  BY <1>1, <1>3, WalkDeclares
<1>13. \A e \in ds : e \in Nat /\ e < b
  <2>1. \A e \in Declared : e \in Nat
    BY <1>1 DEF Walk
  <2> QED BY <1>1, <1>6, <2>1
<1> DEFINE s1 == Append(as, f)
           s2 == Append(s1, g)
<1>14. /\ ast[f.node].symbol \notin Unstacked
       /\ ast[g.node].symbol \notin Unstacked
  <2>1. ast[f.node].symbol \in {"TOK_FUNCTION", "TOK_PROTOTYPE"}
    BY <1>7 DEF symbol, v
  <2>2. ast[g.node].symbol = "TOK_PARAMLIST"
    BY <1>2, <1>7
  <2> QED BY <2>1, <2>2 DEF Unstacked, Special, VariableTypes
<1>15. Walk(ast, s2, ds)
  <2>1. /\ \A i \in 1..Len(as) : as[i].node < f.node
        /\ f.node < g.node
        /\ Behind(ast, as, f.node) /\ Behind(ast, as, g.node)
    BY <1>1, <1>6, <1>7, <1>11
  <2>2. /\ \A q \in Todo(ast, g) : Behind(ast, as, q)
        /\ \A q \in Todo(ast, f) : /\ Behind(ast, as, q) /\ g.node < q
                                   /\ \A r \in Todo(ast, g) : r < q
    BY <1>7, <1>8, <1>9, <1>10
  <2>3. \A e \in ds : e < g.node
    BY <1>7, <1>13
  <2> QED BY <1>1, <1>7, <1>12, <1>14, <2>1, <2>2, <2>3, WalkPushesTwice
<1>16. Open(ast, s2) = Open(ast, calls) + 1 /\ Open(ast, calls) \in Nat
  <2>1. Open(ast, s1) = Open(ast, as) + 1
    BY <1>1, <1>7, OpenPush DEF v, symbol, BlockTokens
  <2>2. Open(ast, s2) = Open(ast, s1) + 0
    <3>1. s1 \in Seq(Frames(ast))
      BY <1>1, <1>7, AppendProperties
    <3> QED BY <1>2, <1>7, <3>1, OpenPush DEF BlockTokens
  <2>3. Open(ast, as) \in Nat
    BY <1>1, OpenType
  <2> QED BY <1>1, <2>1, <2>2, <2>3
<1>17. ScopesNext
  BY <1>3, <1>4 DEF ScopesNext
<1>18. ScopesInv'
  BY <1>17, StepInv DEF TraversalInv
<1>19. Declared' \subseteq ds
  BY <1>4, InsertAdds DEF BeginFunction, ds
<1>20. Walk(ast, s2, Declared')
  BY <1>15, <1>19 DEF Walk
<1>21. Depth' = Depth + 1
  <2>1. symbol_stack \in Seq(Tables(Name) \cup {NULL})
    BY DEF TraversalInv, ScopesInv, Good, Stacks
  <2>2. symbol_stack'
          = Append([symbol_stack EXCEPT
                      ![1] = TableWith(TableAt(1), d, lexinfo(d))], NULL)
    BY <1>4 DEF BeginFunction
  <2>3. Len([symbol_stack EXCEPT ![1] = TableWith(TableAt(1), d, lexinfo(d))])
          = Len(symbol_stack)
    BY <2>1
  <2> QED BY <2>1, <2>2, <2>3 DEF Depth
<1>22. Depth' = 1 + Open(ast, s2)
  BY <1>16, <1>21 DEF TraversalInv
<1> QED BY <1>5, <1>17, <1>18, <1>20, <1>22 DEF TraversalInv

-----------------------------------------------------------------------------
(* The traversal keeps its invariant, and uses the tables as Scopes does.  *)

LEMMA TraversalInit == Init => TraversalInv
<1> SUFFICES ASSUME Init PROVE TraversalInv
  OBVIOUS
<1>1. ast \in Programs /\ ScopesInit /\ calls = <<Frame(1)>>
  BY DEF Init
<1>2. WellFormed(ast, Name)
  BY <1>1, Tree
<1>3. 1 \in DOMAIN ast /\ ast[1].symbol = "TOK_ROOT"
  BY <1>2 DEF WellFormed
<1>4. ScopesInv
  BY <1>1, InitInv
<1>5. Declared = {} /\ Depth = 1
  BY <1>1 DEF ScopesInit, Declared, Depth
<1>6. /\ calls \in Seq(Frames(ast)) /\ Len(calls) = 1
      /\ \A i \in 1..Len(calls) : calls[i].node = 1
  BY <1>1, <1>3 DEF Frame, Frames
<1>7. Nested(ast, calls)
  <2>1. \A i, j \in 1..Len(calls) : ~ (i < j)
    BY <1>6
  <2> QED BY <2>1 DEF Nested
<1>8. Walk(ast, calls, Declared)
  BY <1>3, <1>5, <1>6, <1>7 DEF Walk, Unstacked, Special, VariableTypes
<1>9. Open(ast, calls) = 0
  <2>1. OpenFrames(ast, calls) = {}
    BY <1>3, <1>6 DEF OpenFrames, BlockTokens
  <2> QED BY <2>1, FS_EmptySet DEF Open
<1> QED BY <1>1, <1>4, <1>5, <1>8, <1>9 DEF TraversalInv

(* A declaration of a variable or of a parameter. *)
LEMMA NextDeclares ==
  ASSUME TraversalInv, Running, HasNext,
         \/ symbol(Caller.node) = "TOK_PARAMLIST"
         \/ symbol(Next_node) \in VariableTypes
  PROVE  Declaration(ast, Next_node, "TOK_DECLID")
<1> DEFINE n == Caller.node
<1>1. /\ WellFormed(ast, Name) /\ n \in DOMAIN ast
      /\ symbol(n) \notin Unstacked
  BY Goes
<1>2. PICK i \in 1..Len(Path(ast, n)) : Next_node = Path(ast, n)[i]
  BY Goes
<1> QED BY <1>1, <1>2, TypesDeclare DEF symbol

LEMMA IdentStep ==
  ASSUME TraversalInv, Running, symbol(Caller.node) = "TOK_IDENT",
         UseSymbol(Caller.node, lexinfo(Caller.node))
  PROVE  ScopesNext /\ Depth' = Depth /\ Declared' = Declared
<1> DEFINE n == Caller.node
<1>1. /\ WellFormed(ast, Name) /\ DOMAIN ast \subseteq Node
      /\ calls \in Seq(Frames(ast)) /\ calls # <<>>
      /\ \A d \in Declared : ast[d].symbol = "TOK_DECLID"
  BY Tree DEF TraversalInv, Walk, Running
<1>2. n \in DOMAIN ast
  <2>1. Caller \in Frames(ast)
    BY <1>1, FrontFacts DEF Caller
  <2> QED BY <2>1 DEF Frames
<1>3. n \in Node \ Declared
  BY <1>1, <1>2 DEF symbol
<1>4. lexinfo(n) \in Name
  BY <1>1, <1>2 DEF WellFormed, symbol, lexinfo
<1> QED BY <1>3, <1>4 DEF ScopesNext, UseSymbol, Depth, Declared

LEMMA QuietReturn ==
  ASSUME TraversalInv, Running, Return, ast' = ast, UNCHANGED scopeVars,
         symbol(Caller.node) \notin BlockTokens
  PROVE  [ScopesNext]_scopeVars /\ TraversalInv'
<1>1. Depth' = Depth /\ Declared' = Declared
  BY DEF scopeVars, Depth, Declared
<1> QED BY <1>1, LeaveStep DEF Return

LEMMA TraversalStep ==
  TraversalInv /\ [Next]_vars => [ScopesNext]_scopeVars /\ TraversalInv'
<1> SUFFICES ASSUME TraversalInv, [Next]_vars
             PROVE  [ScopesNext]_scopeVars /\ TraversalInv'
  OBVIOUS
<1>1. CASE VisitDeclaration
  <2>1. /\ Running /\ HasNext /\ symbol(Next_node) \in VariableTypes
        /\ Symbolize(Next_node, {}) /\ Call(<<>>) /\ ast' = ast
    BY <1>1 DEF VisitDeclaration, Visiting
  <2>2. Declaration(ast, Next_node, "TOK_DECLID")
    BY <2>1, NextDeclares
  <2> QED BY <2>1, <2>2, SymbolizeStep
<1>2. CASE DeclareParam
  <2>1. /\ Running /\ HasNext /\ symbol(Caller.node) = "TOK_PARAMLIST"
        /\ Symbolize(Next_node, {"param"}) /\ Call(<<>>) /\ ast' = ast
    BY <1>2 DEF DeclareParam
  <2>2. Declaration(ast, Next_node, "TOK_DECLID")
    BY <2>1, NextDeclares
  <2> QED BY <2>1, <2>2, SymbolizeStep
<1>3. CASE VisitVoid
  <2>1. Running /\ HasNext /\ Call(<<>>) /\ ast' = ast /\ UNCHANGED scopeVars
    BY <1>3 DEF VisitVoid, Visiting
  <2> QED BY <2>1, PassStep
<1>4. CASE VisitStruct
  <2>1. Running /\ HasNext /\ Call(<<>>) /\ ast' = ast /\ UNCHANGED scopeVars
    BY <1>4 DEF VisitStruct, Visiting
  <2> QED BY <2>1, PassStep
<1>5. CASE VisitFunction
  <2>1. /\ Running /\ HasNext /\ ast' = ast
        /\ symbol(Next_node) \in {"TOK_FUNCTION", "TOK_PROTOTYPE"}
    BY <1>5 DEF VisitFunction, Visiting
  <2>2. \/ Call(<<>>) /\ UNCHANGED scopeVars
        \/ EnterFunction(Next_node,
                         GlobalSymbol(lexinfo(declared(child(Next_node, 0)))))
    BY <1>5 DEF VisitFunction, Redeclare, SkipFunction
  <2>3. CASE Call(<<>>) /\ UNCHANGED scopeVars
    BY <2>1, <2>3, PassStep
  <2>4. ASSUME NEW prev, EnterFunction(Next_node, prev)
        PROVE  [ScopesNext]_scopeVars /\ TraversalInv'
    BY <2>1, <2>4, FunctionStep
  <2> QED BY <2>2, <2>3, <2>4
<1>6. CASE VisitNode
  <2>1. /\ Running /\ HasNext /\ symbol(Next_node) \notin Special
        /\ Call(<<Frame(Next_node)>>) /\ ast' = ast
        /\ IF symbol(Next_node) = "TOK_BLOCK" THEN EnterBlock
           ELSE UNCHANGED scopeVars
    BY <1>6 DEF VisitNode
  <2> QED BY <2>1, EnterStep
<1>7. CASE EndParams
  <2>1. /\ Running /\ symbol(Caller.node) = "TOK_PARAMLIST" /\ Return
        /\ ast' = ast /\ UNCHANGED scopeVars
    BY <1>7 DEF EndParams, Returning
  <2>2. symbol(Caller.node) \notin BlockTokens
    BY <2>1 DEF BlockTokens
  <2> QED BY <2>1, <2>2, QuietReturn
<1>8. CASE EndFunction
  <2>1. /\ Running /\ symbol(Caller.node) \in {"TOK_FUNCTION", "TOK_PROTOTYPE"}
        /\ Return /\ LeaveBlock /\ ast' = ast
    BY <1>8 DEF EndFunction, Returning
  <2>2. symbol(Caller.node) \in BlockTokens
    BY <2>1 DEF BlockTokens
  <2> QED BY <2>1, <2>2, LeaveStep DEF Return
<1>9. CASE LeaveIdent
  <2>1. /\ Running /\ symbol(Caller.node) = "TOK_IDENT" /\ Return
        /\ UseSymbol(Caller.node, lexinfo(Caller.node)) /\ ast' = ast
    BY <1>9 DEF LeaveIdent, Returning
  <2>2. symbol(Caller.node) \notin BlockTokens
    BY <2>1 DEF BlockTokens
  <2>3. ScopesNext /\ Depth' = Depth /\ Declared' = Declared
    BY <2>1, IdentStep
  <2> QED BY <2>1, <2>2, <2>3, LeaveStep DEF Return
<1>10. CASE LeaveSelector
  <2>1. /\ Running /\ symbol(Caller.node) = "." /\ Return
        /\ ast' = ast /\ UNCHANGED scopeVars
    BY <1>10 DEF LeaveSelector, Returning
  <2>2. symbol(Caller.node) \notin BlockTokens
    BY <2>1 DEF BlockTokens
  <2> QED BY <2>1, <2>2, QuietReturn
<1>11. CASE LeaveAllocator
  <2>1. /\ Running /\ symbol(Caller.node) \in {"TOK_NEW", "TOK_NEWARRAY"}
        /\ Return /\ ast' = ast /\ UNCHANGED scopeVars
    BY <1>11 DEF LeaveAllocator, Returning
  <2>2. symbol(Caller.node) \notin BlockTokens
    BY <2>1 DEF BlockTokens
  <2> QED BY <2>1, <2>2, QuietReturn
<1>12. CASE LeaveCall
  <2>1. /\ Running /\ symbol(Caller.node) = "TOK_CALL"
        /\ Return /\ ast' = ast /\ UNCHANGED scopeVars
    BY <1>12 DEF LeaveCall, Returning
  <2>2. symbol(Caller.node) \notin BlockTokens
    BY <2>1 DEF BlockTokens
  <2> QED BY <2>1, <2>2, QuietReturn
<1>13. CASE LeaveNode
  <2>1. /\ Running /\ Return /\ ast' = ast
        /\ symbol(Caller.node) \notin {"TOK_FUNCTION", "TOK_PROTOTYPE"}
        /\ IF symbol(Caller.node) = "TOK_BLOCK" THEN LeaveBlock
           ELSE UNCHANGED scopeVars
    BY <1>13 DEF LeaveNode
  <2>2. CASE symbol(Caller.node) = "TOK_BLOCK"
    <3>1. symbol(Caller.node) \in BlockTokens
      BY <2>2 DEF BlockTokens
    <3> QED BY <2>1, <2>2, <3>1, LeaveStep DEF Return
  <2>3. CASE symbol(Caller.node) # "TOK_BLOCK"
    <3>1. symbol(Caller.node) \notin BlockTokens
      BY <2>1, <2>3 DEF BlockTokens
    <3> QED BY <2>1, <2>3, <3>1, QuietReturn
  <2> QED BY <2>2, <2>3
<1>14. CASE UNCHANGED vars
  <2>1. UNCHANGED scopeVars /\ ast' = ast /\ calls' = calls
    BY <1>14 DEF vars, semVars
  <2>2. ScopesInv'
    BY <2>1, StepInv DEF TraversalInv
  <2>3. Declared' = Declared /\ Depth' = Depth
    BY <2>1 DEF scopeVars, Declared, Depth
  <2> QED BY <2>1, <2>2, <2>3 DEF TraversalInv
<1> QED BY <1>1, <1>2, <1>3, <1>4, <1>5, <1>6, <1>7, <1>8, <1>9, <1>10, <1>11,
           <1>12, <1>13, <1>14 DEF Next

(* In every state of the semantic pass, its call stack is a path through   *)
(* the tree, every block is open that this path is in and no other, and    *)
(* what was declared comes before all that is still to be visited.         *)
THEOREM TraversalCorrect == Spec => []TraversalInv
BY TraversalInit, TraversalStep, PTL DEF Spec

(* The pass uses the symbol tables as Scopes allows, on every program that *)
(* the parser builds: it gives no node two symbols, although a body is     *)
(* analysed after the parameters and a prototype before its function.      *)
THEOREM PassObeysScopes == Spec => ObeysScopes
<1>1. Init => ScopesInit
  BY DEF Init
<1> QED BY <1>1, TraversalInit, TraversalStep, PTL
        DEF Spec, ObeysScopes, ScopesSpec

(* As many blocks are open as the call stack has blocks and functions.     *)
THEOREM BlocksMatchCalls == Spec => []ScopesMatchCalls
<1>1. TraversalInv => ScopesMatchCalls
  <2> SUFFICES ASSUME TraversalInv PROVE ScopesMatchCalls
    OBVIOUS
  <2>1. DOMAIN calls = 1..Len(calls) /\ Depth = 1 + Open(ast, calls)
    BY LenProperties DEF TraversalInv, Walk
  <2> QED BY <2>1 DEF ScopesMatchCalls, Open, OpenFrames, BlockTokens, symbol
<1> QED BY <1>1, TraversalCorrect, PTL

(* No two symbols of a program get the same mangled C name. *)
THEOREM PassNamesUnique == Spec => []MangledNamesUnique
BY PassObeysScopes, NamesUnique, PTL DEF ObeysScopes

(* Throughout the pass, a table holds exactly the symbols of its block.    *)
THEOREM PassTablesExact == Spec => []TablesExact
BY PassObeysScopes, TablesAreExact, PTL DEF ObeysScopes

(* The pass binds every identifier as lexical scoping says. *)
THEOREM PassIsLexical == Spec => ImplementsLexicalScope
BY PassObeysScopes, Refinement, PTL DEF ObeysScopes

-----------------------------------------------------------------------------
(* Checks.  Of those in Loud one that fails says so.                       *)

Checks == {Pass, Complain, Silent}
Loud == {Pass, Complain}

LEMMA CheckFacts ==
  ASSUME NEW c \in Checks
  PROVE  /\ c.ok \in BOOLEAN /\ c.said \in BOOLEAN /\ (c.said => ~ c.ok)
         /\ c \in Loud => (c.said <=> ~ c.ok)
         /\ c # Pass => ~ c.ok
         /\ (c.said <=> ~ c.ok) => c \in Loud
<1>1. CASE c = Pass
  BY <1>1 DEF Loud, Pass, Complain
<1>2. CASE c = Complain
  BY <1>2 DEF Loud, Pass, Complain
<1>3. CASE c = Silent
  <2>1. c.ok = FALSE /\ c.said = FALSE
    BY <1>3 DEF Silent
  <2>2. c \notin Loud /\ c # Pass
    BY <2>1 DEF Loud, Pass, Complain
  <2> QED BY <2>1, <2>2
<1> QED BY <1>1, <1>2, <1>3 DEF Checks

LEMMA CheckLoud == ASSUME NEW P PROVE Check(P) \in Loud /\ Check(P) \in Checks
BY DEF Check, Loud, Checks

LEMMA SimpleChecks ==
  ASSUME NEW a, NEW s
  PROVE  /\ attr_check_required(a, s) \in Loud
         /\ attr_check_notallowed(a, s) \in Loud
         /\ attr_check_any(a, s) \in Loud
BY CheckLoud DEF attr_check_required, attr_check_notallowed, attr_check_any

LEMMA CompatibleChecks ==
  ASSUME NEW a, NEW b
  PROVE  /\ attr_check_compatible(a, b) \in Checks
         /\ a # {} /\ b # {} => attr_check_compatible(a, b) \in Loud
BY DEF attr_check_compatible, Checks, Loud

LEMMA AndThenChecks ==
  ASSUME NEW c1, NEW c2
  PROVE  /\ c1 \in Loud /\ c2 \in Loud => AndThen(c1, c2) \in Loud
         /\ c1 \in Checks /\ c2 \in Checks => AndThen(c1, c2) \in Checks
BY DEF AndThen

(* All of some checks is a check, and loud if one of those that fail is. *)
LEMMA AllChecks ==
  ASSUME NEW cs \in Seq(Checks)
  PROVE  /\ All(cs) \in Checks
         /\ (\A i \in DOMAIN cs : ~ cs[i].ok => \E j \in DOMAIN cs : cs[j].said)
              => All(cs) \in Loud
<1>1. \A i \in DOMAIN cs : cs[i] \in Checks
  OBVIOUS
<1>2. \A i \in DOMAIN cs : cs[i].said => ~ cs[i].ok
  BY <1>1, CheckFacts
<1> DEFINE ok == \A i \in DOMAIN cs : cs[i].ok
           said == \E i \in DOMAIN cs : cs[i].said
<1>3. All(cs) = [ok |-> ok, said |-> said]
  BY DEF All
<1>4. ok \in BOOLEAN /\ said \in BOOLEAN /\ (ok => ~ said)
  BY <1>2
<1>5. (\A i \in DOMAIN cs : ~ cs[i].ok => \E j \in DOMAIN cs : cs[j].said)
        => (~ ok => said)
  OBVIOUS
<1> HIDE DEF ok, said
<1>6. All(cs) \in Checks
  BY <1>3, <1>4 DEF Checks, Pass, Complain, Silent
<1>7. (~ ok => said) => All(cs) \in Loud
  BY <1>3, <1>4 DEF Loud, Pass, Complain
<1> QED BY <1>5, <1>6, <1>7

LEMMA AllLoud ==
  ASSUME NEW cs \in Seq(Loud)
  PROVE  All(cs) \in Loud
<1>1. cs \in Seq(Checks)
  BY DEF Loud, Checks
<1>2. \A i \in DOMAIN cs : cs[i] \in Loud
  OBVIOUS
<1>3. \A i \in DOMAIN cs : ~ cs[i].ok => cs[i].said
  BY <1>2 DEF Loud, Pass, Complain
<1> QED BY <1>1, <1>3, AllChecks

LEMMA IntChecks ==
  ASSUME NEW a, NEW b
  PROVE  IsInt(a) \in Seq(Loud) /\ IsInt(a) \o IsInt(b) \in Seq(Loud)
BY SimpleChecks DEF IsInt

-----------------------------------------------------------------------------
(* Handlers. *)

(* A result of the right types, which says nothing unless it is wrong.     *)
Judged(r) ==
  /\ r.attributes \in SUBSET Attr
  /\ r.type_name \in Name \cup {NULL}
  /\ r.said => ~ r.ok

(* It does not fail silently. *)
Clear(r) == ~ r.ok => r.said

LEMMA ResultJudged ==
  ASSUME NEW A \in SUBSET Attr, NEW t \in Name \cup {NULL}, NEW c \in Checks
  PROVE  /\ Judged(Result(A, t, c)) /\ Result(A, t, c).attributes = A
         /\ c \in Loud => Clear(Result(A, t, c))
BY CheckFacts DEF Judged, Clear, Result

LEMMA Attributes ==
  ASSUME NEW a \in SUBSET Attr
  PROVE  /\ a \cap ANY \in SUBSET Attr /\ a \cap BASE \in SUBSET Attr
         /\ a \cup {"vreg"} \in SUBSET Attr
         /\ (a \cap ANY) \cup {"vreg"} \in SUBSET Attr
         /\ {"vaddr", "lval"} \cup (a \cap ANY) \in SUBSET Attr
         /\ {"lval", "vaddr"} \cup (a \cap BASE) \in SUBSET Attr
         /\ (a \cap BASE) \cup {"array", "vreg"} \in SUBSET Attr
         /\ (a \cup {"vreg"}) \ {"function"} \in SUBSET Attr
         /\ {} \in SUBSET Attr
BY DEF Attr, Base, ANY, BASE, PRIMITIVE, REFERENCE

LEMMA LoudIsCheck == Loud \subseteq Checks
BY DEF Loud, Checks

(* The checks of two operands: one that has no type is complained of. *)
LEMMA OperandsLoud ==
  ASSUME NEW a, NEW b, NEW cs \in Seq(Checks), NEW k \in DOMAIN cs,
         cs[k] = attr_check_compatible(a, b),
         \A i \in DOMAIN cs : i # k => cs[i] \in Loud,
         a = {} => \E i \in DOMAIN cs : cs[i] = Complain,
         b = {} => \E i \in DOMAIN cs : cs[i] = Complain
  PROVE  All(cs) \in Loud
<1>1. \A i \in DOMAIN cs : cs[i] = Complain => cs[i].said
  BY DEF Complain
<1>2. \A i \in DOMAIN cs : cs[i] \in Loud /\ ~ cs[i].ok => cs[i].said
  BY DEF Loud, Pass, Complain
<1>3. a # {} /\ b # {} => cs[k] \in Loud
  BY CompatibleChecks
<1>4. \A i \in DOMAIN cs : ~ cs[i].ok => \E j \in DOMAIN cs : cs[j].said
  BY <1>1, <1>2, <1>3
<1> QED BY <1>4, AllChecks

LEMMA NothingOfAny ==
  ASSUME NEW s
  PROVE  attr_check_any({}, s) = Complain
BY DEF attr_check_any, Check

LEMMA ComparisonLoud ==
  ASSUME NEW op, NEW a, NEW b
  PROVE  \E c \in Loud : attr_handle_comparison(op, a, b)
                           = Result({"bool", "vreg"}, NULL, c)
<1>1. CASE op \in {"TOK_EQ", "TOK_NE"}
  <2> DEFINE c1 == attr_check_compatible(a, b)
             c2 == attr_check_any(a, ANY)
             c3 == attr_check_any(b, ANY)
             cs == <<c1, c2, c3>>
  <2>1. /\ c1 \in Checks /\ c2 \in Loud /\ c3 \in Loud
        /\ a = {} => c2 = Complain
        /\ b = {} => c3 = Complain
    BY SimpleChecks, CompatibleChecks, NothingOfAny
  <2>2. c2 \in Checks /\ c3 \in Checks
    BY <2>1, LoudIsCheck
  <2> HIDE DEF c1, c2, c3
  <2>3. /\ cs \in Seq(Checks) /\ DOMAIN cs = 1..3
        /\ cs[1] = c1 /\ cs[2] = c2 /\ cs[3] = c3
    BY <2>1, <2>2
  <2> HIDE DEF cs
  <2>4. 1 \in DOMAIN cs /\ 2 \in DOMAIN cs /\ 3 \in DOMAIN cs
        /\ \A i \in DOMAIN cs : i = 1 \/ i = 2 \/ i = 3
    BY <2>3
  <2>5. All(cs) \in Loud
    BY <2>1, <2>3, <2>4, OperandsLoud DEF c1
  <2> QED BY <1>1, <2>5 DEF attr_handle_comparison, cs, c1, c2, c3
<1>2. CASE op \notin {"TOK_EQ", "TOK_NE"}
  <2> DEFINE c1 == attr_check_compatible(a, b)
             c2 == attr_check_any(a, PRIMITIVE)
             c3 == attr_check_any(b, PRIMITIVE)
             c4 == attr_check_notallowed(b, {"array"})
             c5 == attr_check_notallowed(a, {"array"})
             cs == <<c1, c2, c3, c4, c5>>
  <2>1. /\ c1 \in Checks
        /\ c2 \in Loud /\ c3 \in Loud /\ c4 \in Loud /\ c5 \in Loud
        /\ a = {} => c2 = Complain
        /\ b = {} => c3 = Complain
    BY SimpleChecks, CompatibleChecks, NothingOfAny
  <2>2. c2 \in Checks /\ c3 \in Checks /\ c4 \in Checks /\ c5 \in Checks
    BY <2>1, LoudIsCheck
  <2> HIDE DEF c1, c2, c3, c4, c5
  <2>3. /\ cs \in Seq(Checks) /\ DOMAIN cs = 1..5
        /\ cs[1] = c1 /\ cs[2] = c2 /\ cs[3] = c3 /\ cs[4] = c4 /\ cs[5] = c5
    BY <2>1, <2>2
  <2> HIDE DEF cs
  <2>4. 1 \in DOMAIN cs /\ 2 \in DOMAIN cs /\ 3 \in DOMAIN cs
        /\ \A i \in DOMAIN cs : i = 1 \/ i = 2 \/ i = 3 \/ i = 4 \/ i = 5
    BY <2>3
  <2>5. All(cs) \in Loud
    BY <2>1, <2>3, <2>4, OperandsLoud DEF c1
  <2> QED BY <1>2, <2>5 DEF attr_handle_comparison, cs, c1, c2, c3, c4, c5
<1> QED BY <1>1, <1>2

LEMMA VardeclLoud ==
  ASSUME NEW a, NEW b
  PROVE  \E c \in Loud : attr_handle_vardecl(a, b) = Result({}, NULL, c)
<1> DEFINE c1 == attr_check_compatible(a, b)
           c2 == attr_check_any(a, ANY)
           c3 == attr_check_any(b, ANY)
           c4 == attr_check_required(a, {"lval"})
           cs == <<c1, c2, c3, c4>>
<1>1. /\ c1 \in Checks /\ c2 \in Loud /\ c3 \in Loud /\ c4 \in Loud
      /\ a = {} => c2 = Complain
      /\ b = {} => c3 = Complain
  BY SimpleChecks, CompatibleChecks, NothingOfAny
<1>2. c2 \in Checks /\ c3 \in Checks /\ c4 \in Checks
  BY <1>1, LoudIsCheck
<1> HIDE DEF c1, c2, c3, c4
<1>3. /\ cs \in Seq(Checks) /\ DOMAIN cs = 1..4
      /\ cs[1] = c1 /\ cs[2] = c2 /\ cs[3] = c3 /\ cs[4] = c4
  BY <1>1, <1>2
<1> HIDE DEF cs
<1>4. 1 \in DOMAIN cs /\ 2 \in DOMAIN cs /\ 3 \in DOMAIN cs
      /\ \A i \in DOMAIN cs : i = 1 \/ i = 2 \/ i = 3 \/ i = 4
  BY <1>3
<1>5. All(cs) \in Loud
  BY <1>1, <1>3, <1>4, OperandsLoud DEF c1
<1> QED BY <1>5 DEF attr_handle_vardecl, cs, c1, c2, c3, c4

(* An argument that is compared with a parameter that has a type. *)
LEMMA ParameterLoud ==
  ASSUME NEW a, NEW param
  PROVE  /\ attr_compare_params(a, param) \in Checks
         /\ param # {} => attr_compare_params(a, param) \in Loud
<1> DEFINE c1 == attr_check_compatible(a, param)
           c2 == attr_check_any(a, ANY)
           cs == <<c1, c2>>
<1>1. c1 \in Checks /\ c2 \in Loud /\ (a = {} => c2 = Complain)
  BY SimpleChecks, CompatibleChecks, NothingOfAny
<1>2. c2 \in Checks
  BY <1>1, LoudIsCheck
<1> HIDE DEF c1, c2
<1>3. /\ cs \in Seq(Checks) /\ DOMAIN cs = 1..2 /\ cs[1] = c1 /\ cs[2] = c2
  BY <1>1, <1>2
<1> HIDE DEF cs
<1>4. 1 \in DOMAIN cs /\ 2 \in DOMAIN cs /\ \A i \in DOMAIN cs : i = 1 \/ i = 2
  BY <1>3
<1>5. All(cs) \in Checks
  BY <1>3, AllChecks
<1>6. param # {} => All(cs) \in Loud
  BY <1>1, <1>3, <1>4, OperandsLoud DEF c1
<1> QED BY <1>5, <1>6 DEF attr_compare_params, cs, c1, c2

(* The right types and at least one attribute, and no silent failure. *)
Typed(r) == Judged(r) /\ Clear(r) /\ r.attributes # {}

LEMMA ResultTyped ==
  ASSUME NEW A \in SUBSET Attr, A # {}, NEW t \in Name \cup {NULL},
         NEW c \in Loud
  PROVE  Typed(Result(A, t, c))
BY ResultJudged, LoudIsCheck DEF Typed

LEMMA TwoLoud ==
  ASSUME NEW c1 \in Loud, NEW c2 \in Loud
  PROVE  All(<<c1, c2>>) \in Loud
<1>1. <<c1, c2>> \in Seq(Loud)
  OBVIOUS
<1> QED BY <1>1, AllLoud

LEMMA NoTypeName == NULL \in Name \cup {NULL} /\ {} \in SUBSET Attr
OBVIOUS

LEMMA BinopTyped ==
  ASSUME NEW a, NEW b
  PROVE  Typed(attr_handle_binop(a, b))
<1>1. All(IsInt(a) \o IsInt(b)) \in Loud
  BY IntChecks, AllLoud
<1>2. {"int", "vreg"} \in SUBSET Attr
  BY DEF Attr, Base
<1> QED BY <1>1, <1>2, NoTypeName, ResultTyped DEF attr_handle_binop

Unops == {"TOK_POS", "TOK_NEG", "!", "TOK_ORD", "TOK_CHR"}

LEMMA UnopTyped ==
  ASSUME NEW op \in Unops, NEW a
  PROVE  Typed(attr_handle_unop(op, a))
<1> DEFINE c1 == attr_check_required(a, {unop_childtype(op)})
           c2 == attr_check_notallowed(a, {"array"})
<1>1. c1 \in Loud /\ c2 \in Loud
  BY SimpleChecks
<1> HIDE DEF c1, c2
<1>2. All(<<c1, c2>>) \in Loud
  BY <1>1, TwoLoud
<1>3. {"vreg", unop_proptype(op)} \in SUBSET Attr
  <2>1. unop_proptype(op) \in {"int", "char", "bool"}
    BY DEF unop_proptype, Unops
  <2> QED BY <2>1 DEF Attr, Base
<1> QED BY <1>2, <1>3, NoTypeName, ResultTyped DEF attr_handle_unop, c1, c2

LEMMA ComparisonTyped ==
  ASSUME NEW op, NEW a, NEW b
  PROVE  Typed(attr_handle_comparison(op, a, b))
<1>1. {"bool", "vreg"} \in SUBSET Attr
  BY DEF Attr, Base
<1> QED BY <1>1, ComparisonLoud, NoTypeName, ResultTyped

(* The size of an array or a string. *)
LEMMA SizeLoud ==
  ASSUME NEW size
  PROVE  AndThen(attr_check_required(size, {"int"}),
                 attr_check_notallowed(size, {"array"})) \in Loud
BY SimpleChecks, AndThenChecks

LEMMA AllocatorsTyped ==
  ASSUME NEW a \in SUBSET Attr, NEW t \in Name \cup {NULL}, NEW size
  PROVE  /\ Typed(attr_handle_new(a, t))
         /\ Typed(attr_handle_newarray(a, t, size))
         /\ Typed(attr_handle_newstring(size))
<1>1. Pass \in Loud
  BY DEF Loud
<1>2. /\ a \cup {"vreg"} \in SUBSET Attr
      /\ (a \cap BASE) \cup {"array", "vreg"} \in SUBSET Attr
  BY Attributes
<1>3. {"string", "vreg"} \in SUBSET Attr
  BY DEF Attr, Base
<1>4. Typed(attr_handle_new(a, t))
  BY <1>1, <1>2, ResultTyped DEF attr_handle_new
<1>5. Typed(attr_handle_newarray(a, t, size))
  BY <1>2, SizeLoud, ResultTyped DEF attr_handle_newarray
<1>6. Typed(attr_handle_newstring(size))
  BY <1>3, SizeLoud, NoTypeName, ResultTyped DEF attr_handle_newstring
<1> QED BY <1>4, <1>5, <1>6

Constants == {"TOK_INTCON", "TOK_STRINGCON", "TOK_CHARCON", "TOK_FALSE",
              "TOK_TRUE", "TOK_NULL"}

LEMMA ConstantTyped ==
  ASSUME NEW token \in Constants
  PROVE  Typed(attr_handle_constant(token))
<1>1. constant_type(token) \in {"bool", "string", "char", "int", "null"}
  BY DEF constant_type, Constants
<1>2. {constant_type(token), "const"} \in SUBSET Attr
  BY <1>1 DEF Attr, Base
<1>3. Pass \in Loud
  BY DEF Loud
<1> QED BY <1>2, <1>3, NoTypeName, ResultTyped DEF attr_handle_constant

LEMMA SelectorTyped ==
  ASSUME NEW a, NEW field \in SUBSET Attr, NEW t \in Name \cup {NULL}
  PROVE  Typed(attr_handle_field_selector(a, field, t))
<1> DEFINE c1 == attr_check_required(a, {"struct"})
           c2 == attr_check_required(field, {"field"})
<1>1. c1 \in Loud /\ c2 \in Loud
  BY SimpleChecks
<1> HIDE DEF c1, c2
<1>2. All(<<c1, c2>>) \in Loud
  BY <1>1, TwoLoud
<1>3. {"vaddr", "lval"} \cup (field \cap ANY) \in SUBSET Attr
  BY Attributes
<1> QED BY <1>2, <1>3, ResultTyped DEF attr_handle_field_selector, c1, c2

LEMMA AssignmentTyped ==
  ASSUME NEW a, NEW b \in SUBSET Attr, NEW t \in Name \cup {NULL}
  PROVE  Typed(attr_handle_assignment(a, b, t))
<1> DEFINE c1 == attr_check_required(a, {"lval"})
           c2 == attr_check_compatible(a, b)
           c3 == attr_check_any(a, ANY)
           c4 == attr_check_any(b, ANY)
           cs == <<c1, c2, c3, c4>>
<1>1. /\ c2 \in Checks /\ c1 \in Loud /\ c3 \in Loud /\ c4 \in Loud
      /\ a = {} => c3 = Complain
      /\ b = {} => c4 = Complain
  BY SimpleChecks, CompatibleChecks, NothingOfAny
<1>2. c1 \in Checks /\ c3 \in Checks /\ c4 \in Checks
  BY <1>1, LoudIsCheck
<1> HIDE DEF c1, c2, c3, c4
<1>3. /\ cs \in Seq(Checks) /\ DOMAIN cs = 1..4
      /\ cs[1] = c1 /\ cs[2] = c2 /\ cs[3] = c3 /\ cs[4] = c4
  BY <1>1, <1>2
<1> HIDE DEF cs
<1>4. 2 \in DOMAIN cs /\ 3 \in DOMAIN cs /\ 4 \in DOMAIN cs
      /\ \A i \in DOMAIN cs : i = 1 \/ i = 2 \/ i = 3 \/ i = 4
  BY <1>3
<1>5. All(cs) \in Loud
  BY <1>1, <1>3, <1>4, OperandsLoud DEF c2
<1>6. (b \cap ANY) \cup {"vreg"} \in SUBSET Attr
  BY Attributes
<1>7. Typed(Result((b \cap ANY) \cup {"vreg"}, t, All(cs)))
  BY <1>5, <1>6, ResultTyped
<1> QED BY <1>7 DEF attr_handle_assignment, cs, c1, c2, c3, c4

(* Indexing something that has no type fails silently. *)
LEMMA IndexJudged ==
  ASSUME NEW a \in SUBSET Attr, NEW t \in Name \cup {NULL}, NEW b
  PROVE  LET r == attr_handle_index(a, t, b) IN
         Judged(r) /\ r.attributes # {} /\ (a # {} => Clear(r))
<1> DEFINE r == attr_handle_index(a, t, b)
<1>1. CASE "array" \in a
  <2> DEFINE cs == IsInt(b) \o <<attr_check_any(a, BASE)>>
             A == {"lval", "vaddr"} \cup (a \cap BASE)
  <2>1. IsInt(b) \in Seq(Loud) /\ <<attr_check_any(a, BASE)>> \in Seq(Loud)
    BY IntChecks, SimpleChecks
  <2>2. cs \in Seq(Loud)
    BY <2>1
  <2>3. A \in SUBSET Attr /\ A # {}
    BY Attributes
  <2>4. r = Result(A, t, All(cs))
    BY <1>1 DEF attr_handle_index
  <2> HIDE DEF cs, A, r
  <2>5. Typed(r)
    BY <2>2, <2>3, <2>4, AllLoud, ResultTyped
  <2> QED BY <2>5 DEF Typed, r
<1>2. CASE "array" \notin a
  <2> DEFINE chars == {"char", "vaddr", "lval"}
             A == {"vaddr", "lval"}
  <2>1. /\ chars \in SUBSET Attr /\ chars # {}
        /\ A \in SUBSET Attr /\ A # {}
    BY DEF Attr, Base
  <2>2. \/ r = Result(chars, NULL, Pass)
        \/ r = Result(chars, NULL, Complain)
        \/ a = {} /\ r = Result(A, NULL, Silent)
    BY <1>2 DEF attr_handle_index
  <2>3. Pass \in Loud /\ Complain \in Loud /\ Silent \in Checks
    BY DEF Loud, Checks
  <2> HIDE DEF chars, A, r
  <2>4. CASE a = {} /\ r = Result(A, NULL, Silent)
    BY <2>1, <2>3, <2>4, NoTypeName, ResultJudged DEF r
  <2>5. ASSUME NEW c \in Loud, r = Result(chars, NULL, c)
        PROVE  Typed(r)
    BY <2>1, <2>5, NoTypeName, ResultTyped
  <2>6. Typed(r) => Judged(r) /\ r.attributes # {} /\ Clear(r)
    BY DEF Typed
  <2> QED BY <2>2, <2>3, <2>4, <2>5, <2>6 DEF r
<1> QED BY <1>1, <1>2

(* A return of something that has no type, or from a function of none,     *)
(* fails silently.                                                         *)
LEMMA StatementsJudged ==
  ASSUME NEW a, NEW b, NEW func
  PROVE  /\ Judged(attr_handle_vardecl(a, b))
         /\ Clear(attr_handle_vardecl(a, b))
         /\ Judged(attr_handle_conditional(a))
         /\ Clear(attr_handle_conditional(a))
         /\ Judged(attr_handle_returnvoid(func))
         /\ Clear(attr_handle_returnvoid(func))
         /\ Judged(attr_handle_return(func, a))
         /\ a # {} /\ (func # {} \/ func = NULL)
              => Clear(attr_handle_return(func, a))
         /\ Judged(Result({}, NULL, Pass)) /\ Clear(Result({}, NULL, Pass))
<1>1. \A c \in Checks : /\ Judged(Result({}, NULL, c))
                        /\ c \in Loud => Clear(Result({}, NULL, c))
  BY NoTypeName, ResultJudged
<1>2. Loud \subseteq Checks /\ Pass \in Loud /\ Complain \in Loud
  BY LoudIsCheck DEF Loud
<1>3. \E c \in Loud : attr_handle_vardecl(a, b) = Result({}, NULL, c)
  BY VardeclLoud
<1>4. \E c \in Loud : attr_handle_conditional(a) = Result({}, NULL, c)
  BY SimpleChecks, AndThenChecks DEF attr_handle_conditional
<1>5. \E c \in Loud : attr_handle_returnvoid(func) = Result({}, NULL, c)
  BY CheckLoud DEF attr_handle_returnvoid
<1>6. \E c \in Checks : /\ attr_handle_return(func, a) = Result({}, NULL, c)
                        /\ a # {} /\ (func # {} \/ func = NULL)
                             => c \in Loud
  <2>1. CASE func = NULL
    BY <1>2, <2>1 DEF attr_handle_return
  <2>2. CASE func # NULL
    <3> DEFINE c == AndThen(attr_check_compatible(a, func),
                            attr_check_any(a, ANY))
    <3>1. c \in Checks /\ (a # {} /\ func # {} => c \in Loud)
      BY <1>2, SimpleChecks, CompatibleChecks, AndThenChecks
    <3>2. attr_handle_return(func, a) = Result({}, NULL, c)
      BY <2>2 DEF attr_handle_return
    <3> HIDE DEF c
    <3> QED BY <2>2, <3>1, <3>2
  <2> QED BY <2>1, <2>2
<1> QED BY <1>1, <1>2, <1>3, <1>4, <1>5, <1>6

(* A call gets a type unless the number of arguments is wrong, and fails   *)
(* silently only if a parameter has no type.                               *)
LEMMA CallJudged ==
  ASSUME NEW func \in SUBSET Attr, NEW t \in Name \cup {NULL},
         NEW params, Len(params) \in Nat, NEW args \in Seq(SUBSET Attr)
  PROVE  LET r == attr_handle_call(func, t, params, args) IN
         /\ Judged(r) /\ (r.ok => r.attributes # {})
         /\ \/ Len(args) # Len(params)
            \/ \A i \in 1..Len(params) : params[i] # {}
            => Clear(r)
<1> DEFINE r == attr_handle_call(func, t, params, args)
           typed == \A i \in 1..Len(params) : params[i] # {}
<1>1. CASE Len(args) # Len(params)
  <2>1. r = Result({}, NULL, Complain)
    BY <1>1 DEF attr_handle_call
  <2>2. Complain \in Loud /\ ~ Complain.ok
    BY DEF Loud, Complain
  <2>3. ~ r.ok
    BY <2>1, <2>2 DEF Result
  <2> HIDE DEF r, typed
  <2>4. Judged(r) /\ Clear(r)
    BY <2>1, <2>2, LoudIsCheck, NoTypeName, ResultJudged
  <2> QED BY <2>3, <2>4 DEF r
<1>2. CASE Len(args) = Len(params)
  <2> DEFINE cs == [i \in DOMAIN args |->
                      attr_compare_params(args[i], params[i])]
             A == (func \cup {"vreg"}) \ {"function"}
  <2>1. r = Result(A, t, All(cs))
    BY <1>2 DEF attr_handle_call
  <2>2. A \in SUBSET Attr /\ A # {}
    <3>1. A \in SUBSET Attr
      BY Attributes
    <3>2. "vreg" \in A
      OBVIOUS
    <3> QED BY <3>1, <3>2
  <2>3. DOMAIN args = 1..Len(params)
    BY <1>2
  <2>4. \A i \in 1..Len(params) :
          /\ attr_compare_params(args[i], params[i]) \in Checks
          /\ params[i] # {} => attr_compare_params(args[i], params[i]) \in Loud
    BY ParameterLoud
  <2>5. cs \in Seq(Checks)
    BY <2>3, <2>4
  <2>6. typed => cs \in Seq(Loud)
    BY <2>3, <2>4
  <2> HIDE DEF cs, A, typed
  <2>7. All(cs) \in Checks /\ (typed => All(cs) \in Loud)
    BY <2>5, <2>6, AllChecks, AllLoud
  <2> HIDE DEF r
  <2>8. /\ Judged(r) /\ r.attributes = A
        /\ typed => Clear(r)
    BY <2>1, <2>2, <2>7, ResultJudged
  <2> QED BY <1>2, <2>2, <2>8 DEF typed, r
<1> QED BY <1>1, <1>2

-----------------------------------------------------------------------------
(* The variables. *)

NodesTyped ==
  /\ attributes \in [Node -> SUBSET Attr]
  /\ type_name \in [Node -> Name \cup {NULL}]

(* Every symbol in D is known to I, and what is known has a type. *)
Known(I, D) ==
  /\ DOMAIN I \subseteq Node
  /\ I \in [DOMAIN I -> Symbol]
  /\ D \subseteq DOMAIN I
  /\ \A d \in DOMAIN I : /\ I[d].attributes # {}
                         /\ I[d].params \in Seq(DOMAIN I \cup {NULL})

InfoTyped == Known(info, Declared)

LinksTyped ==
  /\ member \in [Node -> DOMAIN info \cup {NULL}]
  /\ symentry \in [Node -> Declared \cup {NULL}]
  /\ DOMAIN typeid_table \subseteq Name
  /\ \A t \in DOMAIN typeid_table :
       typeid_table[t] \in [DOMAIN typeid_table[t] -> DOMAIN info]

FunctionKnown ==
  /\ current_function \in Name \cup {NULL}
  /\ current_function # NULL => current_function \in DOMAIN TableAt(1)

CountsTyped ==
  /\ semantic_errors \in Nat
  /\ reported \in BOOLEAN /\ crashed \in BOOLEAN

DataInv == /\ NodesTyped /\ InfoTyped /\ LinksTyped
           /\ FunctionKnown /\ CountsTyped

LEMMA ChildIs ==
  ASSUME WellFormed(ast, Name), NEW n \in DOMAIN ast,
         NEW i \in 0..arity(n) - 1
  PROVE  /\ child(n, i) = ast[n].children[i + 1]
         /\ child(n, i) \in Kids(ast, n) /\ child(n, i) \in DOMAIN ast
<1>1. ast[n].children \in Seq(DOMAIN ast)
  BY KidsFollow
<1>2. i + 1 \in 1..Len(ast[n].children) /\ arity(n) = Len(ast[n].children)
  BY <1>1 DEF arity, children
<1> QED BY <1>1, <1>2 DEF child, children, Kids, Range

(* What the handlers look at. *)
LEMMA Operands ==
  ASSUME WellFormed(ast, Name), NEW n \in DOMAIN ast
  PROVE  /\ symbol(n) \in OneOperand \cup {"TOK_RETURN"} \cup TwoOperands
                            \cup {"TOK_WHILE", "TOK_IF", "TOK_IFELSE", "."} =>
              /\ child(n, 0) \in Kids(ast, n) /\ child(n, 0) \in DOMAIN ast
              /\ symbol(child(n, 0)) \in Expression
         /\ symbol(n) \in TwoOperands \cup {"TOK_VARDECL", "TOK_NEWARRAY"} =>
              /\ child(n, 1) \in Kids(ast, n) /\ child(n, 1) \in DOMAIN ast
              /\ symbol(child(n, 1)) \in Expression
         /\ symbol(n) \in {"TOK_VARDECL", "TOK_NEW", "TOK_NEWARRAY",
                           "TOK_CALL"} =>
              child(n, 0) \in Kids(ast, n) /\ child(n, 0) \in DOMAIN ast
<1> DEFINE kids == ast[n].children
<1>1. /\ Built(ast, n) /\ kids \in Seq(DOMAIN ast) /\ symbol(n) = ast[n].symbol
      /\ arity(n) = Len(kids) /\ DOMAIN kids = 1..Len(kids)
  <2>1. Built(ast, n)
    BY DEF WellFormed
  <2>2. kids \in Seq(DOMAIN ast)
    BY KidsFollow
  <2>3. DOMAIN kids = 1..Len(kids)
    BY <2>2, LenProperties
  <2> QED BY <2>1, <2>2, <2>3 DEF symbol, arity, children
<1>2. arity(n) \in Nat
  BY <1>1
<1>3. /\ arity(n) > 0 => /\ child(n, 0) = kids[1]
                         /\ child(n, 0) \in Kids(ast, n)
                         /\ child(n, 0) \in DOMAIN ast /\ 1 \in DOMAIN kids
      /\ arity(n) > 1 => /\ child(n, 1) = kids[2]
                         /\ child(n, 1) \in Kids(ast, n)
                         /\ child(n, 1) \in DOMAIN ast /\ 2 \in DOMAIN kids
  BY <1>1, <1>2, ChildIs
<1>4. \A m : symbol(m) = ast[m].symbol
  BY DEF symbol
<1>5. CASE symbol(n) \in OneOperand \cup {"TOK_RETURN"}
  <2>1. arity(n) = 1 /\ ast[kids[1]].symbol \in Expression
    BY <1>1, <1>5 DEF Built
  <2>2. symbol(n) \notin TwoOperands \cup {"TOK_VARDECL", "TOK_NEWARRAY",
                                           "TOK_NEW", "TOK_CALL"}
    BY <1>5 DEF OneOperand, TwoOperands
  <2> QED BY <1>3, <1>4, <2>1, <2>2
<1>6. CASE symbol(n) \in TwoOperands
  <2>1. /\ arity(n) = 2
        /\ \A i \in DOMAIN kids : ast[kids[i]].symbol \in Expression
    BY <1>1, <1>6 DEF Built
  <2> QED BY <1>3, <1>4, <1>6, <2>1
<1>7. CASE symbol(n) \in {"TOK_WHILE", "TOK_IF"}
  <2>1. arity(n) = 2 /\ ast[kids[1]].symbol \in Expression
    BY <1>1, <1>7 DEF Built
  <2>2. symbol(n) \notin TwoOperands
    BY <1>7 DEF TwoOperands
  <2> QED BY <1>3, <1>4, <1>7, <2>1, <2>2
<1>8. CASE symbol(n) = "TOK_IFELSE"
  <2>1. arity(n) = 3 /\ ast[kids[1]].symbol \in Expression
    BY <1>1, <1>8 DEF Built
  <2>2. symbol(n) \notin TwoOperands
    BY <1>8 DEF TwoOperands
  <2> QED BY <1>3, <1>4, <1>8, <2>1, <2>2
<1>9. CASE symbol(n) = "."
  <2>1. arity(n) = 2 /\ ast[kids[1]].symbol \in Expression
    BY <1>1, <1>9 DEF Built
  <2>2. symbol(n) \notin TwoOperands
    BY <1>9 DEF TwoOperands
  <2> QED BY <1>3, <1>4, <1>9, <2>1, <2>2
<1>10. CASE symbol(n) \in {"TOK_VARDECL", "TOK_NEWARRAY"}
  <2>1. arity(n) = 2 /\ ast[kids[2]].symbol \in Expression
    BY <1>1, <1>10 DEF Built
  <2>2. symbol(n) \notin OneOperand \cup TwoOperands
    BY <1>10 DEF OneOperand, TwoOperands
  <2> QED BY <1>3, <1>4, <1>10, <2>1, <2>2
<1>11. CASE symbol(n) \in {"TOK_NEW", "TOK_CALL"}
  <2>1. arity(n) > 0
    <3>1. CASE symbol(n) = "TOK_NEW"
      BY <1>1, <3>1 DEF Built
    <3>2. CASE symbol(n) = "TOK_CALL"
      BY <1>1, <3>2 DEF Built
    <3> QED BY <1>11, <3>1, <3>2
  <2>2. symbol(n) \notin OneOperand \cup TwoOperands
    BY <1>11 DEF OneOperand, TwoOperands
  <2> QED BY <1>3, <1>11, <2>1, <2>2
<1> QED BY <1>5, <1>6, <1>7, <1>8, <1>9, <1>10, <1>11

(* The attributes of a node are attributes; an identifier has some as soon *)
(* as it is bound.                                                         *)
LEMMA NodeAttributes ==
  ASSUME NodesTyped, InfoTyped, LinksTyped, NEW n \in Node
  PROVE  /\ get_node_attributes(n) \in SUBSET Attr
         /\ type_name[n] \in Name \cup {NULL}
         /\ symbol(n) = "TOK_IDENT" /\ symentry[n] # NULL
              => get_node_attributes(n) # {}
         /\ symbol(n) \notin {"TOK_IDENT", "TOK_DECLID", "TOK_FIELD"}
              => get_node_attributes(n) = attributes[n]
<1>1. \A d \in DOMAIN info : info[d].attributes \in SUBSET Attr
                             /\ info[d].attributes # {}
  BY DEF InfoTyped, Known, Symbol
<1>2. member[n] \in DOMAIN info \cup {NULL}
      /\ symentry[n] \in DOMAIN info \cup {NULL}
  BY DEF LinksTyped, InfoTyped, Known
<1>3. attributes[n] \in SUBSET Attr /\ type_name[n] \in Name \cup {NULL}
  BY DEF NodesTyped
<1>4. Entry(n) \in DOMAIN info \cup {NULL}
      /\ (symbol(n) = "TOK_IDENT" => Entry(n) = symentry[n])
  BY <1>2 DEF Entry
<1> QED BY <1>1, <1>3, <1>4 DEF get_node_attributes

LEMMA GlobalIsDeclared ==
  ASSUME ScopesInv, NEW name \in DOMAIN TableAt(1)
  PROVE  GlobalSymbol(name) = TableAt(1)[name] /\ TableAt(1)[name] \in Declared
<1>1. 1 \in 1..Len(symbol_stack)
  BY DEF ScopesInv, Good, Stacks
<1>2. TableAt(1) = TableIn(symbol_stack, 1)
  BY DEF TableAt, TableIn
<1>3. TableAt(1)[name] \in Declared
  BY <1>1, <1>2 DEF ScopesInv, Good, Sound, Declared
<1> QED BY <1>3 DEF GlobalSymbol, find_symbol_in_table

(* The function that is being analysed has a type. *)
LEMMA FunctionHasType ==
  ASSUME ScopesInv, InfoTyped, FunctionKnown
  PROVE  FunctionAttributes # {} \/ FunctionAttributes = NULL
<1>1. CASE current_function = NULL
  BY <1>1 DEF FunctionAttributes
<1>2. CASE current_function # NULL
  BY <1>2, GlobalIsDeclared
     DEF FunctionKnown, InfoTyped, Known, FunctionAttributes
<1> QED BY <1>1, <1>2

Comparisons == {"TOK_LE", "TOK_EQ", "TOK_GE", "TOK_NE", ">", "<"}

(* The nodes that have a step of their own. *)
Separate == {"TOK_PARAMLIST", "TOK_FUNCTION", "TOK_PROTOTYPE",
             "TOK_IDENT", ".", "TOK_NEW", "TOK_NEWARRAY", "TOK_CALL"}

(* All other nodes get the right types, expressions some type, and what    *)
(* fails silently has an operand without one.                              *)
LEMMA ProcessJudged ==
  ASSUME WellFormed(ast, Name), DOMAIN ast \subseteq Node, ScopesInv,
         NodesTyped, InfoTyped, LinksTyped, FunctionKnown,
         NEW n \in DOMAIN ast, symbol(n) \notin Separate
  PROVE  LET r == process_attributes(n) IN
         /\ Judged(r)
         /\ symbol(n) \in Expression => r.attributes # {}
         /\ \/ Clear(r)
            \/ /\ symbol(n) \in {"TOK_INDEX", "TOK_RETURN"}
               /\ get_node_attributes(child(n, 0)) = {}
<1> DEFINE r == process_attributes(n)
           a(i) == get_node_attributes(child(n, i))
           t(i) == type_name[child(n, i)]
<1>1. /\ \A m \in DOMAIN ast : /\ get_node_attributes(m) \in SUBSET Attr
                               /\ type_name[m] \in Name \cup {NULL}
  BY NodeAttributes
<1>2. CASE symbol(n) \in {"+", "-", "*", "/", "%"}
  <2>1. r = attr_handle_binop(a(0), a(1))
    BY <1>2 DEF process_attributes
  <2> QED BY <2>1, BinopTyped DEF Typed
<1>3. CASE symbol(n) \in Unops
  <2>1. r = attr_handle_unop(symbol(n), a(0))
    BY <1>3 DEF process_attributes, Unops
  <2> QED BY <1>3, <2>1, UnopTyped DEF Typed
<1>4. CASE symbol(n) \in Comparisons
  <2>1. r = attr_handle_comparison(symbol(n), a(0), a(1))
    BY <1>4 DEF process_attributes, Comparisons
  <2> QED BY <2>1, ComparisonTyped DEF Typed
<1>5. CASE symbol(n) = "TOK_NEWSTRING"
  <2>1. r = attr_handle_newstring(a(0))
    BY <1>5 DEF process_attributes
  <2>2. NULL \in Name \cup {NULL} /\ {} \in SUBSET Attr
    OBVIOUS
  <2> QED BY <2>1, <2>2, AllocatorsTyped DEF Typed
<1>6. CASE symbol(n) \in Constants
  <2>1. r = attr_handle_constant(symbol(n))
    BY <1>6 DEF process_attributes, Constants
  <2> QED BY <1>6, <2>1, ConstantTyped DEF Typed
<1>7. CASE symbol(n) = "TOK_INDEX"
  <2>1. r = attr_handle_index(a(0), t(0), a(1))
    BY <1>7 DEF process_attributes
  <2>2. a(0) \in SUBSET Attr /\ t(0) \in Name \cup {NULL}
    BY <1>1, <1>7, Operands DEF TwoOperands
  <2>3. Judged(r) /\ r.attributes # {} /\ (a(0) # {} => Clear(r))
    BY <2>1, <2>2, IndexJudged
  <2> QED BY <1>7, <2>3
<1>8. CASE symbol(n) = "="
  <2>1. r = attr_handle_assignment(a(0), a(1), t(1))
    BY <1>8 DEF process_attributes
  <2>2. a(1) \in SUBSET Attr /\ t(1) \in Name \cup {NULL}
    BY <1>1, <1>8, Operands DEF TwoOperands
  <2> QED BY <2>1, <2>2, AssignmentTyped DEF Typed
<1>9. CASE symbol(n) \in {"TOK_WHILE", "TOK_IF", "TOK_IFELSE"}
  <2>1. r = attr_handle_conditional(a(0))
    BY <1>9 DEF process_attributes
  <2>2. symbol(n) \notin Expression
    BY <1>9 DEF Expression, NoOperand, OneOperand, TwoOperands
  <2> QED BY <2>1, <2>2, StatementsJudged
<1>10. CASE symbol(n) = "TOK_RETURN"
  <2>1. r = attr_handle_return(FunctionAttributes, a(0))
    BY <1>10 DEF process_attributes
  <2>2. symbol(n) \notin Expression
    BY <1>10 DEF Expression, NoOperand, OneOperand, TwoOperands
  <2> QED BY <1>10, <2>1, <2>2, StatementsJudged, FunctionHasType
<1>11. CASE symbol(n) = "TOK_RETURNVOID"
  <2>1. r = attr_handle_returnvoid(FunctionAttributes)
    BY <1>11 DEF process_attributes
  <2>2. symbol(n) \notin Expression
    BY <1>11 DEF Expression, NoOperand, OneOperand, TwoOperands
  <2> QED BY <2>1, <2>2, StatementsJudged
<1>12. CASE symbol(n) = "TOK_VARDECL"
  <2>1. r = attr_handle_vardecl(a(0), a(1))
    BY <1>12 DEF process_attributes
  <2>2. symbol(n) \notin Expression
    BY <1>12 DEF Expression, NoOperand, OneOperand, TwoOperands
  <2> QED BY <2>1, <2>2, StatementsJudged
<1>13. CASE symbol(n) \notin {"+", "-", "*", "/", "%"} \cup Unops
                               \cup Comparisons
              \cup Constants
              \cup {"TOK_NEWSTRING", "TOK_INDEX", "=", "TOK_WHILE", "TOK_IF",
                    "TOK_IFELSE", "TOK_RETURN", "TOK_RETURNVOID",
                    "TOK_VARDECL"}
  <2>1. r = Result({}, NULL, Pass)
    BY <1>13 DEF process_attributes, Unops, Comparisons, Constants
  <2>2. symbol(n) \notin Expression
    BY <1>13 DEF Expression, NoOperand, OneOperand, TwoOperands, Unops,
                 Comparisons, Constants, Separate
  <2> QED BY <2>1, <2>2, StatementsJudged
<1> QED BY <1>2, <1>3, <1>4, <1>5, <1>6, <1>7, <1>8, <1>9, <1>10, <1>11, <1>12,
           <1>13

-----------------------------------------------------------------------------
(* Symbols. *)

Roles == {"function", "param", "field"}

(* The type of a declaration, and what node_generate_attributes makes of   *)
(* it.                                                                     *)
LEMMA BaseType ==
  ASSUME WellFormed(ast, Name), NEW n \in DOMAIN ast,
         NEW what \in {"TOK_DECLID", "TOK_FIELD"}, Declaration(ast, n, what)
  PROVE  /\ symbol(base_type(n)) \in TypeName
         /\ symbol(base_type(n)) = "TOK_TYPEID"
              => lexinfo(base_type(n)) \in Name
<1> DEFINE kids == ast[n].children
<1>1. kids \in Seq(DOMAIN ast) /\ symbol(n) = ast[n].symbol
  BY KidsFollow DEF symbol
<1>2. base_type(n) \in DOMAIN ast /\ ast[base_type(n)].symbol \in TypeName
  <2>1. CASE ast[n].symbol = "TOK_ARRAY"
    <3>1. Len(kids) = 2 /\ Type(ast, kids[1])
      BY <2>1 DEF Declaration, TypeName
    <3>2. base_type(n) = kids[1]
      BY <2>1 DEF base_type, IsArray, child, children, symbol
    <3>3. kids[1] \in DOMAIN ast
      BY <1>1, <3>1
    <3> QED BY <3>1, <3>2, <3>3 DEF Type
  <2>2. CASE ast[n].symbol # "TOK_ARRAY"
    <3>1. ast[n].symbol \in TypeName
      BY <2>2 DEF Declaration
    <3>2. base_type(n) = n
      BY <2>2 DEF base_type, IsArray, symbol
    <3> QED BY <3>1, <3>2
  <2> QED BY <2>1, <2>2
<1> QED BY <1>2 DEF WellFormed, symbol, lexinfo

LEMMA GeneratedAttributes ==
  ASSUME NEW base \in TypeName, NEW array, NEW initial \in SUBSET Roles
  PROVE  LET a == node_generate_attributes(base, array, initial) IN
         /\ a \in SUBSET Attr /\ a # {}
         /\ "struct" \in a <=> base = "TOK_TYPEID"
<1> DEFINE b == tok_basetype_to_attr(base)
           x == IF array THEN {"array"} ELSE {}
           y == IF {"function", "field"} \cap initial = {}
                THEN {"variable"} ELSE {}
<1>1. /\ b \in {"int", "char", "bool", "struct", "void", "string"}
      /\ b = "struct" <=> base = "TOK_TYPEID"
  BY DEF tok_basetype_to_attr, TypeName
<1>2. x \subseteq {"array"} /\ y \subseteq {"variable"}
  OBVIOUS
<1>3. node_generate_attributes(base, array, initial)
        = initial \cup {b} \cup x \cup y
  BY DEF node_generate_attributes
<1>4. initial \subseteq Attr /\ "struct" \notin initial
  BY DEF Roles, Attr, Base
<1> HIDE DEF b, x, y
<1>5. {b} \cup x \cup y \subseteq Attr
  BY <1>1, <1>2 DEF Attr, Base
<1>6. "struct" \in initial \cup {b} \cup x \cup y <=> b = "struct"
  BY <1>2, <1>4
<1>7. b \in initial \cup {b} \cup x \cup y
  OBVIOUS
<1> QED BY <1>1, <1>3, <1>4, <1>5, <1>6, <1>7

LEMMA NewSymbolType ==
  ASSUME WellFormed(ast, Name), NEW n \in DOMAIN ast,
         NEW what \in {"TOK_DECLID", "TOK_FIELD"}, Declaration(ast, n, what),
         NEW initial \in SUBSET Roles
  PROVE  /\ NewSymbol(n, initial) \in Symbol
         /\ NewSymbol(n, initial).attributes \in SUBSET Attr
         /\ NewSymbol(n, initial).attributes # {}
         /\ NewSymbol(n, initial).type_name \in Name \cup {NULL}
         /\ NewSymbol(n, initial).params = <<>>
         /\ NewSymbol(n, initial).fnblock = NULL
<1> DEFINE base == symbol(base_type(n))
           a == node_generate_attributes(base, IsArray(n), initial)
           lval == IF {"function", "field"} \cap initial = {}
                   THEN {"lval"} ELSE {}
           t == IF "struct" \in a THEN lexinfo(base_type(n)) ELSE NULL
<1>1. /\ base \in TypeName
      /\ base = "TOK_TYPEID" => lexinfo(base_type(n)) \in Name
  BY BaseType
<1>2. NewSymbol(n, initial) = [attributes |-> a \cup lval, type_name |-> t,
                               params |-> <<>>, fnblock |-> NULL]
  BY DEF NewSymbol
<1> HIDE DEF base
<1>3. a \in SUBSET Attr /\ a # {} /\ ("struct" \in a <=> base = "TOK_TYPEID")
  BY <1>1, GeneratedAttributes
<1> HIDE DEF a
<1>4. lval \subseteq Attr
  BY DEF Attr
<1>5. t \in Name \cup {NULL}
  BY <1>1, <1>3
<1> HIDE DEF lval, t
<1>6. a \cup lval \in SUBSET Attr /\ a \cup lval # {}
  BY <1>3, <1>4
<1>7. <<>> \in Seq(Node \cup {NULL}) /\ NULL \in Node \cup {NULL}
  OBVIOUS
<1> QED BY <1>2, <1>5, <1>6, <1>7 DEF Symbol

LEMMA ElementTyped ==
  ASSUME WellFormed(ast, Name), NEW n \in DOMAIN ast,
         symbol(n) \in {"TOK_NEW", "TOK_NEWARRAY"}
  PROVE  /\ ElementType(n).attributes \in SUBSET Attr
         /\ ElementType(n).type_name \in Name \cup {NULL}
<1> DEFINE e == child(n, 0)
           kids == ast[n].children
<1>1. e \in DOMAIN ast
  BY Operands
<1>2. symbol(e) \in TypeName
  <2>1. Built(ast, n) /\ e = kids[1] /\ symbol(e) = ast[kids[1]].symbol
    BY DEF WellFormed, child, children, symbol
  <2>2. CASE symbol(n) = "TOK_NEW"
    BY <2>1, <2>2 DEF Built, symbol, TypeName
  <2>3. CASE symbol(n) = "TOK_NEWARRAY"
    BY <2>1, <2>3 DEF Built, symbol, Type
  <2> QED BY <2>2, <2>3
<1>3. symbol(e) = "TOK_TYPEID" => lexinfo(e) \in Name
  BY <1>1 DEF WellFormed, symbol, lexinfo
<1> HIDE DEF e
<1>4. /\ node_generate_attributes(symbol(e), FALSE, {}) \in SUBSET Attr
      /\ {} \in SUBSET Attr
  BY <1>2, GeneratedAttributes
<1>5. /\ ElementType(n).attributes
           = IF symbol(e) = "TOK_VOID" THEN {}
             ELSE node_generate_attributes(symbol(e), FALSE, {})
      /\ ElementType(n).type_name
           = IF symbol(e) = "TOK_TYPEID" THEN lexinfo(e) ELSE NULL
  BY DEF ElementType, e
<1> QED BY <1>3, <1>4, <1>5

-----------------------------------------------------------------------------
(* Symbols, tables and steps. *)

(* A table that has all that another one has. *)
Keeps(t, u) == \A name \in DOMAIN t : name \in DOMAIN u /\ u[name] = t[name]

LEMMA ReplaceKeeps ==
  ASSUME NEW ss \in Seq(Tables(Name) \cup {NULL}), NEW k \in 1..Len(ss),
         1 \in 1..Len(ss), NEW u \in Tables(Name),
         k = 1 => Keeps(TableIn(ss, 1), u)
  PROVE  LET s2 == [ss EXCEPT ![k] = u] IN
         /\ Keeps(TableIn(ss, 1), TableIn(s2, 1))
         /\ s2 \in Seq(Tables(Name) \cup {NULL})
         /\ Len(s2) = Len(ss)
<1> DEFINE s2 == [ss EXCEPT ![k] = u]
<1>1. /\ s2 \in Seq(Tables(Name) \cup {NULL}) /\ Len(s2) = Len(ss)
      /\ TableIn(s2, k) = u
      /\ \A i \in 1..Len(ss) : i # k => TableIn(s2, i) = TableIn(ss, i)
  BY ReplaceLevel
<1> HIDE DEF s2
<1>2. CASE k = 1
  BY <1>1, <1>2 DEF s2
<1>3. CASE k # 1
  BY <1>1, <1>3 DEF Keeps, s2
<1> QED BY <1>2, <1>3

LEMMA WithKeeps ==
  ASSUME NEW u \in Tables(Name), NEW d \in Node, NEW n \in Name
  PROVE  TableWith(u, d, n) \in Tables(Name) /\ Keeps(u, TableWith(u, d, n))
<1>1. CASE n \in DOMAIN u
  BY <1>1 DEF TableWith, Keeps
<1>2. CASE n \notin DOMAIN u
  <2>1. TableWith(u, d, n) = Extend(u, n, d)
    BY <1>2 DEF TableWith
  <2>2. /\ Extend(u, n, d) \in Tables(Name)
        /\ DOMAIN Extend(u, n, d) = DOMAIN u \cup {n}
        /\ \A m \in DOMAIN u : m # n => Extend(u, n, d)[m] = u[m]
    BY ExtendTable
  <2> QED BY <1>2, <2>1, <2>2 DEF Keeps
<1> QED BY <1>1, <1>2

(* What is global stays so. *)
LEMMA GlobalGrows ==
  ASSUME ScopesInv, [ScopesNext]_scopeVars
  PROVE  Keeps(TableAt(1), TableAt(1)') /\ Declared \subseteq Declared'
<1> DEFINE t == TableIn(symbol_stack, 1)
<1>1. /\ symbol_stack \in Seq(Tables(Name) \cup {NULL})
      /\ Len(symbol_stack) \in Nat /\ Len(symbol_stack) > 0
      /\ 1 \in 1..Len(symbol_stack) /\ Depth = Len(symbol_stack)
  BY DEF ScopesInv, Good, Stacks, Depth
<1>2. /\ TableAt(1) = t /\ TableAt(1)' = TableIn(symbol_stack', 1)
      /\ TableAt(Depth) = TableIn(symbol_stack, Depth)
  BY DEF TableAt, TableIn
<1>3. t \in Tables(Name) /\ TableAt(Depth) \in Tables(Name)
      /\ Depth \in 1..Len(symbol_stack)
  BY <1>1, <1>2, TableInType
<1> HIDE DEF t
<1>4. Keeps(t, t)
  BY DEF Keeps
<1>5. ASSUME NEW d, NEW n, NEW level, Insert(d, n, level)
      PROVE  Declared \subseteq Declared'
  BY <1>5 DEF Insert, Declared, Extend
<1> DEFINE Goal == Keeps(t, TableIn(symbol_stack', 1))
                   /\ Declared \subseteq Declared'
<1> SUFFICES Goal
  BY <1>2
<1>6. ASSUME NEW d \in Node \ Declared, NEW n \in Name, DeclareLocal(d, n)
      PROVE  Goal
  <2> DEFINE u == TableWith(TableAt(Depth), d, n)
  <2>1. u \in Tables(Name) /\ Keeps(TableAt(Depth), u)
    BY <1>3, WithKeeps
  <2>2. /\ symbol_stack' = [symbol_stack EXCEPT ![Depth] = u]
        /\ Insert(d, n, Depth)
    BY <1>6 DEF DeclareLocal
  <2> HIDE DEF u
  <2>3. Depth = 1 => Keeps(TableIn(symbol_stack, 1), u)
    BY <1>2, <2>1 DEF t
  <2>4. Keeps(t, TableIn([symbol_stack EXCEPT ![Depth] = u], 1))
    BY <1>1, <1>3, <2>1, <2>3, ReplaceKeeps DEF t
  <2> QED BY <1>5, <2>2, <2>4
<1>7. ASSUME NEW d \in Node \ Declared, NEW n \in Name, BeginFunction(d, n)
      PROVE  Goal
  <2> DEFINE u == TableWith(TableAt(1), d, n)
             s == [symbol_stack EXCEPT ![1] = u]
  <2>1. u \in Tables(Name) /\ Keeps(TableAt(1), u)
    BY <1>2, <1>3, WithKeeps
  <2>2. symbol_stack' = Append(s, NULL) /\ Insert(d, n, 1)
    BY <1>7 DEF BeginFunction
  <2> HIDE DEF u
  <2>3. /\ Keeps(t, TableIn(s, 1)) /\ s \in Seq(Tables(Name) \cup {NULL})
        /\ Len(s) = Len(symbol_stack)
    BY <1>1, <1>2, <2>1, ReplaceKeeps DEF t
  <2>4. Append(s, NULL)[1] = s[1]
    BY <1>1, <2>3, AppendProperties
  <2>5. TableIn(Append(s, NULL), 1) = TableIn(s, 1)
    BY <2>4 DEF TableIn
  <2> QED BY <1>5, <2>2, <2>3, <2>5
<1>8. CASE EnterBlock
  <2>1. symbol_stack' = Append(symbol_stack, NULL) /\ symbols' = symbols
    BY <1>8 DEF EnterBlock, enter_block
  <2>2. Append(symbol_stack, NULL)[1] = symbol_stack[1]
    BY <1>1, AppendProperties
  <2>3. TableIn(Append(symbol_stack, NULL), 1) = t
    BY <2>2 DEF TableIn, t
  <2> QED BY <1>4, <2>1, <2>3 DEF Declared
<1>9. CASE Depth > 1 /\ LeaveBlock
  <2>1. symbol_stack' = Front(symbol_stack) /\ symbols' = symbols
    BY <1>9 DEF LeaveBlock, leave_block
  <2>2. 1 \in 1..Len(symbol_stack) - 1 /\ symbol_stack # <<>>
    BY <1>1, <1>9
  <2>3. Front(symbol_stack)[1] = symbol_stack[1]
    BY <1>1, <2>2, FrontFacts
  <2>4. TableIn(Front(symbol_stack), 1) = t
    BY <2>3 DEF TableIn, t
  <2> QED BY <1>4, <2>1, <2>4 DEF Declared
<1>10. CASE DeclareNothing
  <2>1. symbol_stack' = [symbol_stack EXCEPT ![Depth] = TableAt(Depth)]
        /\ symbols' = symbols
    BY <1>10 DEF DeclareNothing, TouchTopTable
  <2>2. Depth = 1 => Keeps(TableIn(symbol_stack, 1), TableAt(Depth))
    BY <1>2, <1>4 DEF t
  <2>3. Keeps(t, TableIn([symbol_stack EXCEPT ![Depth] = TableAt(Depth)], 1))
    BY <1>1, <1>3, <2>2, ReplaceKeeps DEF t
  <2> QED BY <2>1, <2>3 DEF Declared
<1>11. ASSUME symbol_stack' = symbol_stack, symbols' = symbols
       PROVE  Goal
  BY <1>4, <1>11 DEF t, Declared
<1>12. ASSUME NEW d, NEW n, UseSymbol(d, n)
       PROVE  Goal
  BY <1>11, <1>12 DEF UseSymbol
<1>13. CASE UNCHANGED scopeVars
  BY <1>11, <1>13 DEF scopeVars
<1> HIDE DEF Goal
<1>14. CASE ScopesNext
  BY <1>6, <1>7, <1>8, <1>9, <1>10, <1>12, <1>14 DEF ScopesNext
<1> QED BY <1>13, <1>14

LEMMA SymbolFields ==
  ASSUME NEW s \in Symbol
  PROVE  /\ s.attributes \in SUBSET Attr /\ s.type_name \in Name \cup {NULL}
         /\ s.params \in Seq(Node \cup {NULL}) /\ s.fnblock \in Node \cup {NULL}
BY DEF Symbol

IsFunction(f) == f = [x \in DOMAIN f |-> f[x]]

(* More symbols, or changed ones. *)
LEMMA KnownStill ==
  ASSUME NEW I, NEW D, Known(I, D), NEW J, IsFunction(J),
         DOMAIN I \subseteq DOMAIN J, DOMAIN J \subseteq Node,
         NEW E, E \subseteq DOMAIN J,
         \A x \in DOMAIN J :
           \/ x \in DOMAIN I /\ J[x] = I[x]
           \/ /\ J[x] \in Symbol /\ J[x].attributes # {}
              /\ J[x].params \in Seq(DOMAIN J \cup {NULL})
  PROVE  Known(J, E)
<1>1. ASSUME NEW x \in DOMAIN I
      PROVE  /\ I[x] \in Symbol /\ I[x].attributes # {}
             /\ I[x].params \in Seq(DOMAIN J \cup {NULL})
  BY DEF Known
<1>2. ASSUME NEW x \in DOMAIN J
      PROVE  /\ J[x] \in Symbol /\ J[x].attributes # {}
             /\ J[x].params \in Seq(DOMAIN J \cup {NULL})
  BY <1>1
<1>3. J \in [DOMAIN J -> Symbol]
  BY <1>2 DEF IsFunction
<1> QED BY <1>2, <1>3 DEF Known

LEMMA KnownChange ==
  ASSUME NEW I, NEW D, Known(I, D), NEW J, IsFunction(J),
         DOMAIN J = DOMAIN I, NEW f,
         \A x \in DOMAIN I : x # f => J[x] = I[x],
         f \in DOMAIN I => /\ J[f] \in Symbol /\ J[f].attributes # {}
                           /\ J[f].params \in Seq(DOMAIN I \cup {NULL})
  PROVE  Known(J, D)
<1>1. DOMAIN I \subseteq Node /\ D \subseteq DOMAIN I
  BY DEF Known
<1>2. \A x \in DOMAIN J :
        \/ x \in DOMAIN I /\ J[x] = I[x]
        \/ /\ J[x] \in Symbol /\ J[x].attributes # {}
           /\ J[x].params \in Seq(DOMAIN J \cup {NULL})
  OBVIOUS
<1> QED BY <1>1, <1>2, KnownStill

LEMMA AppendOne ==
  ASSUME NEW S, NEW s \in Seq(S), NEW T, S \subseteq T, NEW e \in T
  PROVE  s \in Seq(T) /\ Append(s, e) \in Seq(T)
<1>1. s \in Seq(T)
  OBVIOUS
<1> QED BY <1>1, AppendProperties

(* A parameter that is no symbol, a new parameter list, a body. *)
LEMMA KnownUpdates ==
  ASSUME NEW I, NEW D, Known(I, D), NEW f, NEW b \in Node
  PROVE  /\ Known([I EXCEPT ![f].params = Append(@, NULL)], D)
         /\ Known([I EXCEPT ![f].params = <<>>, ![f].fnblock = NULL], D)
         /\ Known([I EXCEPT ![f].fnblock = b], D)
<1> DEFINE J1 == [I EXCEPT ![f].params = Append(@, NULL)]
           J2 == [I EXCEPT ![f].params = <<>>, ![f].fnblock = NULL]
           J3 == [I EXCEPT ![f].fnblock = b]
           P == DOMAIN I \cup {NULL}
<1>1. /\ DOMAIN J1 = DOMAIN I /\ IsFunction(J1)
      /\ DOMAIN J2 = DOMAIN I /\ IsFunction(J2)
      /\ DOMAIN J3 = DOMAIN I /\ IsFunction(J3)
      /\ \A x \in DOMAIN I : x # f => J1[x] = I[x] /\ J2[x] = I[x]
                                      /\ J3[x] = I[x]
      /\ f \in DOMAIN I =>
           /\ J1[f] = [I[f] EXCEPT !.params = Append(I[f].params, NULL)]
           /\ J2[f] = [I[f] EXCEPT !.params = <<>>, !.fnblock = NULL]
           /\ J3[f] = [I[f] EXCEPT !.fnblock = b]
  BY DEF Known, IsFunction
<1> HIDE DEF J1, J2, J3
<1>2. DOMAIN I \subseteq Node /\ D \subseteq DOMAIN I
  BY DEF Known
<1>3. ASSUME f \in DOMAIN I
      PROVE  /\ J1[f] \in Symbol /\ J1[f].attributes # {}
             /\ J2[f] \in Symbol /\ J2[f].attributes # {}
             /\ J3[f] \in Symbol /\ J3[f].attributes # {}
             /\ J1[f].params \in Seq(P) /\ J2[f].params \in Seq(P)
             /\ J3[f].params \in Seq(P)
  <2>1. I[f] \in Symbol /\ I[f].attributes # {} /\ I[f].params \in Seq(P)
    BY <1>3 DEF Known
  <2>2. NULL \in P /\ <<>> \in Seq(P) /\ P \subseteq Node \cup {NULL}
        /\ NULL \in Node \cup {NULL} /\ b \in Node \cup {NULL}
    BY <1>2
  <2> HIDE DEF P
  <2>3. Append(I[f].params, NULL) \in Seq(P)
        /\ Append(I[f].params, NULL) \in Seq(Node \cup {NULL})
        /\ <<>> \in Seq(Node \cup {NULL})
    BY <2>1, <2>2, AppendOne
  <2> DEFINE s1 == [I[f] EXCEPT !.params = Append(I[f].params, NULL)]
             s2 == [I[f] EXCEPT !.params = <<>>, !.fnblock = NULL]
             s3 == [I[f] EXCEPT !.fnblock = b]
  <2>4. /\ s1 \in Symbol /\ s1.params = Append(I[f].params, NULL)
        /\ s1.attributes = I[f].attributes
    BY <2>1, <2>2, <2>3 DEF Symbol
  <2>5. s2 \in Symbol /\ s2.params = <<>> /\ s2.attributes = I[f].attributes
    BY <2>1, <2>2, <2>3 DEF Symbol
  <2>6. /\ s3 \in Symbol /\ s3.params = I[f].params
        /\ s3.attributes = I[f].attributes
    BY <2>1, <2>2, <2>3 DEF Symbol
  <2>7. J1[f] = s1 /\ J2[f] = s2 /\ J3[f] = s3
    BY <1>1, <1>3
  <2> HIDE DEF s1, s2, s3
  <2> QED BY <2>1, <2>2, <2>3, <2>4, <2>5, <2>6, <2>7
<1>4. Known(J1, D)
  BY <1>1, <1>3, KnownChange
<1>5. Known(J2, D)
  BY <1>1, <1>3, KnownChange
<1>6. Known(J3, D)
  BY <1>1, <1>3, KnownChange
<1> QED BY <1>4, <1>5, <1>6 DEF J1, J2, J3

LEMMA KnownExtend ==
  ASSUME NEW I, NEW D, Known(I, D), NEW d \in Node, NEW s \in Symbol,
         s.attributes # {}, s.params = <<>>, NEW E \in SUBSET (D \cup {d})
  PROVE  Known(Extend(I, d, s), E)
<1> DEFINE J == Extend(I, d, s)
<1>1. /\ DOMAIN J = DOMAIN I \cup {d} /\ J[d] = s
      /\ \A x \in DOMAIN I : x # d => J[x] = I[x]
      /\ IsFunction(J)
  BY DEF Extend, IsFunction
<1> HIDE DEF J
<1>2. DOMAIN J \subseteq Node /\ E \subseteq DOMAIN J
  BY <1>1 DEF Known
<1>3. <<>> \in Seq(DOMAIN J \cup {NULL})
  OBVIOUS
<1>4. Known(J, E)
  BY <1>1, <1>2, <1>3, KnownStill
<1> QED BY <1>4 DEF J

(* A parameter of f. *)
LEMMA KnownParameter ==
  ASSUME NEW I, NEW D, Known(I, D), NEW d \in Node, NEW s \in Symbol,
         s.attributes # {}, s.params = <<>>, NEW E \in SUBSET (D \cup {d}),
         NEW f
  PROVE  Known(Extend([I EXCEPT ![f].params = Append(@, d)], d, s), E)
<1> DEFINE W == [I EXCEPT ![f].params = Append(@, d)]
           J == Extend(W, d, s)
           P == DOMAIN I \cup {d, NULL}
<1>1. /\ DOMAIN W = DOMAIN I /\ \A x \in DOMAIN I : x # f => W[x] = I[x]
      /\ f \in DOMAIN I =>
           W[f] = [I[f] EXCEPT !.params = Append(I[f].params, d)]
  BY DEF Known
<1> HIDE DEF W
<1>2. ASSUME f \in DOMAIN I
      PROVE  /\ W[f] \in Symbol /\ W[f].attributes # {}
             /\ W[f].params \in Seq(P)
  <2>1. /\ I[f] \in Symbol /\ I[f].attributes # {}
        /\ I[f].params \in Seq(DOMAIN I \cup {NULL})
    BY <1>2 DEF Known
  <2>2. /\ DOMAIN I \cup {NULL} \subseteq P /\ d \in P
        /\ P \subseteq Node \cup {NULL} /\ NULL \in Node \cup {NULL}
        /\ DOMAIN I \cup {NULL} \subseteq Node \cup {NULL}
        /\ d \in Node \cup {NULL}
    BY DEF Known
  <2> HIDE DEF P
  <2>3. Append(I[f].params, d) \in Seq(P)
        /\ Append(I[f].params, d) \in Seq(Node \cup {NULL})
    BY <2>1, <2>2, AppendOne
  <2> DEFINE s1 == [I[f] EXCEPT !.params = Append(I[f].params, d)]
  <2>4. /\ s1 \in Symbol /\ s1.params = Append(I[f].params, d)
        /\ s1.attributes = I[f].attributes
    BY <2>1, <2>2, <2>3 DEF Symbol
  <2>5. W[f] = s1
    BY <1>1, <1>2
  <2> HIDE DEF s1
  <2> QED BY <2>1, <2>3, <2>4, <2>5
<1>3. /\ DOMAIN J = DOMAIN I \cup {d} /\ J[d] = s
      /\ \A x \in DOMAIN I : x # d => J[x] = W[x]
      /\ IsFunction(J)
  BY <1>1 DEF Extend, IsFunction
<1> HIDE DEF J
<1>4. DOMAIN J \subseteq Node /\ E \subseteq DOMAIN J
      /\ DOMAIN J \cup {NULL} = P /\ DOMAIN I \subseteq DOMAIN J
  BY <1>3 DEF Known
<1>5. <<>> \in Seq(DOMAIN J \cup {NULL})
  OBVIOUS
<1>6. \A x \in DOMAIN J :
        \/ x \in DOMAIN I /\ J[x] = I[x]
        \/ /\ J[x] \in Symbol /\ J[x].attributes # {}
           /\ J[x].params \in Seq(DOMAIN J \cup {NULL})
  <2> SUFFICES ASSUME NEW x \in DOMAIN J
               PROVE  \/ x \in DOMAIN I /\ J[x] = I[x]
                      \/ /\ J[x] \in Symbol /\ J[x].attributes # {}
                         /\ J[x].params \in Seq(DOMAIN J \cup {NULL})
    OBVIOUS
  <2>1. CASE x = d
    BY <1>3, <1>5, <2>1
  <2>2. CASE x # d /\ x # f
    BY <1>1, <1>3, <2>2
  <2>3. CASE x # d /\ x = f
    BY <1>2, <1>3, <1>4, <2>3
  <2> QED BY <2>1, <2>2, <2>3
<1>7. Known(J, E)
  BY <1>3, <1>4, <1>6, KnownStill
<1> QED BY <1>7 DEF J, W

-----------------------------------------------------------------------------
(* Where a step is. *)

LEMMA CallerIs ==
  ASSUME TraversalInv, Running
  PROVE  /\ WellFormed(ast, Name) /\ DOMAIN ast \subseteq Node /\ ScopesInv
         /\ calls \in Seq(Frames(ast)) /\ calls # <<>>
         /\ Caller = calls[Len(calls)] /\ Caller \in Frames(ast)
         /\ Caller.node \in DOMAIN ast /\ Caller.node \in Node
<1>1. /\ WellFormed(ast, Name) /\ DOMAIN ast \subseteq Node /\ ScopesInv
      /\ calls \in Seq(Frames(ast)) /\ calls # <<>>
  BY Tree DEF TraversalInv, Walk, Running
<1>2. Caller = calls[Len(calls)] /\ Caller \in Frames(ast)
  BY <1>1, FrontFacts DEF Caller
<1> QED BY <1>1, <1>2 DEF Frames

LEMMA ParentIs ==
  ASSUME WellFormed(ast, Name), NEW n \in DOMAIN ast, NEW c \in Kids(ast, n)
  PROVE  parent(c) = n
<1>1. \A m : Range(children(m)) = Kids(ast, m)
  BY DEF Kids, children
<1>2. /\ parent(c) \in DOMAIN ast /\ c \in Kids(ast, parent(c))
  BY <1>1 DEF parent
<1> QED BY <1>2, OneParent

LEMMA StructFields ==
  ASSUME WellFormed(ast, Name), NEW n \in DOMAIN ast, symbol(n) = "TOK_STRUCT",
         NEW d \in {declared(child(n, i)) : i \in 1..arity(n) - 1}
  PROVE  /\ d \in DOMAIN ast /\ parent(d) \in DOMAIN ast
         /\ Declaration(ast, parent(d), "TOK_FIELD")
         /\ symbol(d) = "TOK_FIELD" /\ lexinfo(d) \in Name
<1>1. PICK i \in 1..arity(n) - 1 : d = declared(child(n, i))
  OBVIOUS
<1>2. arity(n) \in Nat /\ arity(n) = Len(ast[n].children)
  BY KidsFollow DEF arity, children
<1>3. i \in 0..arity(n) - 1 /\ i + 1 \in 2..Len(ast[n].children)
  BY <1>2
<1>4. /\ child(n, i) = ast[n].children[i + 1] /\ child(n, i) \in DOMAIN ast
  BY <1>3, ChildIs
<1>5. Declaration(ast, child(n, i), "TOK_FIELD")
  <2>1. Built(ast, n) /\ ast[n].symbol = "TOK_STRUCT"
    BY DEF WellFormed, symbol
  <2> QED BY <1>3, <1>4, <2>1 DEF Built
<1>6. /\ d \in Kids(ast, child(n, i)) /\ d \in DOMAIN ast
      /\ ast[d].symbol = "TOK_FIELD" /\ ast[d].lexinfo \in Name
  BY <1>1, <1>4, <1>5, DeclaredIs, DeclarationDeclares
<1>7. parent(d) = child(n, i)
  BY <1>4, <1>6, ParentIs
<1> QED BY <1>4, <1>5, <1>6, <1>7 DEF symbol, lexinfo

LEMMA StructName ==
  ASSUME WellFormed(ast, Name), NEW n \in DOMAIN ast, symbol(n) = "TOK_STRUCT"
  PROVE  lexinfo(child(n, 0)) \in Name
<1>1. /\ Len(ast[n].children) > 0
      /\ ast[ast[n].children[1]].symbol = "TOK_TYPEID"
  <2>1. Built(ast, n) /\ ast[n].symbol = "TOK_STRUCT"
    BY DEF WellFormed, symbol
  <2> QED BY <2>1 DEF Built
<1>2. 0 \in 0..arity(n) - 1
  <2>1. ast[n].children \in Seq(DOMAIN ast)
    BY KidsFollow
  <2> QED BY <1>1, <2>1 DEF arity, children
<1>3. child(n, 0) = ast[n].children[1] /\ child(n, 0) \in DOMAIN ast
  BY <1>2, ChildIs
<1> QED BY <1>1, <1>3 DEF WellFormed, lexinfo

(* The name of a function, and its declaration. *)
LEMMA FunctionDeclares ==
  ASSUME WellFormed(ast, Name), NEW n \in DOMAIN ast,
         symbol(n) \in {"TOK_FUNCTION", "TOK_PROTOTYPE"}
  PROVE  /\ child(n, 0) \in DOMAIN ast /\ child(n, 0) \in Kids(ast, n)
         /\ Declaration(ast, child(n, 0), "TOK_DECLID")
         /\ declared(child(n, 0)) \in DOMAIN ast
         /\ declared(child(n, 0)) \in Kids(ast, child(n, 0))
         /\ lexinfo(declared(child(n, 0))) \in Name
         /\ child(n, 1) \in DOMAIN ast /\ child(n, 1) \in Kids(ast, n)
         /\ symbol(child(n, 1)) = "TOK_PARAMLIST"
         /\ symbol(n) = "TOK_FUNCTION" => child(n, 2) \in DOMAIN ast
                                          /\ child(n, 2) = Body(ast, n)
<1> DEFINE kids == ast[n].children
<1>1. Built(ast, n) /\ kids \in Seq(DOMAIN ast) /\ ast[n].symbol = symbol(n)
  BY KidsFollow DEF WellFormed, symbol
<1>2. /\ Len(kids) = IF symbol(n) = "TOK_FUNCTION" THEN 3 ELSE 2
      /\ Declaration(ast, kids[1], "TOK_DECLID")
      /\ ast[kids[2]].symbol = "TOK_PARAMLIST"
  <2>1. CASE symbol(n) = "TOK_FUNCTION"
    BY <1>1, <2>1 DEF Built
  <2>2. CASE symbol(n) = "TOK_PROTOTYPE"
    BY <1>1, <2>2 DEF Built
  <2> QED BY <2>1, <2>2
<1>3. arity(n) = Len(kids) /\ Len(kids) \in Nat
  BY <1>1 DEF arity, children
<1>4. 0 \in 0..arity(n) - 1 /\ 1 \in 0..arity(n) - 1
      /\ (symbol(n) = "TOK_FUNCTION" => 2 \in 0..arity(n) - 1)
  BY <1>2, <1>3
<1>5. /\ child(n, 0) = kids[1] /\ child(n, 0) \in Kids(ast, n)
      /\ child(n, 0) \in DOMAIN ast
      /\ child(n, 1) = kids[2] /\ child(n, 1) \in Kids(ast, n)
      /\ child(n, 1) \in DOMAIN ast
      /\ symbol(n) = "TOK_FUNCTION" => child(n, 2) \in DOMAIN ast
                                       /\ child(n, 2) = kids[3]
  BY <1>4, ChildIs
<1>6. /\ declared(kids[1]) \in Kids(ast, kids[1])
      /\ declared(kids[1]) \in DOMAIN ast
      /\ lexinfo(declared(kids[1])) \in Name
  BY <1>2, <1>5, DeclaredIs, DeclarationDeclares DEF lexinfo
<1> QED BY <1>2, <1>5, <1>6 DEF Body, symbol

LEMMA ParamlistParent ==
  ASSUME WellFormed(ast, Name), NEW c \in DOMAIN ast,
         symbol(c) = "TOK_PARAMLIST"
  PROVE  parent(c) \in DOMAIN ast /\ c \in Kids(ast, parent(c))
<1>1. c # 1
  BY DEF WellFormed, symbol
<1>2. \A m : Range(children(m)) = Range(ast[m].children)
  BY DEF children
<1>3. c \in UNION {Range(ast[m].children) : m \in DOMAIN ast}
  BY <1>1 DEF WellFormed
<1>4. \E m \in DOMAIN ast : c \in Range(children(m))
  BY <1>2, <1>3
<1> QED BY <1>2, <1>4 DEF parent, Kids

LEMMA FoundIsDeclared ==
  ASSUME ScopesInv, NEW n
  PROVE  find_symbol(n) \in Declared \cup {NULL}
<1>1. CASE LevelsWith(n) = {}
  BY <1>1 DEF find_symbol
<1>2. CASE LevelsWith(n) # {}
  <2>1. \A i \in LevelsWith(n) : TableAt(i)[n] \in Declared
    <3> SUFFICES ASSUME NEW i \in LevelsWith(n) PROVE TableAt(i)[n] \in Declared
      OBVIOUS
    <3>1. /\ i \in 1..Len(symbol_stack)
          /\ TableAt(i) = TableIn(symbol_stack, i)
          /\ n \in DOMAIN TableIn(symbol_stack, i)
      BY DEF LevelsWith, TableAt, TableIn, Depth
    <3> QED BY <3>1 DEF ScopesInv, Good, Sound, Declared
  <2>2. Depth \in Nat /\ LevelsWith(n) \in SUBSET (1..Depth)
    BY DEF ScopesInv, Good, Stacks, Depth, LevelsWith
  <2>3. \E i \in LevelsWith(n) : \A j \in LevelsWith(n) : j <= i
    BY <1>2, <2>2, Greatest
  <2> QED BY <1>2, <2>1, <2>3 DEF find_symbol
<1> QED BY <1>1, <1>2

(* What a declaration does to the symbols. *)
LEMMA Symbolizes ==
  ASSUME NEW n, NEW initial, Symbolize(n, initial)
  PROVE  /\ Symbolized(n, initial) =>
              /\ symbols' = Extend(symbols, declared(n),
                                   [lexinfo  |-> lexinfo(declared(n)),
                                    block_nr |-> get_current_block])
              /\ symentry' = [symentry EXCEPT ![declared(n)] = declared(n)]
              /\ Declared' = Declared \cup {declared(n)}
         /\ ~ Symbolized(n, initial) =>
              /\ symbols' = symbols /\ symentry' = symentry
              /\ Declared' = Declared
<1> DEFINE d == declared(n)
<1>1. CASE Symbolized(n, initial)
  <2>1. IsLegal(n, initial) /\ lexinfo(d) \notin DOMAIN TableAt(Depth)
    BY <1>1 DEF Symbolized
  <2>2. Insert(d, lexinfo(d), Depth)
    BY <2>1 DEF Symbolize, DeclareLocal
  <2>3. /\ symbols' = Extend(symbols, d, [lexinfo  |-> lexinfo(d),
                                          block_nr |-> get_current_block])
        /\ symentry' = [symentry EXCEPT ![d] = d]
    BY <2>1, <2>2 DEF Insert
  <2>4. Declared' = Declared \cup {d}
    BY <2>3 DEF Declared, Extend
  <2> QED BY <1>1, <2>3, <2>4
<1>2. CASE ~ Symbolized(n, initial)
  <2>1. symbols' = symbols /\ symentry' = symentry
    <3>1. CASE IsLegal(n, initial)
      <4>1. lexinfo(d) \in DOMAIN TableAt(Depth)
        BY <1>2, <3>1 DEF Symbolized
      <4>2. Insert(d, lexinfo(d), Depth)
        BY <3>1 DEF Symbolize, DeclareLocal
      <4> QED BY <4>1, <4>2 DEF Insert
    <3>2. CASE ~ IsLegal(n, initial)
      BY <3>2 DEF Symbolize, DeclareNothing
    <3> QED BY <3>1, <3>2
  <2> QED BY <1>2, <2>1 DEF Declared
<1> QED BY <1>1, <1>2

(* What the beginning of a function does to them. *)
LEMMA Begins ==
  ASSUME ScopesInv, NEW d \in Node, NEW name \in Name, BeginFunction(d, name)
  PROVE  /\ GlobalSymbol(name) = NULL =>
              /\ Declared' = Declared \cup {d}
              /\ symentry' = [symentry EXCEPT ![d] = d]
              /\ TableAt(1)' = Extend(TableAt(1), name, d)
         /\ GlobalSymbol(name) # NULL =>
              /\ Declared' = Declared /\ symentry' = symentry
              /\ TableAt(1)' = TableAt(1) /\ name \in DOMAIN TableAt(1)
         /\ name \in DOMAIN TableAt(1)'
<1> DEFINE t == TableAt(1)
           u == TableWith(t, d, name)
           s == [symbol_stack EXCEPT ![1] = u]
<1>1. /\ symbol_stack' = Append(s, NULL) /\ Insert(d, name, 1)
  BY DEF BeginFunction
<1>2. /\ symbol_stack \in Seq(Tables(Name) \cup {NULL})
      /\ 1 \in 1..Len(symbol_stack) /\ t = TableIn(symbol_stack, 1)
  BY DEF ScopesInv, Good, Stacks, TableAt, TableIn
<1>3. t \in Tables(Name)
  BY <1>2, TableInType
<1>4. u \in Tables(Name)
  BY <1>3, WithKeeps
<1>5. TableAt(1)' = u
  <2>1. /\ s \in Seq(Tables(Name) \cup {NULL}) /\ Len(s) = Len(symbol_stack)
        /\ TableIn(s, 1) = u
    BY <1>2, <1>4, ReplaceLevel
  <2> HIDE DEF s, u
  <2>2. Append(s, NULL)[1] = s[1]
    BY <1>2, <2>1, AppendProperties
  <2>3. TableAt(1)' = TableIn(Append(s, NULL), 1)
    BY <1>1 DEF TableAt, TableIn
  <2> QED BY <2>1, <2>2, <2>3 DEF TableIn
<1>6. GlobalSymbol(name) = NULL <=> name \notin DOMAIN t
  <2>1. name \in DOMAIN t => t[name] \in Node
    BY <1>3, TableFacts
  <2> QED BY <2>1, NullAssumption DEF GlobalSymbol, find_symbol_in_table
<1>7. CASE name \notin DOMAIN t
  <2>1. u = Extend(t, name, d) /\ name \in DOMAIN u
    BY <1>7 DEF TableWith, Extend
  <2>2. /\ symbols' = Extend(symbols, d, [lexinfo  |-> name,
                                          block_nr |-> get_current_block])
        /\ symentry' = [symentry EXCEPT ![d] = d]
    BY <1>1, <1>7 DEF Insert
  <2>3. Declared' = Declared \cup {d}
    BY <2>2 DEF Declared, Extend
  <2> QED BY <1>5, <1>6, <1>7, <2>1, <2>2, <2>3
<1>8. CASE name \in DOMAIN t
  <2>1. u = t /\ symbols' = symbols /\ symentry' = symentry
    BY <1>1, <1>8 DEF TableWith, Insert
  <2> QED BY <1>5, <1>6, <1>8, <2>1 DEF Declared
<1> QED BY <1>7, <1>8

-----------------------------------------------------------------------------
(* Calls. *)

CallParams(n) ==
  LET params == info[symentry[child(n, 0)]].params IN
  [i \in DOMAIN params |-> IF params[i] = NULL THEN {}
                           ELSE info[params[i]].attributes]

CallArgs(n) == [i \in 1..arity(n) - 1 |-> get_node_attributes(child(n, i))]

CallResult(n) ==
  attr_handle_call(info[symentry[child(n, 0)]].attributes,
                   info[symentry[child(n, 0)]].type_name,
                   CallParams(n), CallArgs(n))

(* A parameter that is no symbol is compared with an argument. *)
CallBroken(n) ==
  LET params == info[symentry[child(n, 0)]].params IN
  /\ Len(params) = Len(CallArgs(n))
  /\ \E i \in DOMAIN params : params[i] = NULL

(* A call of something that is bound gets a type unless it is wrong, and   *)
(* is never silently wrong.                                                *)
LEMMA CallTyped ==
  ASSUME WellFormed(ast, Name), DOMAIN ast \subseteq Node,
         NodesTyped, InfoTyped, LinksTyped,
         NEW n \in DOMAIN ast, symbol(n) = "TOK_CALL",
         symentry[child(n, 0)] # NULL
  PROVE  /\ Judged(CallResult(n))
         /\ CallResult(n).ok => CallResult(n).attributes # {}
         /\ ~ CallBroken(n) => Clear(CallResult(n))
<1> DEFINE f == symentry[child(n, 0)]
           params == info[f].params
           ps == CallParams(n)
           args == CallArgs(n)
<1>1. f \in DOMAIN info
  <2>1. child(n, 0) \in Node
    BY Operands
  <2> QED BY <2>1 DEF LinksTyped, InfoTyped, Known
<1>2. /\ info[f].attributes \in SUBSET Attr
      /\ info[f].type_name \in Name \cup {NULL}
      /\ params \in Seq(DOMAIN info \cup {NULL})
      /\ \A d \in DOMAIN info : info[d].attributes # {}
  BY <1>1, SymbolFields DEF InfoTyped, Known
<1>3. args \in Seq(SUBSET Attr)
  <2>1. arity(n) \in Nat
    BY KidsFollow DEF arity, children
  <2>2. \A i \in 1..arity(n) - 1 : i \in 0..arity(n) - 1
    BY <2>1
  <2>3. \A i \in 1..arity(n) - 1 :
          get_node_attributes(child(n, i)) \in SUBSET Attr
    BY <2>2, ChildIs, NodeAttributes
  <2>4. arity(n) - 1 \in Nat
    <3>1. Built(ast, n) /\ ast[n].symbol = "TOK_CALL"
      BY DEF WellFormed, symbol
    <3>2. Len(ast[n].children) > 0
      BY <3>1 DEF Built
    <3> QED BY <2>1, <3>2 DEF arity, children
  <2> QED BY <2>3, <2>4 DEF CallArgs
<1>4. /\ Len(params) \in Nat /\ DOMAIN params = 1..Len(params)
      /\ ps = [i \in DOMAIN params |-> IF params[i] = NULL THEN {}
                                       ELSE info[params[i]].attributes]
  BY <1>2, LenProperties DEF CallParams
<1>5. Len(ps) = Len(params)
  BY <1>4
<1>6. CallResult(n)
        = attr_handle_call(info[f].attributes, info[f].type_name, ps, args)
  BY DEF CallResult
<1>7. ASSUME ~ CallBroken(n)
      PROVE  \/ Len(args) # Len(ps)
             \/ \A i \in 1..Len(ps) : ps[i] # {}
  <2>1. Len(params) = Len(args) => \A i \in DOMAIN params : params[i] # NULL
    BY <1>7 DEF CallBroken
  <2>2. \A i \in DOMAIN params : params[i] \in DOMAIN info \cup {NULL}
    BY <1>2
  <2>3. \A i \in DOMAIN params : params[i] # NULL => ps[i] # {}
    BY <1>2, <1>4, <2>2
  <2> QED BY <1>4, <1>5, <2>1, <2>3
<1> DEFINE r == CallResult(n)
           typed == \/ Len(args) # Len(ps)
                    \/ \A i \in 1..Len(ps) : ps[i] # {}
<1>8. Len(ps) \in Nat
  BY <1>4, <1>5
<1>9. ~ CallBroken(n) => typed
  BY <1>7
<1> DEFINE a == info[f].attributes
           t == info[f].type_name
           q == attr_handle_call(a, t, ps, args)
<1>10. r = q /\ a \in SUBSET Attr /\ t \in Name \cup {NULL}
  BY <1>2, <1>6
<1> HIDE DEF ps, args, params, a, t, r
<1>11. Judged(q) /\ (q.ok => q.attributes # {}) /\ (typed => Clear(q))
  BY <1>3, <1>8, <1>10, CallJudged
<1> HIDE DEF typed, q
<1> QED BY <1>9, <1>10, <1>11 DEF r

-----------------------------------------------------------------------------
(* Steps. *)

LEMMA RolesOf ==
  /\ {} \in SUBSET Roles /\ {"function"} \in SUBSET Roles
  /\ {"param"} \in SUBSET Roles /\ {"field"} \in SUBSET Roles
BY DEF Roles

(* A declaration at the next node has a symbol of the right type. *)
LEMMA NextSymbol ==
  ASSUME TraversalInv, Running, HasNext,
         Declaration(ast, Next_node, "TOK_DECLID"),
         NEW initial \in SUBSET Roles
  PROVE  LET n == Next_node
             sym == NewSymbol(Next_node, initial)
         IN  /\ n \in Node /\ declared(n) \in Node
             /\ sym \in Symbol /\ sym.attributes \in SUBSET Attr
             /\ sym.attributes # {} /\ sym.type_name \in Name \cup {NULL}
             /\ sym.params = <<>>
<1>1. /\ WellFormed(ast, Name) /\ DOMAIN ast \subseteq Node
      /\ Next_node \in DOMAIN ast
  BY Goes, CallerIs
<1>2. declared(Next_node) \in Node
  BY NewDeclaration
<1> QED BY <1>1, <1>2, NewSymbolType

LEMMA FunctionSymbol ==
  ASSUME TraversalInv, Running, HasNext,
         symbol(Next_node) \in {"TOK_FUNCTION", "TOK_PROTOTYPE"}
  PROVE  LET f == child(Next_node, 0)
             sym == NewSymbol(f, {"function"})
         IN  /\ declared(f) \in Node \ Declared /\ lexinfo(declared(f)) \in Name
             /\ sym \in Symbol /\ sym.attributes \in SUBSET Attr
             /\ sym.attributes # {} /\ sym.type_name \in Name \cup {NULL}
             /\ sym.params = <<>> /\ sym.fnblock = NULL
<1>1. /\ WellFormed(ast, Name) /\ DOMAIN ast \subseteq Node
      /\ Next_node \in DOMAIN ast
  BY Goes, CallerIs
<1>2. /\ child(Next_node, 0) \in DOMAIN ast
      /\ child(Next_node, 0) \in Kids(ast, Next_node)
      /\ Declaration(ast, child(Next_node, 0), "TOK_DECLID")
  BY <1>1, FunctionDeclares
<1>3. /\ declared(child(Next_node, 0)) \in Node \ Declared
      /\ lexinfo(declared(child(Next_node, 0))) \in Name
  BY <1>2, NewDeclaration
<1> QED BY <1>1, <1>2, <1>3, NewSymbolType, RolesOf

LEMMA FieldSymbol ==
  ASSUME WellFormed(ast, Name), NEW n \in DOMAIN ast, symbol(n) = "TOK_STRUCT",
         NEW d \in {declared(child(n, i)) : i \in 1..arity(n) - 1}
  PROVE  LET sym == NewSymbol(parent(d), {"field"}) IN
         /\ sym \in Symbol /\ sym.attributes # {} /\ sym.params = <<>>
         /\ sym.type_name \in Name \cup {NULL}
<1>1. parent(d) \in DOMAIN ast /\ Declaration(ast, parent(d), "TOK_FIELD")
  BY StructFields
<1> QED BY <1>1, NewSymbolType, RolesOf

(* What is in structures is known. *)
LEMMA SelectedIsKnown ==
  ASSUME InfoTyped, LinksTyped,
         NEW t \in DOMAIN typeid_table, NEW x \in DOMAIN typeid_table[t]
  PROVE  /\ typeid_table[t][x] \in DOMAIN info
         /\ info[typeid_table[t][x]].attributes \in SUBSET Attr
         /\ info[typeid_table[t][x]].type_name \in Name \cup {NULL}
<1>1. typeid_table[t][x] \in DOMAIN info
  BY DEF LinksTyped
<1> QED BY <1>1, SymbolFields DEF InfoTyped, Known

LEMMA NodesStep ==
  ASSUME TraversalInv, DataInv, Next
  PROVE  NodesTyped'
<1>1. /\ attributes \in [Node -> SUBSET Attr]
      /\ type_name \in [Node -> Name \cup {NULL}]
      /\ NodesTyped /\ InfoTyped /\ LinksTyped /\ FunctionKnown
  BY DEF DataInv, NodesTyped
<1>2. CASE VisitDeclaration
  <2>1. Running /\ HasNext /\ symbol(Next_node) \in VariableTypes
    BY <1>2 DEF VisitDeclaration, Visiting
  <2>2. Declaration(ast, Next_node, "TOK_DECLID")
    BY <2>1, NextDeclares
  <2>3. LET sym == NewSymbol(Next_node, {}) IN
        /\ Next_node \in Node /\ declared(Next_node) \in Node
        /\ sym.attributes \in SUBSET Attr
        /\ sym.type_name \in Name \cup {NULL}
    BY <2>1, <2>2, NextSymbol, RolesOf
  <2>4. \/ attributes' = attributes /\ type_name' = type_name
        \/ LET sym == NewSymbol(Next_node, {}) IN
           /\ attributes' = [attributes EXCEPT ![Next_node] = sym.attributes]
           /\ type_name' = [type_name EXCEPT
                              ![declared(Next_node)] = sym.type_name,
                              ![Next_node] = sym.type_name]
    BY <1>2 DEF VisitDeclaration
  <2> QED BY <1>1, <2>3, <2>4 DEF NodesTyped
<1>3. CASE VisitStruct
  <2> DEFINE n == Next_node
             fields == {declared(child(n, i)) : i \in 1..arity(n) - 1}
             sym(d) == NewSymbol(parent(d), {"field"})
  <2>1. WellFormed(ast, Name) /\ n \in DOMAIN ast /\ symbol(n) = "TOK_STRUCT"
    BY <1>3, Goes DEF VisitStruct, Visiting
  <2>2. \A d \in fields : sym(d).type_name \in Name \cup {NULL}
    BY <2>1, FieldSymbol
  <2>3. /\ attributes' = attributes
        /\ \/ type_name' = type_name
           \/ type_name' = [u \in Node |-> IF u \in fields
                                           THEN sym(u).type_name
                                           ELSE type_name[u]]
    BY <1>3 DEF VisitStruct
  <2> HIDE DEF fields, sym
  <2> QED BY <1>1, <2>2, <2>3 DEF NodesTyped
<1>4. CASE VisitFunction
  <2>1. /\ Running /\ HasNext
        /\ symbol(Next_node) \in {"TOK_FUNCTION", "TOK_PROTOTYPE"}
    BY <1>4 DEF VisitFunction, Visiting
  <2>2. NewSymbol(child(Next_node, 0), {"function"}).type_name
          \in Name \cup {NULL}
    BY <2>1, FunctionSymbol
  <2>3. /\ attributes' = attributes
        /\ \/ type_name' = type_name
           \/ type_name' = [type_name EXCEPT ![declared(child(Next_node, 0))] =
                 NewSymbol(child(Next_node, 0), {"function"}).type_name]
    BY <1>4 DEF VisitFunction, Redeclare, SkipFunction, EnterFunction
  <2> QED BY <1>1, <2>2, <2>3 DEF NodesTyped
<1>5. CASE DeclareParam
  <2>1. Running /\ HasNext /\ symbol(Caller.node) = "TOK_PARAMLIST"
    BY <1>5 DEF DeclareParam
  <2>2. Declaration(ast, Next_node, "TOK_DECLID")
    BY <2>1, NextDeclares
  <2>3. NewSymbol(Next_node, {"param"}).type_name \in Name \cup {NULL}
    BY <2>1, <2>2, NextSymbol, RolesOf
  <2>4. /\ attributes' = attributes
        /\ \/ type_name' = type_name
           \/ type_name' = [type_name EXCEPT ![declared(Next_node)] =
                              NewSymbol(Next_node, {"param"}).type_name]
    BY <1>5 DEF DeclareParam
  <2> QED BY <1>1, <2>3, <2>4 DEF NodesTyped
<1>6. CASE LeaveIdent
  <2>1. ScopesInv
    BY DEF TraversalInv
  <2> DEFINE d == find_symbol(lexinfo(Caller.node))
  <2>2. d # NULL => info[d].type_name \in Name \cup {NULL}
    BY <1>1, <2>1, FoundIsDeclared, SymbolFields DEF InfoTyped, Known
  <2>3. /\ attributes' = attributes
        /\ \/ type_name' = type_name
           \/ d # NULL /\ type_name' = [type_name EXCEPT ![Caller.node] =
                                          info[d].type_name]
    BY <1>6 DEF LeaveIdent
  <2> QED BY <1>1, <2>2, <2>3 DEF NodesTyped
<1>7. CASE LeaveSelector
  <2> DEFINE n == Caller.node
             t == type_name[child(n, 0)]
             u == child(n, 1)
             known == /\ t \in DOMAIN typeid_table
                      /\ lexinfo(u) \in DOMAIN typeid_table[t]
             field == typeid_table[t][lexinfo(u)]
             fa == IF known THEN info[field].attributes ELSE attributes[u]
             ft == IF known THEN info[field].type_name ELSE type_name[u]
             res == attr_handle_field_selector(
                      get_node_attributes(child(n, 0)), fa, ft)
  <2>1. Running /\ symbol(n) = "."
    BY <1>7 DEF LeaveSelector, Returning
  <2>2. u \in Node
    <3>1. /\ WellFormed(ast, Name) /\ DOMAIN ast \subseteq Node
          /\ n \in DOMAIN ast
      BY <2>1, CallerIs
    <3>2. 1 \in 0..arity(n) - 1
      <4>1. Built(ast, n) /\ ast[n].symbol = "."
        BY <2>1, <3>1 DEF WellFormed, symbol
      <4>2. Len(ast[n].children) = 2
        BY <4>1 DEF Built
      <4> QED BY <4>2 DEF arity, children
    <3> QED BY <3>1, <3>2, ChildIs
  <2>3. fa \in SUBSET Attr /\ ft \in Name \cup {NULL}
    <3>1. CASE known
      BY <1>1, <3>1, SelectedIsKnown
    <3>2. CASE ~ known
      BY <1>1, <2>2, <3>2
    <3> QED BY <3>1, <3>2
  <2>4. /\ attributes' = [attributes EXCEPT ![n] = res.attributes]
        /\ \/ type_name' = type_name
           \/ type_name' = [type_name EXCEPT ![u] = res.type_name,
                                             ![n] = res.type_name]
    BY <1>7 DEF LeaveSelector
  <2> HIDE DEF fa, ft
  <2>5. Judged(res)
    BY <2>3, SelectorTyped DEF Typed
  <2> HIDE DEF res, n, u
  <2>6. res.attributes \in SUBSET Attr /\ res.type_name \in Name \cup {NULL}
    BY <2>5 DEF Judged
  <2> QED BY <1>1, <2>4, <2>6 DEF NodesTyped
<1>8. CASE LeaveAllocator
  <2> DEFINE n == Caller.node
             e == ElementType(n)
             res == IF symbol(n) = "TOK_NEW"
                    THEN attr_handle_new(e.attributes, e.type_name)
                    ELSE attr_handle_newarray(e.attributes, e.type_name,
                           get_node_attributes(child(n, 1)))
  <2>1. Running /\ symbol(n) \in {"TOK_NEW", "TOK_NEWARRAY"}
    BY <1>8 DEF LeaveAllocator, Returning
  <2>2. e.attributes \in SUBSET Attr /\ e.type_name \in Name \cup {NULL}
    BY <2>1, CallerIs, ElementTyped
  <2>3. /\ attributes' = [attributes EXCEPT ![child(n, 0)] = e.attributes,
                                            ![n] = res.attributes]
        /\ type_name' = [type_name EXCEPT ![child(n, 0)] = e.type_name,
                                          ![n] = res.type_name]
    BY <1>8 DEF LeaveAllocator
  <2> HIDE DEF e
  <2>4. Judged(res)
    BY <2>2, AllocatorsTyped DEF Typed
  <2> HIDE DEF res, n
  <2>5. res.attributes \in SUBSET Attr /\ res.type_name \in Name \cup {NULL}
    BY <2>4 DEF Judged
  <2> QED BY <1>1, <2>2, <2>3, <2>5 DEF NodesTyped
<1>9. CASE LeaveCall
  <2> DEFINE n == Caller.node
             res == CallResult(n)
  <2>1. Running /\ symbol(n) = "TOK_CALL"
    BY <1>9 DEF LeaveCall, Returning
  <2>2. \/ attributes' = attributes /\ type_name' = type_name
        \/ /\ symentry[child(n, 0)] # NULL
           /\ attributes' = [attributes EXCEPT ![n] = res.attributes]
           /\ type_name' = [type_name EXCEPT ![n] = res.type_name]
    BY <1>9 DEF LeaveCall, CallResult, CallParams, CallArgs
  <2>3. symentry[child(n, 0)] # NULL => Judged(res)
    BY <1>1, <2>1, CallerIs, CallTyped
  <2> HIDE DEF res, n
  <2>4. symentry[child(n, 0)] # NULL =>
          res.attributes \in SUBSET Attr /\ res.type_name \in Name \cup {NULL}
    BY <2>3 DEF Judged
  <2> QED BY <1>1, <2>2, <2>4 DEF NodesTyped
<1>10. CASE LeaveNode
  <2> DEFINE n == Caller.node
             res == process_attributes(n)
  <2>1. Running /\ symbol(n) \notin Separate
    BY <1>10 DEF LeaveNode, Separate
  <2>2. /\ attributes' = [attributes EXCEPT ![n] = res.attributes]
        /\ type_name' = [type_name EXCEPT ![n] = res.type_name]
    BY <1>10 DEF LeaveNode
  <2>3. Judged(res)
    BY <1>1, <2>1, CallerIs, ProcessJudged
  <2> HIDE DEF res, n
  <2>4. res.attributes \in SUBSET Attr /\ res.type_name \in Name \cup {NULL}
    BY <2>3 DEF Judged
  <2> QED BY <1>1, <2>2, <2>4 DEF NodesTyped
<1>11. CASE VisitVoid
  BY <1>1, <1>11 DEF VisitVoid, NodesTyped
<1>12. CASE EndParams
  BY <1>1, <1>12 DEF EndParams, NodesTyped
<1>13. CASE EndFunction
  BY <1>1, <1>13 DEF EndFunction, NodesTyped
<1>14. CASE VisitNode
  BY <1>1, <1>14 DEF VisitNode, NodesTyped
<1> QED BY <1>2, <1>3, <1>4, <1>5, <1>6, <1>7, <1>8, <1>9, <1>10, <1>11, <1>12,
           <1>13, <1>14 DEF Next

(* Only these make symbols or change what is known of them. *)
LEMMA InfoStep ==
  ASSUME TraversalInv, DataInv, Next
  PROVE  InfoTyped' /\ DOMAIN info \subseteq DOMAIN info'
<1>1. Known(info, Declared) /\ DOMAIN info \subseteq Node
  BY DEF DataInv, InfoTyped, Known
<1> DEFINE Goal == /\ Known(info', Declared')
                   /\ DOMAIN info \subseteq DOMAIN info'
<1> SUFFICES Goal
  BY DEF InfoTyped
<1>2. ASSUME info' = info, Declared' = Declared
      PROVE  Goal
  BY <1>1, <1>2
<1>3. CASE VisitDeclaration
  <2> DEFINE n == Next_node
             d == declared(n)
             sym == NewSymbol(n, {})
  <2>1. /\ Running /\ HasNext /\ symbol(Next_node) \in VariableTypes
        /\ Symbolize(n, {})
    BY <1>3 DEF VisitDeclaration, Visiting
  <2>2. Declaration(ast, n, "TOK_DECLID")
    BY <2>1, NextDeclares
  <2>3. d \in Node /\ sym \in Symbol /\ sym.attributes # {} /\ sym.params = <<>>
    BY <2>1, <2>2, NextSymbol, RolesOf
  <2>4. CASE Symbolized(n, {})
    <3>1. info' = Extend(info, d, sym) /\ Declared' = Declared \cup {d}
      BY <1>3, <2>1, <2>4, Symbolizes DEF VisitDeclaration
    <3> HIDE DEF d, sym
    <3>2. Known(info', Declared')
      BY <1>1, <2>3, <3>1, KnownExtend
    <3>3. DOMAIN info \subseteq DOMAIN info'
      BY <3>1 DEF Extend
    <3> QED BY <3>2, <3>3
  <2>5. CASE ~ Symbolized(n, {})
    <3>1. info' = info /\ Declared' = Declared
      BY <1>3, <2>1, <2>5, Symbolizes DEF VisitDeclaration
    <3> QED BY <1>2, <3>1
  <2> QED BY <2>4, <2>5
<1>4. CASE DeclareParam
  <2> DEFINE n == Next_node
             d == declared(n)
             f == GlobalSymbol(current_function)
             sym == NewSymbol(n, {"param"})
  <2>1. /\ Running /\ HasNext /\ symbol(Caller.node) = "TOK_PARAMLIST"
        /\ Symbolize(n, {"param"})
    BY <1>4 DEF DeclareParam
  <2>2. Declaration(ast, n, "TOK_DECLID")
    BY <2>1, NextDeclares
  <2>3. d \in Node /\ sym \in Symbol /\ sym.attributes # {} /\ sym.params = <<>>
    BY <2>1, <2>2, NextSymbol, RolesOf
  <2>4. CASE Symbolized(n, {"param"})
    <3>1. /\ info' = Extend([info EXCEPT ![f].params = Append(@, d)], d, sym)
          /\ Declared' = Declared \cup {d}
      BY <1>4, <2>1, <2>4, Symbolizes DEF DeclareParam
    <3> HIDE DEF d, sym, f
    <3>2. Known(info', Declared')
      BY <1>1, <2>3, <3>1, KnownParameter
    <3>3. DOMAIN info \subseteq DOMAIN info'
      BY <3>1 DEF Extend
    <3> QED BY <3>2, <3>3
  <2>5. CASE ~ Symbolized(n, {"param"})
    <3>1. /\ info' = [info EXCEPT ![f].params = Append(@, NULL)]
          /\ Declared' = Declared
      BY <1>4, <2>1, <2>5, Symbolizes DEF DeclareParam
    <3> HIDE DEF d, sym, f
    <3>2. Known(info', Declared')
      BY <1>1, <2>3, <3>1, KnownUpdates
    <3>3. DOMAIN info \subseteq DOMAIN info'
      BY <3>1
    <3> QED BY <3>2, <3>3
  <2> QED BY <2>4, <2>5
<1>5. CASE VisitStruct
  <2> DEFINE n == Next_node
             fields == {declared(child(n, i)) : i \in 1..arity(n) - 1}
             sym(d) == NewSymbol(parent(d), {"field"})
             more == [d \in DOMAIN info \cup fields |->
                        IF d \in fields THEN sym(d) ELSE info[d]]
  <2>1. /\ WellFormed(ast, Name) /\ DOMAIN ast \subseteq Node
        /\ n \in DOMAIN ast /\ symbol(n) = "TOK_STRUCT"
    BY <1>5, Goes, CallerIs DEF VisitStruct, Visiting
  <2>2. Declared' = Declared /\ (info' = info \/ info' = more)
    BY <1>5 DEF VisitStruct, scopeVars, Declared
  <2>3. \A d \in fields : /\ sym(d) \in Symbol /\ sym(d).attributes # {}
                          /\ sym(d).params = <<>>
    BY <2>1, FieldSymbol
  <2>4. fields \subseteq Node
    BY <2>1, StructFields
  <2> HIDE DEF fields, sym
  <2>5. /\ DOMAIN more = DOMAIN info \cup fields
        /\ \A d \in DOMAIN more :
             more[d] = IF d \in fields THEN sym(d) ELSE info[d]
        /\ IsFunction(more)
    BY DEF IsFunction
  <2> HIDE DEF more
  <2>6. /\ DOMAIN more \subseteq Node /\ Declared \subseteq DOMAIN more
        /\ <<>> \in Seq(DOMAIN more \cup {NULL})
    BY <1>1, <2>4, <2>5 DEF Known
  <2>7. \A x \in DOMAIN more :
          \/ x \in DOMAIN info /\ more[x] = info[x]
          \/ /\ more[x] \in Symbol /\ more[x].attributes # {}
             /\ more[x].params \in Seq(DOMAIN more \cup {NULL})
    BY <2>3, <2>5, <2>6
  <2>8. Known(more, Declared)
    BY <1>1, <2>5, <2>6, <2>7, KnownStill
  <2> QED BY <1>2, <2>2, <2>5, <2>8
<1>6. CASE VisitFunction
  <2> DEFINE n == Next_node
             d == declared(child(n, 0))
             prev == GlobalSymbol(lexinfo(d))
             sym == NewSymbol(child(n, 0), {"function"})
  <2>1. /\ Running /\ HasNext
        /\ symbol(Next_node) \in {"TOK_FUNCTION", "TOK_PROTOTYPE"}
    BY <1>6 DEF VisitFunction, Visiting
  <2>2. \/ info' = info /\ UNCHANGED scopeVars
        \/ EnterFunction(n, prev)
    BY <1>6 DEF VisitFunction, Redeclare, SkipFunction
  <2>3. CASE info' = info /\ UNCHANGED scopeVars
    BY <1>2, <2>3 DEF scopeVars, Declared
  <2>4. CASE EnterFunction(n, prev)
    <3>1. /\ d \in Node /\ lexinfo(d) \in Name /\ sym \in Symbol
          /\ sym.attributes # {} /\ sym.params = <<>>
      BY <2>1, FunctionSymbol
    <3>2. BeginFunction(d, lexinfo(d)) /\ ScopesInv
      BY <2>4 DEF EnterFunction, TraversalInv
    <3>3. CASE prev = NULL
      <4>1. info' = Extend(info, d, sym)
        BY <2>4, <3>3 DEF EnterFunction
      <4>2. Declared' = Declared \cup {d}
        BY <3>1, <3>2, <3>3, Begins
      <4> HIDE DEF d, sym, prev
      <4>3. Known(info', Declared')
        BY <1>1, <3>1, <4>1, <4>2, KnownExtend
      <4>4. DOMAIN info \subseteq DOMAIN info'
        BY <4>1 DEF Extend
      <4> QED BY <4>3, <4>4
    <3>4. CASE prev # NULL
      <4>1. info' = [info EXCEPT ![prev].params = <<>>, ![prev].fnblock = NULL]
        BY <2>4, <3>4 DEF EnterFunction
      <4>2. Declared' = Declared
        BY <3>1, <3>2, <3>4, Begins
      <4> HIDE DEF d, sym, prev
      <4>3. Known(info', Declared')
        BY <1>1, <3>1, <4>1, <4>2, KnownUpdates
      <4>4. DOMAIN info \subseteq DOMAIN info'
        BY <4>1
      <4> QED BY <4>3, <4>4
    <3> QED BY <3>3, <3>4
  <2> QED BY <2>2, <2>3, <2>4
<1>7. CASE EndParams
  <2> DEFINE n == parent(Caller.node)
             f == GlobalSymbol(current_function)
             b == child(n, 2)
  <2>1. Running /\ symbol(Caller.node) = "TOK_PARAMLIST"
    BY <1>7 DEF EndParams, Returning
  <2>2. /\ WellFormed(ast, Name) /\ DOMAIN ast \subseteq Node
        /\ n \in DOMAIN ast
    BY <2>1, CallerIs, ParamlistParent
  <2>3. symbol(n) = "TOK_FUNCTION" => b \in Node
    BY <2>2, FunctionDeclares
  <2>4. /\ Declared' = Declared
        /\ \/ info' = info
           \/ /\ symbol(n) = "TOK_FUNCTION"
              /\ info' = [info EXCEPT ![f].fnblock = b]
    BY <1>7 DEF EndParams, scopeVars, Declared
  <2> HIDE DEF n, f, b
  <2>5. CASE info' = info
    BY <1>2, <2>4, <2>5
  <2>6. CASE /\ symbol(n) = "TOK_FUNCTION"
             /\ info' = [info EXCEPT ![f].fnblock = b]
    <3>1. Known(info', Declared')
      BY <1>1, <2>3, <2>4, <2>6, KnownUpdates
    <3> QED BY <2>6, <3>1
  <2> QED BY <2>4, <2>5, <2>6
<1>8. ASSUME info' = info, UNCHANGED <<symbols>>
      PROVE  Goal
  BY <1>2, <1>8 DEF Declared
<1> HIDE DEF Goal
<1>9. CASE VisitVoid
  BY <1>8, <1>9 DEF VisitVoid, scopeVars
<1>10. CASE EndFunction
  BY <1>8, <1>10 DEF EndFunction, LeaveBlock
<1>11. CASE VisitNode
  BY <1>8, <1>11 DEF VisitNode, EnterBlock, scopeVars
<1>12. CASE LeaveIdent
  BY <1>8, <1>12 DEF LeaveIdent, UseSymbol
<1>13. CASE LeaveSelector
  BY <1>8, <1>13 DEF LeaveSelector, scopeVars
<1>14. CASE LeaveAllocator
  BY <1>8, <1>14 DEF LeaveAllocator, scopeVars
<1>15. CASE LeaveCall
  BY <1>8, <1>15 DEF LeaveCall, scopeVars
<1>16. CASE LeaveNode
  BY <1>8, <1>16 DEF LeaveNode, LeaveBlock, scopeVars
<1> QED BY <1>3, <1>4, <1>5, <1>6, <1>7, <1>9, <1>10, <1>11, <1>12, <1>13,
           <1>14, <1>15, <1>16 DEF Next

(* A node is bound to a symbol, or to none, and stays bound. *)
LEMMA BindingStep ==
  ASSUME TraversalInv, symentry \in [Node -> Declared \cup {NULL}], Next
  PROVE  symentry' \in [Node -> Declared' \cup {NULL}]
<1>1. Declared \subseteq Declared'
  BY TraversalStep, GlobalGrows DEF TraversalInv
<1>2. ASSUME symentry' = symentry
      PROVE  symentry' \in [Node -> Declared' \cup {NULL}]
  BY <1>1, <1>2
<1>3. ASSUME NEW n, NEW initial, Symbolize(n, initial)
      PROVE  symentry' \in [Node -> Declared' \cup {NULL}]
  <2>1. CASE Symbolized(n, initial)
    BY <1>1, <1>3, <2>1, Symbolizes
  <2>2. CASE ~ Symbolized(n, initial)
    BY <1>2, <1>3, <2>2, Symbolizes
  <2> QED BY <2>1, <2>2
<1>4. CASE VisitDeclaration
  BY <1>3, <1>4 DEF VisitDeclaration
<1>5. CASE DeclareParam
  BY <1>3, <1>5 DEF DeclareParam
<1>6. CASE VisitFunction
  <2> DEFINE n == Next_node
             d == declared(child(n, 0))
             prev == GlobalSymbol(lexinfo(d))
  <2>1. /\ Running /\ HasNext
        /\ symbol(Next_node) \in {"TOK_FUNCTION", "TOK_PROTOTYPE"}
    BY <1>6 DEF VisitFunction, Visiting
  <2>2. UNCHANGED scopeVars \/ EnterFunction(n, prev)
    BY <1>6 DEF VisitFunction, Redeclare, SkipFunction
  <2>3. CASE UNCHANGED scopeVars
    BY <1>2, <2>3 DEF scopeVars
  <2>4. CASE EnterFunction(n, prev)
    <3>1. /\ d \in Node /\ lexinfo(d) \in Name /\ ScopesInv
          /\ BeginFunction(d, lexinfo(d))
      BY <2>1, <2>4, FunctionSymbol DEF EnterFunction, TraversalInv
    <3>2. \/ Declared' = Declared \cup {d}
             /\ symentry' = [symentry EXCEPT ![d] = d]
          \/ symentry' = symentry
      BY <3>1, Begins
    <3> HIDE DEF d
    <3> QED BY <1>1, <1>2, <3>2
  <2> QED BY <2>2, <2>3, <2>4
<1>7. CASE LeaveIdent
  <2>1. symentry' = [symentry EXCEPT ![Caller.node] =
                       find_symbol(lexinfo(Caller.node))]
    BY <1>7 DEF LeaveIdent, UseSymbol
  <2>2. find_symbol(lexinfo(Caller.node)) \in Declared' \cup {NULL}
    BY <1>1, FoundIsDeclared DEF TraversalInv
  <2> QED BY <1>1, <2>1, <2>2
<1>8. CASE VisitVoid
  BY <1>2, <1>8 DEF VisitVoid, scopeVars
<1>9. CASE VisitStruct
  BY <1>2, <1>9 DEF VisitStruct, scopeVars
<1>10. CASE EndParams
  BY <1>2, <1>10 DEF EndParams, scopeVars
<1>11. CASE EndFunction
  BY <1>2, <1>11 DEF EndFunction, LeaveBlock
<1>12. CASE VisitNode
  BY <1>2, <1>12 DEF VisitNode, EnterBlock, scopeVars
<1>13. CASE LeaveSelector
  BY <1>2, <1>13 DEF LeaveSelector, scopeVars
<1>14. CASE LeaveAllocator
  BY <1>2, <1>14 DEF LeaveAllocator, scopeVars
<1>15. CASE LeaveCall
  BY <1>2, <1>15 DEF LeaveCall, scopeVars
<1>16. CASE LeaveNode
  BY <1>2, <1>16 DEF LeaveNode, LeaveBlock, scopeVars
<1> QED BY <1>4, <1>5, <1>6, <1>7, <1>8, <1>9, <1>10, <1>11, <1>12, <1>13,
           <1>14, <1>15, <1>16 DEF Next

(* A structure gets its fields. *)
LEMMA StructLinks ==
  ASSUME TraversalInv, DataInv, VisitStruct
  PROVE  /\ member' \in [Node -> DOMAIN info' \cup {NULL}]
         /\ DOMAIN typeid_table' \subseteq Name
         /\ \A t \in DOMAIN typeid_table' :
              typeid_table'[t] \in [DOMAIN typeid_table'[t] -> DOMAIN info']
<1> DEFINE n == Next_node
           name == lexinfo(child(n, 0))
           fields == {declared(child(n, i)) : i \in 1..arity(n) - 1}
           table == [x \in {lexinfo(d) : d \in fields} |->
                       CHOOSE d \in fields : lexinfo(d) = x]
<1>1. /\ WellFormed(ast, Name) /\ DOMAIN ast \subseteq Node
      /\ n \in DOMAIN ast /\ symbol(n) = "TOK_STRUCT"
  BY Goes, CallerIs DEF VisitStruct, Visiting
<1>2. DOMAIN info \subseteq DOMAIN info'
  BY InfoStep DEF Next
<1>3. \/ member' = member /\ typeid_table' = typeid_table
      \/ /\ typeid_table' = Extend(typeid_table, name, table)
         /\ DOMAIN info' = DOMAIN info \cup fields
         /\ member' = [u \in Node |-> IF u \in fields THEN u ELSE member[u]]
  BY DEF VisitStruct
<1>4. /\ member \in [Node -> DOMAIN info \cup {NULL}]
      /\ DOMAIN typeid_table \subseteq Name
      /\ \A t \in DOMAIN typeid_table :
           typeid_table[t] \in [DOMAIN typeid_table[t] -> DOMAIN info]
  BY DEF DataInv, LinksTyped
<1>5. CASE member' = member /\ typeid_table' = typeid_table
  BY <1>2, <1>4, <1>5
<1>6. CASE /\ typeid_table' = Extend(typeid_table, name, table)
           /\ DOMAIN info' = DOMAIN info \cup fields
           /\ member' = [u \in Node |-> IF u \in fields THEN u ELSE member[u]]
  <2>1. name \in Name
    BY <1>1, StructName
  <2>2. \A x \in DOMAIN table : table[x] \in fields
    OBVIOUS
  <2>3. table \in [DOMAIN table -> fields]
    BY <2>2
  <2> HIDE DEF table, fields, name
  <2>4. /\ DOMAIN typeid_table' = DOMAIN typeid_table \cup {name}
        /\ typeid_table'[name] = table
        /\ \A t \in DOMAIN typeid_table :
             t # name => typeid_table'[t] = typeid_table[t]
    BY <1>6 DEF Extend
  <2>5. table \in [DOMAIN table -> DOMAIN info']
    BY <1>6, <2>3
  <2>6. \A t \in DOMAIN typeid_table :
          typeid_table[t] \in [DOMAIN typeid_table[t] -> DOMAIN info']
    BY <1>2, <1>4
  <2>7. \A t \in DOMAIN typeid_table' :
          typeid_table'[t] \in [DOMAIN typeid_table'[t] -> DOMAIN info']
    BY <2>4, <2>5, <2>6
  <2>8. member' \in [Node -> DOMAIN info' \cup {NULL}]
    BY <1>4, <1>6
  <2> QED BY <1>4, <2>1, <2>4, <2>7, <2>8
<1> QED BY <1>3, <1>5, <1>6

(* Members are known, and so are the fields of structures. *)
LEMMA LinksStep ==
  ASSUME TraversalInv, DataInv, Next
  PROVE  LinksTyped'
<1>1. /\ member \in [Node -> DOMAIN info \cup {NULL}]
      /\ symentry \in [Node -> Declared \cup {NULL}]
      /\ DOMAIN typeid_table \subseteq Name
      /\ \A t \in DOMAIN typeid_table :
           typeid_table[t] \in [DOMAIN typeid_table[t] -> DOMAIN info]
      /\ InfoTyped /\ LinksTyped
  BY DEF DataInv, LinksTyped
<1>2. DOMAIN info \subseteq DOMAIN info'
  BY InfoStep
<1>3. symentry' \in [Node -> Declared' \cup {NULL}]
  BY <1>1, BindingStep
<1> DEFINE Goal ==
      /\ member' \in [Node -> DOMAIN info' \cup {NULL}]
      /\ DOMAIN typeid_table' \subseteq Name
      /\ \A t \in DOMAIN typeid_table' :
           typeid_table'[t] \in [DOMAIN typeid_table'[t] -> DOMAIN info']
<1> SUFFICES Goal
  BY <1>3 DEF LinksTyped
<1>4. ASSUME typeid_table' = typeid_table,
             member' \in [Node -> DOMAIN info' \cup {NULL}]
      PROVE  Goal
  BY <1>1, <1>2, <1>4
<1>5. ASSUME typeid_table' = typeid_table, member' = member
      PROVE  Goal
  BY <1>1, <1>2, <1>5
<1>6. CASE VisitStruct
  BY <1>6, StructLinks
<1>7. CASE LeaveSelector
  <2> DEFINE n == Caller.node
             t == type_name[child(n, 0)]
             u == child(n, 1)
             known == /\ t \in DOMAIN typeid_table
                      /\ lexinfo(u) \in DOMAIN typeid_table[t]
             field == typeid_table[t][lexinfo(u)]
  <2>1. /\ typeid_table' = typeid_table
        /\ \/ member' = member
           \/ known /\ member' = [member EXCEPT ![n] = field, ![u] = field]
    BY <1>7 DEF LeaveSelector
  <2>2. known => field \in DOMAIN info
    BY <1>1, SelectedIsKnown
  <2> HIDE DEF n, t, u, field, known
  <2>3. member' \in [Node -> DOMAIN info' \cup {NULL}]
    BY <1>1, <1>2, <2>1, <2>2
  <2> QED BY <1>4, <2>1, <2>3
<1> HIDE DEF Goal
<1>8. CASE VisitDeclaration
  BY <1>5, <1>8 DEF VisitDeclaration
<1>9. CASE DeclareParam
  BY <1>5, <1>9 DEF DeclareParam
<1>10. CASE VisitFunction
  BY <1>5, <1>10 DEF VisitFunction
<1>11. CASE VisitVoid
  BY <1>5, <1>11 DEF VisitVoid
<1>12. CASE EndParams
  BY <1>5, <1>12 DEF EndParams
<1>13. CASE EndFunction
  BY <1>5, <1>13 DEF EndFunction
<1>14. CASE VisitNode
  BY <1>5, <1>14 DEF VisitNode
<1>15. CASE LeaveIdent
  BY <1>5, <1>15 DEF LeaveIdent
<1>16. CASE LeaveAllocator
  BY <1>5, <1>16 DEF LeaveAllocator
<1>17. CASE LeaveCall
  BY <1>5, <1>17 DEF LeaveCall
<1>18. CASE LeaveNode
  BY <1>5, <1>18 DEF LeaveNode
<1> QED BY <1>6, <1>7, <1>8, <1>9, <1>10, <1>11, <1>12, <1>13, <1>14, <1>15,
           <1>16, <1>17, <1>18 DEF Next

(* The function that is being analysed is a global symbol. *)
LEMMA FunctionStaysKnown ==
  ASSUME TraversalInv, FunctionKnown, Next
  PROVE  FunctionKnown'
<1>1. Keeps(TableAt(1), TableAt(1)')
  BY TraversalStep, GlobalGrows DEF TraversalInv
<1>2. ASSUME current_function' = current_function
      PROVE  FunctionKnown'
  BY <1>1, <1>2 DEF FunctionKnown, Keeps
<1>3. CASE VisitFunction
  <2> DEFINE n == Next_node
             d == declared(child(n, 0))
             prev == GlobalSymbol(lexinfo(d))
  <2>1. /\ Running /\ HasNext
        /\ symbol(Next_node) \in {"TOK_FUNCTION", "TOK_PROTOTYPE"}
    BY <1>3 DEF VisitFunction, Visiting
  <2>2. current_function' = current_function \/ EnterFunction(n, prev)
    BY <1>3 DEF VisitFunction, Redeclare, SkipFunction
  <2>3. CASE EnterFunction(n, prev)
    <3>1. /\ d \in Node /\ lexinfo(d) \in Name /\ ScopesInv
          /\ BeginFunction(d, lexinfo(d))
          /\ current_function' = lexinfo(d)
      BY <2>1, <2>3, FunctionSymbol DEF EnterFunction, TraversalInv
    <3>2. lexinfo(d) \in DOMAIN TableAt(1)'
      BY <3>1, Begins
    <3> QED BY <3>1, <3>2 DEF FunctionKnown
  <2> QED BY <1>2, <2>2, <2>3
<1>4. CASE EndFunction
  BY <1>4 DEF EndFunction, FunctionKnown
<1>5. CASE VisitDeclaration
  BY <1>2, <1>5 DEF VisitDeclaration
<1>6. CASE DeclareParam
  BY <1>2, <1>6 DEF DeclareParam
<1>7. CASE VisitStruct
  BY <1>2, <1>7 DEF VisitStruct
<1>8. CASE VisitVoid
  BY <1>2, <1>8 DEF VisitVoid
<1>9. CASE EndParams
  BY <1>2, <1>9 DEF EndParams
<1>10. CASE VisitNode
  BY <1>2, <1>10 DEF VisitNode
<1>11. CASE LeaveIdent
  BY <1>2, <1>11 DEF LeaveIdent
<1>12. CASE LeaveSelector
  BY <1>2, <1>12 DEF LeaveSelector
<1>13. CASE LeaveAllocator
  BY <1>2, <1>13 DEF LeaveAllocator
<1>14. CASE LeaveCall
  BY <1>2, <1>14 DEF LeaveCall
<1>15. CASE LeaveNode
  BY <1>2, <1>15 DEF LeaveNode
<1> QED BY <1>3, <1>4, <1>5, <1>6, <1>7, <1>8, <1>9, <1>10, <1>11, <1>12,
           <1>13, <1>14, <1>15 DEF Next

-----------------------------------------------------------------------------
(* Errors. *)

(* Errors are counted, and what is printed is counted. *)
Counting ==
  /\ semantic_errors' \in Nat /\ semantic_errors' >= semantic_errors
  /\ reported' \in BOOLEAN
  /\ reported' => reported \/ semantic_errors' > semantic_errors
  /\ reported => reported'

(* What is counted is printed. *)
Diagnosing == semantic_errors' = semantic_errors \/ reported'

(* The node that is left failed without a word, because an operand of it   *)
(* has no type.                                                            *)
Excused ==
  \/ /\ LeaveNode /\ symbol(Caller.node) \in {"TOK_INDEX", "TOK_RETURN"}
     /\ get_node_attributes(child(Caller.node, 0)) = {}
  \/ LeaveCall /\ symentry[child(Caller.node, 0)] = NULL

LEMMA FineCounts ==
  ASSUME CountsTyped, semantic_errors' = semantic_errors, reported' = reported
  PROVE  Counting /\ Diagnosing
BY DEF CountsTyped, Counting, Diagnosing

LEMMA ReportCounts ==
  ASSUME CountsTyped, NEW e \in Nat \ {0}, Report(e)
  PROVE  Counting /\ Diagnosing /\ semantic_errors' > semantic_errors
<1>1. /\ semantic_errors \in Nat
      /\ semantic_errors' = semantic_errors + e
      /\ reported' = (reported \/ TRUE)
  BY DEF CountsTyped, Report, Count
<1>2. semantic_errors' \in Nat /\ semantic_errors' > semantic_errors
  BY <1>1
<1>3. reported' \in BOOLEAN /\ reported'
  BY <1>1
<1> QED BY <1>1, <1>2, <1>3 DEF Counting, Diagnosing

LEMMA TellCounts ==
  ASSUME CountsTyped, NEW c, Tell(c), c.said => ~ c.ok
  PROVE  Counting /\ ((~ c.ok => c.said) => Diagnosing)
<1>1. /\ semantic_errors \in Nat /\ reported \in BOOLEAN
      /\ semantic_errors' = semantic_errors + IF c.ok THEN 0 ELSE 1
      /\ reported' = (reported \/ c.said)
  BY DEF CountsTyped, Tell, Count
<1>2. /\ semantic_errors' \in Nat /\ semantic_errors' >= semantic_errors
      /\ c.ok => semantic_errors' = semantic_errors
      /\ ~ c.ok => semantic_errors' > semantic_errors
  BY <1>1
<1>3. reported' \in BOOLEAN
  BY <1>1, Zenon
<1>4. (reported' => reported \/ c.said) /\ (reported \/ c.said => reported')
  BY <1>1, Zenon
<1> QED BY <1>2, <1>3, <1>4 DEF Counting, Diagnosing

(* Every step counts what it prints, and prints what it counts unless it   *)
(* is excused.                                                             *)
LEMMA StepCounts ==
  ASSUME TraversalInv, DataInv, Next
  PROVE  Counting /\ (Diagnosing \/ Excused)
<1> USE DEF DataInv
<1>1. ASSUME Fine PROVE Counting /\ Diagnosing
  BY <1>1, FineCounts DEF Fine
<1>2. ASSUME Report(1) \/ Report(2) PROVE Counting /\ Diagnosing
  BY <1>2, ReportCounts
<1>3. CASE VisitDeclaration
  <2>1. Fine \/ Report(1)
    BY <1>3 DEF VisitDeclaration
  <2> QED BY <1>1, <1>2, <2>1
<1>4. CASE VisitVoid
  BY <1>2, <1>4 DEF VisitVoid
<1>5. CASE VisitStruct
  <2>1. Fine \/ Report(1)
    BY <1>5 DEF VisitStruct
  <2> QED BY <1>1, <1>2, <2>1
<1>6. CASE VisitFunction
  <2>1. Fine \/ Report(1) \/ Report(2)
    BY <1>6 DEF VisitFunction, Redeclare, SkipFunction, EnterFunction
  <2> QED BY <1>1, <1>2, <2>1
<1>7. CASE DeclareParam
  <2>1. Fine \/ Report(1)
    BY <1>7 DEF DeclareParam
  <2> QED BY <1>1, <1>2, <2>1
<1>8. CASE EndParams
  BY <1>1, <1>8 DEF EndParams, Fine
<1>9. CASE EndFunction
  BY <1>1, <1>9 DEF EndFunction, Fine
<1>10. CASE VisitNode
  BY <1>1, <1>10 DEF VisitNode, Fine
<1>11. CASE LeaveIdent
  <2>1. Fine \/ Report(1)
    BY <1>11 DEF LeaveIdent
  <2> QED BY <1>1, <1>2, <2>1
<1>12. CASE LeaveSelector
  <2> DEFINE n == Caller.node
             t == type_name[child(n, 0)]
             u == child(n, 1)
             known == /\ t \in DOMAIN typeid_table
                      /\ lexinfo(u) \in DOMAIN typeid_table[t]
             field == typeid_table[t][lexinfo(u)]
             res == attr_handle_field_selector(
                      get_node_attributes(child(n, 0)),
                      IF known THEN info[field].attributes ELSE attributes[u],
                      IF known THEN info[field].type_name ELSE type_name[u])
  <2>1. \/ known /\ Tell(res)
        \/ Count(IF res.ok THEN 1 ELSE 2, TRUE)
    BY <1>12 DEF LeaveSelector
  <2>2. known => Typed(res)
    <3> SUFFICES ASSUME known PROVE Typed(res)
      OBVIOUS
    <3>1. /\ info[field].attributes \in SUBSET Attr
          /\ info[field].type_name \in Name \cup {NULL}
      BY SelectedIsKnown
    <3>2. res = attr_handle_field_selector(get_node_attributes(child(n, 0)),
                  info[field].attributes, info[field].type_name)
      OBVIOUS
    <3> HIDE DEF res, field
    <3> QED BY <3>1, <3>2, SelectorTyped
  <2> HIDE DEF res, known
  <2>3. CASE known /\ Tell(res)
    BY <2>2, <2>3, TellCounts DEF Typed, Judged, Clear
  <2>4. CASE Count(IF res.ok THEN 1 ELSE 2, TRUE)
    <3> DEFINE e == IF res.ok THEN 1 ELSE 2
    <3>1. e \in Nat \ {0}
      OBVIOUS
    <3> HIDE DEF e
    <3>2. Report(e)
      BY <2>4 DEF Report, e
    <3> QED BY <3>1, <3>2, ReportCounts
  <2> QED BY <2>1, <2>3, <2>4
<1>13. CASE LeaveAllocator
  <2> DEFINE n == Caller.node
             e == ElementType(n)
             res == IF symbol(n) = "TOK_NEW"
                    THEN attr_handle_new(e.attributes, e.type_name)
                    ELSE attr_handle_newarray(e.attributes, e.type_name,
                           get_node_attributes(child(n, 1)))
  <2>1. Running /\ symbol(n) \in {"TOK_NEW", "TOK_NEWARRAY"}
    BY <1>13 DEF LeaveAllocator, Returning
  <2>2. e.attributes \in SUBSET Attr /\ e.type_name \in Name \cup {NULL}
    BY <2>1, CallerIs, ElementTyped
  <2>3. Report(1) \/ Tell(res)
    BY <1>13 DEF LeaveAllocator
  <2> HIDE DEF e
  <2>4. Typed(res)
    BY <2>2, AllocatorsTyped
  <2> HIDE DEF res
  <2>5. CASE Tell(res)
    BY <2>4, <2>5, TellCounts DEF Typed, Judged, Clear
  <2> QED BY <1>2, <2>3, <2>5
<1>14. CASE LeaveCall
  <2> DEFINE n == Caller.node
             res == CallResult(n)
  <2>1. Running /\ symbol(n) = "TOK_CALL"
    BY <1>14 DEF LeaveCall, Returning
  <2>2. \/ symentry[child(n, 0)] = NULL /\ Tell(Silent)
        \/ Fine
        \/ symentry[child(n, 0)] # NULL /\ ~ CallBroken(n) /\ Tell(res)
    BY <1>14 DEF LeaveCall, CallResult, CallParams, CallArgs, CallBroken, Fine
  <2>3. symentry[child(n, 0)] # NULL =>
          Judged(res) /\ (~ CallBroken(n) => Clear(res))
    BY <2>1, CallerIs, CallTyped
  <2> HIDE DEF res
  <2>4. CASE symentry[child(n, 0)] = NULL /\ Tell(Silent)
    <3>1. Silent.said => ~ Silent.ok
      BY DEF Silent
    <3> QED BY <1>14, <2>4, <3>1, TellCounts DEF Excused
  <2>5. CASE symentry[child(n, 0)] # NULL /\ ~ CallBroken(n) /\ Tell(res)
    BY <2>3, <2>5, TellCounts DEF Judged, Clear
  <2> QED BY <1>1, <2>2, <2>4, <2>5
<1>15. CASE LeaveNode
  <2> DEFINE n == Caller.node
             res == process_attributes(n)
  <2>1. Running /\ symbol(n) \notin Separate
    BY <1>15 DEF LeaveNode, Separate
  <2>2. Tell(res)
    BY <1>15 DEF LeaveNode
  <2>3. /\ Judged(res)
        /\ \/ Clear(res)
           \/ /\ symbol(n) \in {"TOK_INDEX", "TOK_RETURN"}
              /\ get_node_attributes(child(n, 0)) = {}
    BY <2>1, CallerIs, ProcessJudged
  <2> HIDE DEF res
  <2>4. Counting /\ (Clear(res) => Diagnosing)
    BY <2>2, <2>3, TellCounts DEF Judged, Clear
  <2> QED BY <1>15, <2>3, <2>4 DEF Excused
<1> QED BY <1>3, <1>4, <1>5, <1>6, <1>7, <1>8, <1>9, <1>10, <1>11, <1>12,
           <1>13, <1>14, <1>15 DEF Next

(* A step that crashes reports an error, or calls a function that has a    *)
(* parameter without a symbol.                                             *)
LEMMA StepCrashes ==
  ASSUME DataInv, Next
  PROVE  /\ crashed' \in BOOLEAN
         /\ \/ crashed' = crashed
            \/ semantic_errors' > semantic_errors
            \/ /\ LeaveCall /\ CallBroken(Caller.node)
               /\ symentry[child(Caller.node, 0)] # NULL
<1>1. crashed \in BOOLEAN /\ CountsTyped
  BY DEF DataInv, CountsTyped
<1>2. CASE VisitStruct
  <2>1. crashed' = crashed \/ (crashed' = TRUE /\ Report(1))
    BY <1>2 DEF VisitStruct
  <2>2. Report(1) => semantic_errors' > semantic_errors
    BY <1>1, ReportCounts
  <2> QED BY <1>1, <2>1, <2>2
<1>3. CASE LeaveCall
  <2>1. \/ crashed' = crashed
        \/ /\ crashed' = TRUE /\ CallBroken(Caller.node)
           /\ symentry[child(Caller.node, 0)] # NULL
    BY <1>3 DEF LeaveCall, CallBroken, CallArgs
  <2> QED BY <1>1, <1>3, <2>1
<1>4. ASSUME ~ VisitStruct, ~ LeaveCall
      PROVE  crashed' = crashed
  BY <1>4 DEF Next, VisitDeclaration, VisitVoid, VisitFunction, DeclareParam,
     EndParams, EndFunction, VisitNode, LeaveIdent, LeaveSelector,
     LeaveAllocator, LeaveNode
<1> QED BY <1>1, <1>2, <1>3, <1>4

-----------------------------------------------------------------------------
(* Types. *)

LEMMA DataInit == Init => DataInv
<1> SUFFICES ASSUME Init PROVE DataInv
  OBVIOUS
<1>1. NodesTyped
  BY DEF Init, NodesTyped
<1>2. Declared = {} /\ symentry = [u \in Node |-> NULL]
  BY DEF Init, ScopesInit, Declared
<1>3. InfoTyped
  BY <1>2 DEF Init, InfoTyped, Known
<1>4. LinksTyped
  BY <1>2 DEF Init, LinksTyped
<1>5. FunctionKnown
  BY DEF Init, FunctionKnown
<1>6. CountsTyped
  BY DEF Init, CountsTyped
<1> QED BY <1>1, <1>3, <1>4, <1>5, <1>6 DEF DataInv

LEMMA DataStep == TraversalInv /\ DataInv /\ [Next]_vars => DataInv'
<1> SUFFICES ASSUME TraversalInv, DataInv, [Next]_vars PROVE DataInv'
  OBVIOUS
<1>1. CASE Next
  <2>1. NodesTyped'
    BY <1>1, NodesStep
  <2>2. InfoTyped'
    BY <1>1, InfoStep
  <2>3. LinksTyped'
    BY <1>1, LinksStep
  <2>4. FunctionKnown'
    BY <1>1, FunctionStaysKnown DEF DataInv
  <2>5. CountsTyped'
    BY <1>1, StepCounts, StepCrashes DEF Counting, CountsTyped
  <2> QED BY <2>1, <2>2, <2>3, <2>4, <2>5 DEF DataInv
<1>2. CASE UNCHANGED vars
  <2>1. /\ attributes' = attributes /\ type_name' = type_name
        /\ info' = info /\ Declared' = Declared /\ member' = member
        /\ symentry' = symentry /\ typeid_table' = typeid_table
        /\ current_function' = current_function /\ TableAt(1)' = TableAt(1)
        /\ semantic_errors' = semantic_errors /\ reported' = reported
        /\ crashed' = crashed
    BY <1>2 DEF vars, semVars, scopeVars, Declared, TableAt
  <2> QED BY <2>1 DEF DataInv, NodesTyped, InfoTyped, LinksTyped, FunctionKnown,
                      CountsTyped
<1> QED BY <1>1, <1>2

(* In every state of the semantic pass, its variables are what the types   *)
(* of the code say: the tables hold symbols, every symbol in a table is    *)
(* known, every function analysed is global, and every symbol has a type.  *)
THEOREM DataCorrect == Spec => [](TraversalInv /\ DataInv)
<1>1. Init => TraversalInv /\ DataInv
  BY TraversalInit, DataInit
<1>2. TraversalInv /\ DataInv /\ [Next]_vars => (TraversalInv /\ DataInv)'
  BY TraversalStep, DataStep
<1> QED BY <1>1, <1>2, PTL DEF Spec

LEMMA SeqWidens ==
  ASSUME NEW S, NEW s \in Seq(S), NEW T, S \subseteq T
  PROVE  s \in Seq(T)
OBVIOUS

(* The values the variables range over. *)
THEOREM SemanticsTypeCorrect == Spec => []SemanticsTypeOK
<1>1. TraversalInv /\ DataInv => SemanticsTypeOK
  <2> SUFFICES ASSUME TraversalInv, DataInv PROVE SemanticsTypeOK
    OBVIOUS
  <2>1. /\ ScopesInv /\ DOMAIN ast \subseteq Node /\ WellFormed(ast, Name)
        /\ calls \in Seq(Frames(ast))
    BY Tree DEF TraversalInv, Walk
  <2>2. \A i \in 1..Depth : TableAt(i) \in [DOMAIN TableAt(i) -> Node]
    <3> SUFFICES ASSUME NEW i \in 1..Depth
                 PROVE  TableAt(i) \in [DOMAIN TableAt(i) -> Node]
      OBVIOUS
    <3>1. /\ symbol_stack \in Seq(Tables(Name) \cup {NULL})
          /\ TableAt(i) = TableIn(symbol_stack, i) /\ i \in 1..Len(symbol_stack)
      BY <2>1 DEF ScopesInv, Good, Stacks, TableAt, TableIn, Depth
    <3>2. TableAt(i) \in Tables(Name)
      BY <3>1, TableInType
    <3> QED BY <3>2 DEF Tables
  <2>3. block_num_stack \in Seq(Nat) /\ Depth = Len(block_num_stack)
    BY <2>1 DEF ScopesInv, Good, Stacks, Depth
  <2>4. symbols \in [Declared -> [lexinfo : Name, block_nr : Nat]]
    BY <2>1 DEF ScopesInv, Good, Symbols, ScopeSymbol, Declared
  <2>5. symentry \in [Node -> Node \cup {NULL}]
    BY DEF DataInv, LinksTyped, InfoTyped, Known
  <2>6. calls \in Seq([node : DOMAIN ast, next : Nat])
    <3> DEFINE F == [node : DOMAIN ast, next : Nat]
    <3>1. Frames(ast) \subseteq F
      BY DEF Frames
    <3> HIDE DEF F
    <3>2. calls \in Seq(F)
      BY <2>1, <3>1, SeqWidens
    <3> QED BY <3>2 DEF F
  <2>7. /\ attributes \in [Node -> SUBSET Attr]
        /\ type_name \in [Node -> Name \cup {NULL}]
    BY DEF DataInv, NodesTyped
  <2>8. /\ DOMAIN info \subseteq Node /\ info \in [DOMAIN info -> Symbol]
        /\ Declared \subseteq DOMAIN info
    BY DEF DataInv, InfoTyped, Known
  <2>9. /\ member \in [Node -> Node \cup {NULL}]
        /\ DOMAIN typeid_table \subseteq Name
        /\ \A t \in DOMAIN typeid_table :
             typeid_table[t] \in [DOMAIN typeid_table[t] -> DOMAIN info]
    BY <2>8 DEF DataInv, LinksTyped
  <2>10. /\ current_function \in Name \cup {NULL} /\ semantic_errors \in Nat
         /\ {reported, crashed} \subseteq BOOLEAN
    BY DEF DataInv, FunctionKnown, CountsTyped
  <2> QED BY <2>2, <2>3, <2>4, <2>5, <2>6, <2>7, <2>8, <2>9, <2>10
          DEF SemanticsTypeOK
<1> QED BY <1>1, DataCorrect, PTL
=============================================================================
