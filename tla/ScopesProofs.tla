---------------------------- MODULE ScopesProofs ----------------------------
(***************************************************************************)
(* Proofs about Scopes, for every set of names and nodes and any number of *)
(* blocks: type correctness, the uniqueness of mangled names, exactness of *)
(* the tables, and the refinement of LexicalScope.                         *)
(***************************************************************************)
EXTENDS Scopes, WellFoundedInduction, TLAPS

ScopeSymbol == [lexinfo : Name, block_nr : Nat]

TableIn(ss, i) == IF ss[i] = NULL THEN EmptyTable ELSE ss[i]

(* The stacks are parallel, the global block is number 0 and the open      *)
(* blocks are numbered in the order they were entered, by numbers that     *)
(* have been handed out.                                                   *)
Stacks(ss, bns, nb) ==
  /\ ss \in Seq(Tables(Name) \cup {NULL})
  /\ bns \in Seq(Nat)
  /\ Len(ss) = Len(bns)
  /\ Len(ss) > 0
  /\ nb \in Nat
  /\ bns[1] = 0
  /\ \A i \in 1..Len(ss) : bns[i] < nb
  /\ \A i, j \in 1..Len(ss) : i < j => bns[i] < bns[j]

Symbols(nb, sy) ==
  /\ DOMAIN sy \subseteq Node
  /\ sy \in [DOMAIN sy -> ScopeSymbol]
  /\ \A d \in DOMAIN sy : sy[d].block_nr < nb
  /\ \A d, e \in DOMAIN sy : sy[d] = sy[e] => d = e

(* What a table says is so ...                                             *)
Sound(ss, bns, sy) ==
  \A i \in 1..Len(ss) : \A n \in DOMAIN TableIn(ss, i) :
    /\ TableIn(ss, i)[n] \in DOMAIN sy
    /\ sy[TableIn(ss, i)[n]] = [lexinfo |-> n, block_nr |-> bns[i]]

(* ... and what is so, a table says.                                       *)
Complete(ss, bns, sy) ==
  \A i \in 1..Len(ss) : \A d \in DOMAIN sy :
    sy[d].block_nr = bns[i] =>
      /\ sy[d].lexinfo \in DOMAIN TableIn(ss, i)
      /\ TableIn(ss, i)[sy[d].lexinfo] = d

(* The inductive invariant, as a predicate of the values of the variables  *)
(* so that a handler that inserts a symbol and enters a block is two       *)
(* applications of a lemma.  Uniqueness of names needs the tables to be    *)
(* complete (or a second symbol could be made), and that needs block       *)
(* numbers never to be handed out twice.                                   *)
Good(ss, bns, nb, sy) ==
  /\ Stacks(ss, bns, nb)
  /\ Symbols(nb, sy)
  /\ Sound(ss, bns, sy)
  /\ Complete(ss, bns, sy)

ScopesInv ==
  /\ Good(symbol_stack, block_num_stack, next_block, symbols)
  /\ symentry \in [Node -> Node \cup {NULL}]

-----------------------------------------------------------------------------

LEMMA EmptyTableType == EmptyTable \in Tables(Name) /\ DOMAIN EmptyTable = {}
<1>1. EmptyTable \in [{} -> Node] /\ DOMAIN EmptyTable = {}
  BY DEF EmptyTable
<1> QED BY <1>1 DEF Tables

(* A level of the stack always denotes a table of nodes. *)
LEMMA TableInType ==
  ASSUME NEW ss \in Seq(Tables(Name) \cup {NULL}), NEW i \in 1..Len(ss)
  PROVE  TableIn(ss, i) \in Tables(Name)
BY EmptyTableType DEF TableIn

LEMMA TableFacts ==
  ASSUME NEW t \in Tables(Name)
  PROVE  /\ DOMAIN t \subseteq Name
         /\ t \in [DOMAIN t -> Node]
         /\ t # NULL
BY NullAssumption DEF Tables

(* Inserting d as n in a table. *)
LEMMA ExtendTable ==
  ASSUME NEW t \in Tables(Name), NEW d \in Node, NEW n \in Name
  PROVE  /\ Extend(t, n, d) \in Tables(Name)
         /\ DOMAIN Extend(t, n, d) = DOMAIN t \cup {n}
         /\ Extend(t, n, d)[n] = d
         /\ \A m \in DOMAIN t : m # n => Extend(t, n, d)[m] = t[m]
<1>1. DOMAIN t \subseteq Name /\ t \in [DOMAIN t -> Node]
  BY TableFacts
<1>2. Extend(t, n, d) \in [DOMAIN t \cup {n} -> Node]
  BY <1>1 DEF Extend
<1>3. DOMAIN t \cup {n} \in SUBSET Name
  BY <1>1
<1>4. Extend(t, n, d) \in Tables(Name)
  BY <1>2, <1>3 DEF Tables
<1> QED BY <1>1, <1>2, <1>4 DEF Extend

(* Replacing a level of the stack by a table. *)
LEMMA ReplaceLevel ==
  ASSUME NEW ss \in Seq(Tables(Name) \cup {NULL}), NEW k \in 1..Len(ss),
         NEW t \in Tables(Name)
  PROVE  LET s2 == [ss EXCEPT ![k] = t] IN
         /\ s2 \in Seq(Tables(Name) \cup {NULL})
         /\ Len(s2) = Len(ss)
         /\ TableIn(s2, k) = t
         /\ \A i \in 1..Len(ss) : i # k => TableIn(s2, i) = TableIn(ss, i)
<1> DEFINE s2 == [ss EXCEPT ![k] = t]
<1>1. ss \in [1..Len(ss) -> Tables(Name) \cup {NULL}]
  OBVIOUS
<1>2. /\ s2 \in [1..Len(ss) -> Tables(Name) \cup {NULL}]
      /\ s2[k] = t
      /\ \A i \in 1..Len(ss) : i # k => s2[i] = ss[i]
  BY <1>1
<1>3. s2 \in Seq(Tables(Name) \cup {NULL}) /\ Len(s2) = Len(ss)
  BY <1>2
<1>4. t # NULL
  BY TableFacts
<1> QED BY <1>2, <1>3, <1>4 DEF TableIn

(* create_symbol_in_table keeps the tables exact when it works on the      *)
(* table of the current block and the name is not in it.                   *)
LEMMA GoodInsert ==
  ASSUME NEW ss, NEW bns, NEW nb, NEW sy, Good(ss, bns, nb, sy),
         NEW d \in Node \ DOMAIN sy, NEW n \in Name,
         n \notin DOMAIN TableIn(ss, Len(ss))
  PROVE  Good([ss EXCEPT ![Len(ss)] = Extend(TableIn(ss, Len(ss)), n, d)],
              bns, nb,
              Extend(sy, d, [lexinfo |-> n, block_nr |-> bns[Len(ss)]]))
<1> DEFINE k == Len(ss)
           t == TableIn(ss, k)
           s2 == [ss EXCEPT ![k] = Extend(t, n, d)]
           y == [lexinfo |-> n, block_nr |-> bns[k]]
           y2 == Extend(sy, d, y)
<1>1. /\ ss \in Seq(Tables(Name) \cup {NULL}) /\ k = Len(bns)
      /\ bns \in Seq(Nat)
      /\ k \in 1..Len(ss) /\ bns[k] \in Nat /\ bns[k] < nb
      /\ \A i \in 1..Len(ss) : i # k => bns[i] < bns[k]
  BY DEF Good, Stacks
<1>2. t \in Tables(Name)
  BY <1>1, TableInType
<1>3. /\ Extend(t, n, d) \in Tables(Name)
      /\ DOMAIN Extend(t, n, d) = DOMAIN t \cup {n}
      /\ Extend(t, n, d)[n] = d
      /\ \A m \in DOMAIN t : m # n => Extend(t, n, d)[m] = t[m]
  BY <1>2, ExtendTable
<1>4. /\ s2 \in Seq(Tables(Name) \cup {NULL})
      /\ Len(s2) = Len(ss)
      /\ TableIn(s2, k) = Extend(t, n, d)
      /\ \A i \in 1..Len(ss) : i # k => TableIn(s2, i) = TableIn(ss, i)
  <2> HIDE DEF t
  <2> QED BY <1>1, <1>3, ReplaceLevel
<1>5. /\ y \in ScopeSymbol /\ DOMAIN sy \subseteq Node
      /\ sy \in [DOMAIN sy -> ScopeSymbol]
      /\ \A e \in DOMAIN sy : sy[e].block_nr < nb
      /\ \A e, f \in DOMAIN sy : sy[e] = sy[f] => e = f
  BY <1>1 DEF Good, Symbols, ScopeSymbol
<1>6. /\ DOMAIN y2 = DOMAIN sy \cup {d}
      /\ y2 \in [DOMAIN y2 -> ScopeSymbol]
      /\ y2[d] = y
      /\ \A e \in DOMAIN sy : y2[e] = sy[e]
  BY <1>5 DEF Extend
<1>7. \A e \in DOMAIN sy : sy[e] # y
  BY <1>1 DEF Good, Complete
<1> HIDE DEF s2, y2, t
<1>8. Stacks(s2, bns, nb)
  BY <1>1, <1>4 DEF Good, Stacks
<1>9. Symbols(nb, y2)
  BY <1>1, <1>5, <1>6, <1>7 DEF Symbols
<1>10. Sound(s2, bns, y2)
  <2> SUFFICES ASSUME NEW i \in 1..Len(ss), NEW m \in DOMAIN TableIn(s2, i)
               PROVE  /\ TableIn(s2, i)[m] \in DOMAIN y2
                      /\ y2[TableIn(s2, i)[m]]
                           = [lexinfo |-> m, block_nr |-> bns[i]]
    BY <1>4 DEF Sound
  <2>1. CASE i = k /\ m = n
    BY <2>1, <1>3, <1>4, <1>6
  <2>2. CASE ~(i = k /\ m = n)
    <3>1. m \in DOMAIN TableIn(ss, i) /\ TableIn(s2, i)[m] = TableIn(ss, i)[m]
      BY <2>2, <1>1, <1>3, <1>4 DEF t
    <3> QED BY <3>1, <1>6 DEF Good, Sound
  <2> QED BY <2>1, <2>2
<1>11. Complete(s2, bns, y2)
  <2> SUFFICES ASSUME NEW i \in 1..Len(ss), NEW e \in DOMAIN y2,
                      y2[e].block_nr = bns[i]
               PROVE  /\ y2[e].lexinfo \in DOMAIN TableIn(s2, i)
                      /\ TableIn(s2, i)[y2[e].lexinfo] = e
    BY <1>4 DEF Complete
  <2>1. CASE e = d
    BY <2>1, <1>1, <1>3, <1>4, <1>6
  <2>2. CASE e # d
    <3>1. e \in DOMAIN sy /\ y2[e] = sy[e]
      BY <2>2, <1>6
    <3>2. /\ sy[e].lexinfo \in DOMAIN TableIn(ss, i)
          /\ TableIn(ss, i)[sy[e].lexinfo] = e
      BY <3>1 DEF Good, Complete
    <3> QED BY <3>1, <3>2, <1>1, <1>3, <1>4 DEF t
  <2> QED BY <2>1, <2>2
<1> QED BY <1>8, <1>9, <1>10, <1>11 DEF Good, s2, y2, t

(* scope_get_top_table: a missing table and an empty one say the same.     *)
LEMMA GoodTouch ==
  ASSUME NEW ss, NEW bns, NEW nb, NEW sy, Good(ss, bns, nb, sy)
  PROVE  Good([ss EXCEPT ![Len(ss)] = TableIn(ss, Len(ss))], bns, nb, sy)
<1> DEFINE k == Len(ss)
           t == TableIn(ss, k)
           s2 == [ss EXCEPT ![k] = t]
<1>1. ss \in Seq(Tables(Name) \cup {NULL}) /\ k \in 1..Len(ss)
  BY DEF Good, Stacks
<1>2. t \in Tables(Name)
  BY <1>1, TableInType
<1>3. /\ s2 \in Seq(Tables(Name) \cup {NULL})
      /\ Len(s2) = Len(ss)
      /\ \A i \in 1..Len(ss) : TableIn(s2, i) = TableIn(ss, i)
  <2>1. /\ s2 \in Seq(Tables(Name) \cup {NULL})
        /\ Len(s2) = Len(ss)
        /\ TableIn(s2, k) = t
        /\ \A i \in 1..Len(ss) : i # k => TableIn(s2, i) = TableIn(ss, i)
    <3> HIDE DEF t
    <3> QED BY <1>1, <1>2, ReplaceLevel
  <2>2. \A i \in 1..Len(ss) : i = k => TableIn(s2, i) = TableIn(ss, i)
    BY <2>1
  <2> HIDE DEF s2, t
  <2> QED BY <2>1, <2>2
<1> HIDE DEF s2
<1>4. Stacks(s2, bns, nb)
  BY <1>3 DEF Good, Stacks
<1>5. Sound(s2, bns, sy)
  BY <1>3 DEF Good, Sound
<1>6. Complete(s2, bns, sy)
  BY <1>3 DEF Good, Complete
<1> QED BY <1>4, <1>5, <1>6 DEF Good, s2, t

(* enter_block: the new level has no symbols, because no symbol has the    *)
(* number it gets.                                                         *)
LEMMA GoodPush ==
  ASSUME NEW ss, NEW bns, NEW nb, NEW sy, Good(ss, bns, nb, sy)
  PROVE  Good(Append(ss, NULL), Append(bns, nb), nb + 1, sy)
<1> DEFINE s2 == Append(ss, NULL)
           b2 == Append(bns, nb)
           k == Len(ss) + 1
<1>1. /\ ss \in Seq(Tables(Name) \cup {NULL}) /\ bns \in Seq(Nat) /\ nb \in Nat
      /\ Len(ss) \in Nat /\ Len(ss) = Len(bns) /\ Len(ss) > 0 /\ bns[1] = 0
      /\ \A i \in 1..Len(ss) : bns[i] < nb
      /\ \A i, j \in 1..Len(ss) : i < j => bns[i] < bns[j]
  BY DEF Good, Stacks
<1>2. /\ s2 \in Seq(Tables(Name) \cup {NULL}) /\ Len(s2) = k /\ s2[k] = NULL
      /\ \A i \in 1..Len(ss) : s2[i] = ss[i]
      /\ b2 \in Seq(Nat) /\ Len(b2) = k /\ b2[k] = nb
      /\ \A i \in 1..Len(ss) : b2[i] = bns[i]
  BY <1>1
<1> HIDE DEF s2, b2
<1>3. /\ TableIn(s2, k) = EmptyTable
      /\ \A i \in 1..Len(ss) : TableIn(s2, i) = TableIn(ss, i)
  BY <1>2 DEF TableIn
<1>4. \A i \in 1..k : i = k \/ i \in 1..Len(ss)
  BY <1>1
<1>5. /\ \A i \in 1..k : b2[i] \in Nat /\ b2[i] < nb + 1
      /\ \A i, j \in 1..k : i < j => b2[i] < b2[j]
      /\ b2[1] = 0
  <2>1. \A i \in 1..Len(ss) : b2[i] \in Nat /\ b2[i] < nb
    BY <1>1, <1>2
  <2>2. \A i, j \in 1..Len(ss) : i < j => b2[i] < b2[j]
    BY <1>1, <1>2
  <2>3. b2[1] = 0
    BY <1>1, <1>2
  <2>4. \A i \in 1..k : b2[i] \in Nat /\ b2[i] < nb + 1
    BY <2>1, <1>1, <1>2, <1>4
  <2>5. ASSUME NEW i \in 1..k, NEW j \in 1..k, i < j
        PROVE  b2[i] < b2[j]
    <3>1. i \in 1..Len(ss)
      BY <2>5, <1>1
    <3> QED BY <3>1, <2>1, <2>2, <2>5, <1>2, <1>4
  <2> QED BY <2>3, <2>4, <2>5
<1>6. Stacks(s2, b2, nb + 1)
  BY <1>1, <1>2, <1>5 DEF Stacks
<1>7. Symbols(nb + 1, sy)
  <2>1. \A d \in DOMAIN sy : sy[d].block_nr \in Nat
    BY DEF Good, Symbols, ScopeSymbol
  <2> QED BY <2>1, <1>1 DEF Good, Symbols
<1>8. Sound(s2, b2, sy)
  BY <1>2, <1>3, <1>4, EmptyTableType DEF Good, Sound
<1>9. Complete(s2, b2, sy)
  <2>1. \A d \in DOMAIN sy : sy[d].block_nr \in Nat /\ sy[d].block_nr # nb
    BY <1>1 DEF Good, Symbols, ScopeSymbol
  <2> QED BY <2>1, <1>2, <1>3, <1>4 DEF Good, Complete
<1> QED BY <1>6, <1>7, <1>8, <1>9 DEF Good, s2, b2

(* leave_block. *)
LEMMA GoodPop ==
  ASSUME NEW ss, NEW bns, NEW nb, NEW sy, Good(ss, bns, nb, sy), Len(ss) > 1
  PROVE  Good(Front(ss), Front(bns), nb, sy)
<1> DEFINE s2 == Front(ss)
           b2 == Front(bns)
           k == Len(ss) - 1
<1>1. /\ ss \in Seq(Tables(Name) \cup {NULL}) /\ bns \in Seq(Nat)
      /\ Len(ss) = Len(bns) /\ k \in Nat /\ k > 0
  BY DEF Good, Stacks
<1>2. /\ s2 \in Seq(Tables(Name) \cup {NULL}) /\ Len(s2) = k
      /\ \A i \in 1..k : s2[i] = ss[i]
      /\ b2 \in Seq(Nat) /\ Len(b2) = k
      /\ \A i \in 1..k : b2[i] = bns[i]
  BY <1>1 DEF Front
<1> HIDE DEF s2, b2
<1>3. \A i \in 1..k : TableIn(s2, i) = TableIn(ss, i) /\ i \in 1..Len(ss)
  BY <1>1, <1>2 DEF TableIn
<1>4. Stacks(s2, b2, nb)
  <2>1. Stacks(ss, bns, nb) /\ 1 \in 1..k
    BY <1>1 DEF Good
  <2> HIDE DEF k
  <2> QED BY <2>1, <1>1, <1>2, <1>3 DEF Stacks
<1>5. Sound(s2, b2, sy) /\ Complete(s2, b2, sy)
  <2> HIDE DEF k
  <2>1. Sound(s2, b2, sy)
    BY <1>2, <1>3 DEF Good, Sound
  <2>2. Complete(s2, b2, sy)
    BY <1>2, <1>3 DEF Good, Complete
  <2> QED BY <2>1, <2>2
<1> QED BY <1>4, <1>5 DEF Good, s2, b2

(* symbolize_declaration of a legal type, whether or not the block has the *)
(* name already.                                                           *)
LEMMA GoodDeclare ==
  ASSUME Good(symbol_stack, block_num_stack, next_block, symbols),
         NEW d \in Node \ Declared, NEW n \in Name, Insert(d, n, Depth)
  PROVE  Good([symbol_stack EXCEPT
                 ![Depth] = TableWith(TableAt(Depth), d, n)],
              block_num_stack, next_block, symbols')
<1>1. TableAt(Depth) = TableIn(symbol_stack, Len(symbol_stack))
  BY DEF TableAt, TableIn, Depth
<1>2. get_current_block = block_num_stack[Len(symbol_stack)]
  BY DEF get_current_block, Last, Good, Stacks
<1>3. CASE n \in DOMAIN TableAt(Depth)
  BY <1>1, <1>3, GoodTouch DEF TableWith, Insert, Depth
<1>4. CASE n \notin DOMAIN TableAt(Depth)
  BY <1>1, <1>2, <1>4, GoodInsert DEF TableWith, Insert, Depth, Declared
<1> QED BY <1>3, <1>4

LEMMA InsertBindings ==
  ASSUME symentry \in [Node -> Node \cup {NULL}],
         NEW d \in Node, NEW n, NEW level, Insert(d, n, level)
  PROVE  symentry' \in [Node -> Node \cup {NULL}]
BY DEF Insert

(* A nonempty set of levels has a greatest one. *)
LEMMA Greatest ==
  ASSUME NEW n \in Nat, NEW L \in SUBSET (1..n), L # {}
  PROVE  \E i \in L : \A j \in L : j <= i
<1> DEFINE R == OpToRel(<, Nat)
           T == {n - i : i \in L}
<1>1. \A i \in L : i \in Nat /\ i <= n /\ n - i \in Nat
  OBVIOUS
<1>2. T \in SUBSET Nat /\ T # {}
  <2>1. \E i : i \in L
    OBVIOUS
  <2> QED BY <1>1, <2>1
<1>3. IsWellFoundedOn(R, Nat)
  BY NatLessThanWellFounded
<1>4. PICK x \in T : \A y \in T : ~ (<<y, x>> \in R)
  <2> HIDE DEF R, T
  <2> QED BY <1>2, <1>3, WFMin
<1>5. PICK i \in L : x = n - i
  OBVIOUS
<1>6. ASSUME NEW j \in L PROVE j <= i
  <2>1. n - j \in Nat /\ n - i \in Nat /\ n - j \in T
    BY <1>1
  <2>2. <<n - j, n - i>> \notin R
    <3> HIDE DEF R, T
    <3> QED BY <1>4, <1>5, <2>1
  <2>3. ~ (n - j < n - i)
    BY <2>1, <2>2 DEF OpToRel
  <2> HIDE DEF R, T
  <2> QED BY <2>3, <1>1
<1> QED BY <1>6

(* An identifier is bound to a node, or to nothing. *)
LEMMA FindSymbolType ==
  ASSUME ScopesInv, NEW n
  PROVE  find_symbol(n) \in Node \cup {NULL}
<1>1. CASE LevelsWith(n) = {}
  BY <1>1 DEF find_symbol
<1>2. CASE LevelsWith(n) # {}
  <2>1. \A i \in LevelsWith(n) : TableAt(i)[n] \in Node
    <3> SUFFICES ASSUME NEW i \in LevelsWith(n) PROVE TableAt(i)[n] \in Node
      OBVIOUS
    <3>1. /\ i \in 1..Len(symbol_stack)
          /\ TableAt(i) = TableIn(symbol_stack, i)
          /\ n \in DOMAIN TableIn(symbol_stack, i)
      BY DEF LevelsWith, TableAt, TableIn, Depth
    <3> QED BY <3>1 DEF ScopesInv, Good, Sound, Symbols
  <2>2. Depth \in Nat /\ LevelsWith(n) \in SUBSET (1..Depth)
    BY DEF ScopesInv, Good, Stacks, Depth, LevelsWith
  <2>3. \E i \in LevelsWith(n) : \A j \in LevelsWith(n) : j <= i
    BY <1>2, <2>2, Greatest
  <2> QED BY <1>2, <2>1, <2>3 DEF find_symbol
<1> QED BY <1>1, <1>2

LEMMA InitInv == ScopesInit => ScopesInv
<1> SUFFICES ASSUME ScopesInit PROVE ScopesInv
  OBVIOUS
<1> USE EmptyTableType
<1>1. /\ symbol_stack = <<EmptyTable>> /\ block_num_stack = <<0>>
      /\ next_block = 1 /\ DOMAIN symbols = {}
      /\ symbols = [d \in {} |-> NULL]
      /\ symentry \in [Node -> Node \cup {NULL}]
  BY DEF ScopesInit
<1>2. Stacks(symbol_stack, block_num_stack, next_block)
  BY <1>1 DEF Stacks
<1>3. Symbols(next_block, symbols)
  BY <1>1 DEF Symbols
<1>4. TableIn(symbol_stack, 1) = EmptyTable /\ Len(symbol_stack) = 1
  BY <1>1 DEF TableIn
<1>5. Sound(symbol_stack, block_num_stack, symbols)
  BY <1>4 DEF Sound
<1>6. Complete(symbol_stack, block_num_stack, symbols)
  BY <1>1 DEF Complete
<1> QED BY <1>1, <1>2, <1>3, <1>5, <1>6 DEF ScopesInv, Good

LEMMA StepInv == ScopesInv /\ [ScopesNext]_scopeVars => ScopesInv'
<1> SUFFICES ASSUME ScopesInv, [ScopesNext]_scopeVars PROVE ScopesInv'
  OBVIOUS
<1> DEFINE IsGood == Good(symbol_stack, block_num_stack, next_block, symbols)
<1>1. IsGood /\ symentry \in [Node -> Node \cup {NULL}]
  BY DEF ScopesInv
<1>2. Len(symbol_stack) \in Nat
  BY <1>1 DEF Good, Stacks
<1>3. CASE EnterBlock
  BY <1>1, <1>3, GoodPush DEF EnterBlock, enter_block, ScopesInv
<1>4. CASE Depth > 1 /\ LeaveBlock
  BY <1>1, <1>4, GoodPop DEF LeaveBlock, leave_block, ScopesInv, Depth
<1>5. CASE DeclareNothing
  <2>1. symbol_stack' = [symbol_stack EXCEPT
              ![Len(symbol_stack)] = TableIn(symbol_stack, Len(symbol_stack))]
    BY <1>5 DEF DeclareNothing, TouchTopTable, TableAt, TableIn, Depth
  <2> QED BY <1>1, <1>5, <2>1, GoodTouch DEF DeclareNothing, ScopesInv
<1>6. ASSUME NEW d \in Node \ Declared, NEW n \in Name, DeclareLocal(d, n)
      PROVE  ScopesInv'
  <2>1. Insert(d, n, Depth)
    BY <1>6 DEF DeclareLocal
  <2>2. Good([symbol_stack EXCEPT
                ![Depth] = TableWith(TableAt(Depth), d, n)],
             block_num_stack, next_block, symbols')
    BY <1>1, <2>1, GoodDeclare
  <2>3. symentry' \in [Node -> Node \cup {NULL}]
    BY <1>1, <2>1, InsertBindings
  <2> QED BY <1>6, <2>2, <2>3 DEF DeclareLocal, ScopesInv
<1>7. ASSUME NEW d \in Node \ Declared, NEW n \in Name, BeginFunction(d, n)
      PROVE  ScopesInv'
  <2>0. Depth = 1
    BY <1>2, <1>7 DEF BeginFunction, scope_get_current_depth, Depth
  <2>1. Insert(d, n, Depth)
    BY <1>7, <2>0 DEF BeginFunction, Insert
  <2>2. Good([symbol_stack EXCEPT
                ![Depth] = TableWith(TableAt(Depth), d, n)],
             block_num_stack, next_block, symbols')
    BY <1>1, <2>1, GoodDeclare
  <2>3. symentry' \in [Node -> Node \cup {NULL}]
    BY <1>1, <2>1, InsertBindings
  <2> QED BY <1>7, <2>0, <2>2, <2>3, GoodPush DEF BeginFunction, ScopesInv
<1>8. ASSUME NEW u \in Node \ Declared, NEW n \in Name, UseSymbol(u, n)
      PROVE  ScopesInv'
  BY <1>1, <1>8, FindSymbolType DEF UseSymbol, ScopesInv
<1>9. CASE UNCHANGED scopeVars
  BY <1>1, <1>9 DEF scopeVars, ScopesInv
<1> QED BY <1>3, <1>4, <1>5, <1>6, <1>7, <1>8, <1>9 DEF ScopesNext

(* Every behaviour of the most general client keeps the invariant. *)
THEOREM Invariance == ScopesSpec => []ScopesInv
BY InitInv, StepInv, PTL DEF ScopesSpec

(* The tables, block numbers and bindings are always of their types, and   *)
(* the table and block number stacks of the same, positive height.         *)
THEOREM TypeCorrect == ScopesSpec => []ScopesTypeOK
<1>1. ScopesInv => ScopesTypeOK
  BY DEF ScopesInv, Good, Stacks, Symbols, ScopesTypeOK, Declared, ScopeSymbol
<1> QED BY <1>1, Invariance, PTL

(* No two symbols are ever given the same mangled C name. *)
THEOREM NamesUnique == ScopesSpec => []MangledNamesUnique
<1>1. ScopesInv => MangledNamesUnique
  BY DEF ScopesInv, Good, Symbols, MangledNamesUnique, Declared
<1> QED BY <1>1, Invariance, PTL

(* The open tables always hold exactly the symbols of their blocks. *)
THEOREM TablesAreExact == ScopesSpec => []TablesExact
<1>1. ASSUME ScopesInv PROVE TablesExact
  <2> SUFFICES ASSUME NEW i \in 1..Depth, NEW d \in Declared
               PROVE  symbols[d].block_nr = block_num_stack[i]
                        <=> \E n \in DOMAIN TableAt(i) : TableAt(i)[n] = d
    BY DEF TablesExact
  <2>1. i \in 1..Len(symbol_stack) /\ TableAt(i) = TableIn(symbol_stack, i)
    BY DEF Depth, TableAt, TableIn
  <2>2. ASSUME NEW n \in DOMAIN TableAt(i), TableAt(i)[n] = d
        PROVE  symbols[d].block_nr = block_num_stack[i]
    <3>1. n \in DOMAIN TableIn(symbol_stack, i)
      BY <2>1
    <3>2. symbols[TableIn(symbol_stack, i)[n]]
            = [lexinfo |-> n, block_nr |-> block_num_stack[i]]
      BY <1>1, <2>1, <3>1 DEF ScopesInv, Good, Sound
    <3>3. symbols[d] = [lexinfo |-> n, block_nr |-> block_num_stack[i]]
      BY <2>1, <2>2, <3>2
    <3> QED BY <3>3
  <2>3. ASSUME symbols[d].block_nr = block_num_stack[i]
        PROVE  \E n \in DOMAIN TableAt(i) : TableAt(i)[n] = d
    BY <1>1, <2>1, <2>3 DEF ScopesInv, Good, Complete, Declared
  <2> QED BY <2>2, <2>3
<1> QED BY <1>1, Invariance, PTL

-----------------------------------------------------------------------------
(* The refinement of LexicalScope. *)

(* The table of an open block has a name iff a symbol of that name was     *)
(* declared in the block, and then it is that symbol.                      *)
LEMMA LevelDeclares ==
  ASSUME ScopesInv, NEW i \in 1..Depth, NEW n
  PROVE  /\ n \in DOMAIN TableAt(i)
              <=> Lexical!DeclaredIn(n, block_num_stack[i])
         /\ \A d \in DOMAIN symbols :
              Lexical!Declares(d, n, block_num_stack[i]) => TableAt(i)[n] = d
         /\ n \in DOMAIN TableAt(i) =>
              Lexical!Declares(TableAt(i)[n], n, block_num_stack[i])
<1>1. /\ i \in 1..Len(symbol_stack)
      /\ TableAt(i) = TableIn(symbol_stack, i)
  BY DEF Depth, TableAt, TableIn
<1>2. ASSUME n \in DOMAIN TableAt(i)
      PROVE  Lexical!Declares(TableAt(i)[n], n, block_num_stack[i])
  <2>1. n \in DOMAIN TableIn(symbol_stack, i)
    BY <1>1, <1>2
  <2> QED
    BY <1>1, <2>1 DEF ScopesInv, Good, Sound, Lexical!Declares
<1>3. ASSUME NEW d \in DOMAIN symbols,
             Lexical!Declares(d, n, block_num_stack[i])
      PROVE  n \in DOMAIN TableAt(i) /\ TableAt(i)[n] = d
  <2>1. /\ symbols[d].block_nr = block_num_stack[i]
        /\ symbols[d].lexinfo = n
    BY <1>3 DEF Lexical!Declares
  <2> QED BY <1>1, <2>1 DEF ScopesInv, Good, Complete
<1> QED BY <1>2, <1>3 DEF Lexical!DeclaredIn, Lexical!Declares

(* find_symbol resolves names as lexical scoping says. *)
LEMMA FindResolves ==
  ASSUME ScopesInv, NEW n
  PROVE  find_symbol(n) = Lexical!Resolve(n)
<1>1. Depth = Len(block_num_stack) /\ Depth \in Nat
  BY DEF ScopesInv, Good, Stacks, Depth
<1>2. LevelsWith(n) = Lexical!Visible(n)
  BY <1>1, LevelDeclares DEF LevelsWith, Lexical!Visible
<1>3. CASE LevelsWith(n) = {}
  BY <1>2, <1>3 DEF find_symbol, Lexical!Resolve
<1>4. CASE LevelsWith(n) # {}
  <2> DEFINE i == CHOOSE i \in LevelsWith(n) : \A j \in LevelsWith(n) : j <= i
  <2>1. LevelsWith(n) \in SUBSET (1..Depth)
    BY DEF LevelsWith
  <2>2. i \in LevelsWith(n)
    <3>1. \E k \in LevelsWith(n) : \A j \in LevelsWith(n) : j <= k
      BY <1>1, <1>4, <2>1, Greatest
    <3> QED BY <3>1
  <2>3. i \in 1..Depth /\ n \in DOMAIN TableAt(i)
    <3> HIDE DEF i
    <3> QED BY <2>2 DEF LevelsWith
  <2>4. find_symbol(n) = TableAt(i)[n]
    BY <1>4 DEF find_symbol
  <2>5. Lexical!Resolve(n) = CHOOSE d \in DOMAIN symbols :
                               Lexical!Declares(d, n, block_num_stack[i])
    BY <1>2, <1>4 DEF Lexical!Resolve
  <2> HIDE DEF i
  <2>6. /\ TableAt(i)[n] \in DOMAIN symbols
        /\ Lexical!Declares(TableAt(i)[n], n, block_num_stack[i])
    BY <2>3, LevelDeclares DEF Lexical!Declares
  <2>7. \A d \in DOMAIN symbols :
          Lexical!Declares(d, n, block_num_stack[i]) => d = TableAt(i)[n]
    BY <2>3, LevelDeclares
  <2> QED BY <2>4, <2>5, <2>6, <2>7
<1> QED BY <1>3, <1>4

(* create_symbol_in_table declares, unless the block has the name. *)
LEMMA InsertDeclares ==
  ASSUME ScopesInv, NEW d \in Node \ Declared, NEW n, Insert(d, n, Depth)
  PROVE  Lexical!Declare(d, n, block_num_stack[Depth])
<1>1. get_current_block = block_num_stack[Depth] /\ Depth \in 1..Depth
  BY DEF get_current_block, Last, ScopesInv, Good, Stacks, Depth
<1>2. n \in DOMAIN TableAt(Depth)
        <=> Lexical!DeclaredIn(n, block_num_stack[Depth])
  BY <1>1, LevelDeclares
<1>3. CASE n \in DOMAIN TableAt(Depth)
  BY <1>2, <1>3 DEF Insert, Lexical!Declare
<1>4. CASE n \notin DOMAIN TableAt(Depth)
  BY <1>1, <1>2, <1>4 DEF Insert, Lexical!Declare, Extend
<1> QED BY <1>3, <1>4

(* Each operation on the tables is the lexical operation of its name. *)
LEMMA StepSimulation ==
  ScopesInv /\ [ScopesNext]_scopeVars => [Lexical!Next]_(Lexical!vars)
<1> SUFFICES ASSUME ScopesInv, [ScopesNext]_scopeVars
             PROVE  [Lexical!Next]_(Lexical!vars)
  OBVIOUS
<1>1. /\ Len(block_num_stack) = Depth /\ Depth \in Nat \ {0}
      /\ block_num_stack \in Seq(Nat) /\ block_num_stack[1] = 0
  BY DEF ScopesInv, Good, Stacks, Depth
<1>2. CASE EnterBlock
  BY <1>2 DEF EnterBlock, enter_block, Lexical!Next, Lexical!OpenBlock,
              Lexical!Open
<1>3. CASE Depth > 1 /\ LeaveBlock
  BY <1>1, <1>3 DEF LeaveBlock, leave_block, Front, Lexical!Next,
                    Lexical!CloseBlock
<1>4. CASE DeclareNothing
  BY <1>4 DEF DeclareNothing, Lexical!vars
<1>5. ASSUME NEW d \in Node \ Declared, NEW n \in Name, DeclareLocal(d, n)
      PROVE  Lexical!Next
  <2>1. Lexical!Declare(d, n, block_num_stack[Depth])
    BY <1>5, InsertDeclares DEF DeclareLocal
  <2>2. Lexical!DeclareHere(d, n)
    BY <1>1, <1>5, <2>1 DEF DeclareLocal, Lexical!DeclareHere, Declared
  <2> QED BY <2>2 DEF Lexical!Next
<1>6. ASSUME NEW d \in Node \ Declared, NEW n \in Name, BeginFunction(d, n)
      PROVE  Lexical!Next
  <2>1. Depth = 1
    BY <1>1, <1>6 DEF BeginFunction, scope_get_current_depth
  <2>2. Insert(d, n, Depth)
    BY <1>6, <2>1 DEF BeginFunction, Insert
  <2>3. Lexical!Declare(d, n, block_num_stack[Depth])
    BY <2>2, InsertDeclares
  <2>4. Lexical!Declare(d, n, 0)
    BY <1>1, <2>1, <2>3 DEF Lexical!Declare, Lexical!DeclaredIn,
                            Lexical!Declares
  <2>5. block_num_stack = <<0>>
    BY <1>1, <2>1
  <2>6. Lexical!OpenFunction(d, n)
    BY <1>6, <2>4, <2>5 DEF BeginFunction, Lexical!OpenFunction,
                            Lexical!Open, Declared
  <2> QED BY <2>6 DEF Lexical!Next
<1>7. ASSUME NEW u \in Node \ Declared, NEW n \in Name, UseSymbol(u, n)
      PROVE  Lexical!Next
  <2>1. find_symbol(n) = Lexical!Resolve(n)
    BY FindResolves
  <2>2. Lexical!Use(u, n)
    BY <1>7, <2>1 DEF UseSymbol, Lexical!Use, Declared
  <2> QED BY <2>2 DEF Lexical!Next
<1>8. CASE UNCHANGED scopeVars
  BY <1>8 DEF scopeVars, Lexical!vars
<1> QED BY <1>2, <1>3, <1>4, <1>5, <1>6, <1>7, <1>8 DEF ScopesNext

(* The symbol tables implement lexical scoping: an identifier is always    *)
(* bound to the declaration of its name in the innermost open block that   *)
(* has one, and to nothing if none has.                                    *)
THEOREM Refinement == ScopesSpec => ImplementsLexicalScope
<1>1. ScopesInit => Lexical!Init
  BY DEF ScopesInit, Lexical!Init
<1> QED BY <1>1, Invariance, StepSimulation, PTL
        DEF ScopesSpec, ImplementsLexicalScope, Lexical!Spec
=============================================================================
