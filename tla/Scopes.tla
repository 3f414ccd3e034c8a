------------------------------- MODULE Scopes -------------------------------
(***************************************************************************)
(* The symbol tables of symbol.cpp: a stack of tables, one per open block, *)
(* a parallel stack of block numbers, and the symbols themselves, which    *)
(* are never freed.  A symbol is named by the AST node that declares it    *)
(* (create_symbol_in_table makes exactly one symbol for the node it is     *)
(* given and hangs it on node->symentry), so a table maps an identifier to *)
(* a node.                                                                 *)
(*                                                                         *)
(* Next is the most general client: any interleaving of the calls that     *)
(* semantics.cpp makes.  Semantics EXTENDS this module and conjoins these  *)
(* actions with the rest of what its handlers do.                          *)
(***************************************************************************)
EXTENDS Integers, Sequences, SequencesExt

CONSTANTS
  Name,     \* identifiers (interned strings)
  Node,     \* AST nodes
  NULL      \* the null pointer

(* The null pointer is neither a node nor an identifier nor a table. *)
ASSUME NullAssumption ==
  /\ NULL \notin Node /\ NULL \notin Name
  /\ \A S \in SUBSET Name : NULL \notin [S -> Node]

VARIABLES
  symbol_stack,     \* tables of the open blocks; NULL until first needed
  block_num_stack,  \* their numbers
  next_block,       \* the number the next block gets
  symbols,          \* declaring node -> [lexinfo, block_nr] of its symbol
  symentry          \* node -> the declaring node of its symbol, or NULL

scopeVars == <<symbol_stack, block_num_stack, next_block, symbols, symentry>>

EmptyTable == [n \in {} |-> NULL]

(* f with x mapped to v; table->insert on a key that is not there. *)
Extend(f, x, v) == [y \in DOMAIN f \cup {x} |-> IF y = x THEN v ELSE f[y]]

Depth == Len(symbol_stack)

scope_get_current_depth == Depth - 1

get_current_block == Last(block_num_stack)

(* The table at a level, as scope_get_top_table leaves it. *)
TableAt(level) ==
  IF symbol_stack[level] = NULL THEN EmptyTable ELSE symbol_stack[level]

find_symbol_in_table(table, n) ==
  IF n \in DOMAIN table THEN table[n] ELSE NULL

(* The levels whose table has n: find_symbol skips the NULL tables. *)
LevelsWith(n) == {i \in 1..Depth : n \in DOMAIN TableAt(i)}

(* Bug: the outermost table with the name is taken. *)
FindOutermost(n) ==
  IF LevelsWith(n) = {} THEN NULL
  ELSE LET i == CHOOSE i \in LevelsWith(n) : \A j \in LevelsWith(n) : i <= j
       IN  TableAt(i)[n]

(* find_symbol walks the stack from the innermost table outwards. *)
find_symbol(n) ==
  IF LevelsWith(n) = {} THEN NULL
  ELSE LET i == CHOOSE i \in LevelsWith(n) : \A j \in LevelsWith(n) : j <= i
       IN  TableAt(i)[n]

-----------------------------------------------------------------------------

ScopesInit ==
  /\ symbol_stack = <<EmptyTable>>
  /\ block_num_stack = <<0>>
  /\ next_block = 1
  /\ symbols = [d \in {} |-> NULL]
  /\ symentry = [u \in Node |-> NULL]

(* Bug: the table of the block is allocated anew every time. *)
TouchWithNewTable ==
  symbol_stack' = [symbol_stack EXCEPT ![Depth] = EmptyTable]

(* scope_get_top_table allocates the innermost table if it is missing. *)
TouchTopTable ==
  symbol_stack' = [symbol_stack EXCEPT ![Depth] = TableAt(Depth)]

(* create_symbol_in_table, unless the table has the name already. *)
Insert(d, n, level) ==
  LET table == TableAt(level) IN
  IF n \in DOMAIN table THEN UNCHANGED <<symbols, symentry>>
  ELSE /\ symbols' = Extend(symbols, d, [lexinfo  |-> n,
                                         block_nr |-> get_current_block])
       /\ symentry' = [symentry EXCEPT ![d] = d]

TableWith(table, d, n) ==
  IF n \in DOMAIN table THEN table ELSE Extend(table, n, d)

(* Bug: a block gets the number of its depth. *)
EnterBlockAtDepth ==
  /\ symbol_stack' = Append(symbol_stack, NULL)
  /\ block_num_stack' = Append(block_num_stack, Depth)
  /\ next_block' = next_block + 1

enter_block ==
  /\ symbol_stack' = Append(symbol_stack, NULL)
  /\ block_num_stack' = Append(block_num_stack, next_block)
  /\ next_block' = next_block + 1

(* Bug: the number of the block stays. *)
LeaveBlockKeepingNumber ==
  /\ symbol_stack' = Front(symbol_stack)
  /\ UNCHANGED block_num_stack

leave_block ==
  /\ symbol_stack' = Front(symbol_stack)
  /\ block_num_stack' = Front(block_num_stack)

(* symbolize_declaration(scope_get_top_table(), ...) of a declaration that *)
(* has a legal type; a name the block has already is reported and ignored. *)
DeclareLocal(d, n) ==
  /\ symbol_stack' = [symbol_stack EXCEPT
                        ![Depth] = TableWith(TableAt(Depth), d, n)]
  /\ Insert(d, n, Depth)
  /\ UNCHANGED <<block_num_stack, next_block>>

(* The declaration has an illegal type: only the table is there after it.  *)
DeclareNothing ==
  TouchTopTable /\ UNCHANGED <<block_num_stack, next_block, symbols, symentry>>

(* handle_function: the function becomes a global symbol (or was one, from *)
(* its prototype), and the block of its parameters is entered.             *)
BeginFunction(d, n) ==
  /\ scope_get_current_depth = 0
  /\ symbol_stack' = Append([symbol_stack EXCEPT
                               ![1] = TableWith(TableAt(1), d, n)], NULL)
  /\ Insert(d, n, 1)
  /\ block_num_stack' = Append(block_num_stack, next_block)
  /\ next_block' = next_block + 1

(* process_node of an identifier. *)
UseSymbol(u, n) ==
  /\ symentry' = [symentry EXCEPT ![u] = find_symbol(n)]
  /\ UNCHANGED <<symbol_stack, block_num_stack, next_block, symbols>>

EnterBlock == enter_block /\ UNCHANGED <<symbols, symentry>>

LeaveBlock == leave_block /\ UNCHANGED <<next_block, symbols, symentry>>

-----------------------------------------------------------------------------

Declared == DOMAIN symbols

ScopesNext ==
  \/ EnterBlock
  \/ Depth > 1 /\ LeaveBlock
  \/ DeclareNothing
  \/ \E d \in Node \ Declared, n \in Name :
       \/ DeclareLocal(d, n)
       \/ BeginFunction(d, n)
       \/ UseSymbol(d, n)

ScopesSpec == ScopesInit /\ [][ScopesNext]_scopeVars

-----------------------------------------------------------------------------

(* The tables of the given identifiers. *)
Tables(names) == UNION {[S -> Node] : S \in SUBSET names}

(* The values the variables range over. *)
ScopesTypeOK ==
  /\ symbol_stack \in Seq(Tables(Name) \cup {NULL})
  /\ block_num_stack \in Seq(Nat)
  /\ Len(symbol_stack) = Len(block_num_stack)
  /\ Len(symbol_stack) > 0
  /\ next_block \in Nat
  /\ Declared \subseteq Node
  /\ symbols \in [Declared -> [lexinfo : Name, block_nr : Nat]]
  /\ symentry \in [Node -> Node \cup {NULL}]

(* mangle_name names a variable after its block number and identifier      *)
(* alone (emit.cpp:165-173): two symbols never share both, although tables *)
(* come and go and a function is re-entered after its prototype.           *)
MangledNamesUnique ==
  \A d, e \in Declared : symbols[d] = symbols[e] => d = e

(* A table holds exactly the symbols that were declared in its block: what *)
(* duplicate detection relies on (symbol.cpp:177), and what makes a        *)
(* missing table (enter_block pushes NULL) the same as an empty one.       *)
TablesExact ==
  \A i \in 1..Depth, d \in Declared :
    symbols[d].block_nr = block_num_stack[i]
      <=> \E n \in DOMAIN TableAt(i) : TableAt(i)[n] = d

Lexical == INSTANCE LexicalScope WITH
             path <- block_num_stack, fresh <- next_block,
             decls <- symbols, binding <- symentry

(* The lazily allocated tables resolve names as lexical scoping says. *)
ImplementsLexicalScope == Lexical!Spec
=============================================================================
