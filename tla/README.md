# The OC compiler in TLA+

The repository is a compiler of the language OC (a small C) to restricted C
(`.oil`): `oc` runs the C preprocessor on its input, scans and parses it, analyses
the tree, and writes the tree, the symbols and the code to files. It is a
sequential program, and what makes it hard is not concurrency but the state
that one traversal of a tree carries along: symbol tables that come and go,
symbols that outlive them, declarations met twice, errors reported in one place and relied
on in another, and assertions in a later phase about what an earlier one let
through.

## Inventory

| Component | State it keeps | Operations | What makes it correct |
|---|---|---|---|
| driver (`main.cpp`, `cppstrtok.cpp`) | five output files, error counts, exit status | check arguments, open the pipe, open and fill each file, run the phases, exit | the exit status says what became of the files, over every failing call and repeated runs |
| scanner (`scanner.l`, `lyutils.cpp`) | line, offset and file number of the input, list of file names | match a token, newline, line marker, bad character | every token has the place it came from; places are unique (labels are made of them) |
| parser and tree (`parser.y`, `astree.cpp`) | the tree | one reduction per production | the trees have the shapes the later phases index into |
| string set (`stringset.cpp`) | the set of strings | intern, dump | equal texts are one pointer |
| symbol tables (`symbol.cpp`, `semantics.h`) | stack of tables, stack of block numbers, next number, all symbols | `enter_block`, `leave_block`, `symbolize_declaration`, `find_symbol` | lexical scoping; no two symbols with the same mangled name |
| semantic pass (`semantics.cpp`) | call stack, current function, attributes of every node, table of structures | `dfs_traverse`, `process_node`, `handle_structure`, `handle_function` | what is accepted is consistent and safe to emit; what is rejected is reported |
| type checker (`typecheck.cpp`, `type.h`) | attributes and type names of the nodes | one `attr_handle_*` per operator | every accepted expression has one type |
| emitter (`emit.cpp`) | next register, names of the nodes, list of strings | `emit_structs`, `emit_strings`, `emit_globals`, `emit_functions`, `emit_recursive` | the code is valid C and runs as the source says |
| auxiliary library (`auxlib.cpp`) | exit status, debug flags | `errprintf`, ... | an error that was printed is seen in the exit status |
| run-time library (`oclib.c`, `oclib.oh`) | the standard input | `scan`, `getw`, `getln`, `getc`, `xcalloc`, `puti`, ... | linked with the compiled program; each returns what its name says and loses no input |

**Interactions.** `main` calls the phases one after another and reads their error
counts. The parser builds the tree through `astree.cpp` with strings interned by
the string set, and the scanner gives it tokens with locations. The semantic pass walks
the tree, changes the symbol tables, asks the type checker about each node when
it leaves it, and hangs symbols and attributes on the nodes. The emitter reads
only these. Errors flow in four ways: counts of the parser, counts of the semantic pass,
the exit status inside auxlib, and assertions.

**Hard behaviours.** A name that is declared twice (prototype and definition,
variable and function); five ways out of `handle_function`; symbols that failed
and are null pointers from then on; checks that fail silently because somebody
else must have complained; tables that are allocated at their first use;
outputs that are half replaced when a later step fails. `PROJECT.json` lists each hazard with
its line and the properties that watch it.

## Modules

| Module | Models | Used by |
|---|---|---|
| `LexicalScope` | what name lookup promises: numbered blocks, declarations that live for ever, the innermost declaration | abstract specification of `Scopes` |
| `Scopes` | `symbol.cpp`: the tables and `symentry`, with the most general client as `ScopesNext` | `Semantics`, `ScopesProofs` |
| `ScopesProofs` | theorems about `Scopes` and the refinement of `LexicalScope` | |
| `Ast` | the tree as a constant arena of nodes (`astree.h`), and which such arenas `parser.y` builds (`WellFormed`) | `Semantics` |
| `Grammar` | what the productions of `parser.y` build; the runs write programs with it | the `MC` modules |
| `TypeCheck` | the rules of `typecheck.cpp` as operators on sets of attributes | `Semantics` |
| `Semantics` | `semantics.cpp`: the traversal as a state machine | `SemanticsProperties` |
| `SemanticsProperties` | what the pass is for | the `MC` modules |
| `SemanticsProofs` | theorems about the traversal, that the pass implements `Scopes`, lemmas about the operators of `TypeCheck`, and type correctness of the pass | `DiagnosisProofs` |
| `DiagnosisProofs` | theorems about errors, diagnostics, crashes and definitions | `AcceptanceProofs`, `EmitProofs` |
| `AcceptanceProofs` | theorems about programs that are accepted: types, symbols, returned values, calls | |
| `Emit` | `emit.cpp`: the emitter as a state machine that writes lines, on top of `Semantics` | `EmitProperties`, `Execution` |
| `EmitProperties` | what the lines must be to be a C program | `MCEmission`, `EmitProofs` |
| `EmitProofs` | theorems about the emitter's calls and the jumps it writes | |
| `Source` | what an OC program means: a walk over its tree, without registers, labels, jumps or mangled names | abstract specification of `Execution` |
| `Values` | C arithmetic, undefined values, the heap, what library calls may come to | `Source`, `Execution` |
| `Execution` | the emitted lines, executed; the refinement mapping to `Source` | `MCExecution` |
| `Scanner` | `scanner.l`, `lyutils.cpp`: line, offset and file number over a text with line markers | `ScannerProofs` |
| `ScannerProofs` | theorems about `Scanner` | |
| `Oclib` | `oclib.c`: `scan` and the functions that read the standard input | `OclibProofs` |
| `OclibProofs` | theorems about `Oclib` | |
| `Driver` | `main.cpp`: one invocation after another | `DriverProofs` |
| `DriverProofs` | theorems about `Driver` | |
| `MCScopes`, `MCScoping`, `MCFunctions`, `MCTypes`, `MCEmission`, `MCExecution` | the instances TLC checks | |

`Semantics` composes `Scopes` (the scope part of each step is an action of
`Scopes`, conjoined with the rest of the handler) with `TypeCheck` (the result
of a node is an operator applied to what its children have) and `Ast`. `Emit`
extends `Semantics` and starts when that has accepted the program; `Execution`
extends `Emit` and runs what was written, so one behaviour of `ExecutionSpec`
goes from the tree through analysis and code to the end of the run. `Scanner`
meets them in one property: a label is made of the place of a token, the model
of the emitter makes it of the node instead, and `PlacesGrow` says that this is
the same. `Oclib` is linked with the compiled program, which `Execution` sees as
calls that return something or end it. `Driver` stands alone: it sees the phases as `main` does, by their counts, their
diagnostics and their abnormal ends, which `Semantics` shows to be possible.

### How the state corresponds to the code

- **Symbols are nodes.** `create_symbol_in_table` makes one symbol for the node
  that declares it and sets the node's `symentry`, so the model names a symbol
  by its node: a table maps identifiers to nodes, `symbols` has the identifier
  and block number of a symbol, and `info` (in `Semantics`) its attributes,
  type name, parameters and `fnblock`. A table that was not allocated is `NULL`.
- **The C++ stack is `calls`.** A frame is a node and the number of its next
  child. A step is the entry of `dfs_traverse` (with all that is done before
  the first child: `Visit*`), its end (`Leave*`, with `process_node`, `process_attributes` and
  `leave_block`), or an iteration of the loop over the parameters
  (`DeclareParam`), of which `EndParams` and `EndFunction` are the two ends.
  `handle_structure` does not recurse and is one step.
- **Errors are two variables**, because the code can count an error without
  printing and print without counting: `semantic_errors` and `reported`. A check is a record
  `[ok, said]` for the same reason.
- **A null pointer that is dereferenced** sets `crashed` and ends the
  behaviour. What the code did in the same call before it died is not recorded:
  nothing reads it any more.
- **Locations** are node numbers, in the order of the text, except in `Scanner`.
- **The emitter's stack is `emits`**, frames as in `calls`. What `oc_run_emit`
  and its four loops still have to do is the sequence `jobs`: a loop, or a
  structure, a field, a string, a global variable, the head of a function, a
  parameter, a body, the main function. `Iterate` is the head of a loop, which
  goes to the next node it has something to write for; `BeginJob` is what a loop writes before it calls
  `emit_recursive`, `EnterChild` what `emit_recursive` writes between its
  children (labels and tests), and `LeaveEmitted` what it writes after them,
  with what the loop writes after the call.
- **A line of output** is a record: what it does, what it declares and with
  which C type, which operands it reads, which label it has or jumps to.
  `oilname` maps nodes to operands: a register, what a register points to
  (`(*a1)`), a constant, a mangled variable or the variable of a string. The
  letter of a register (`i`, `b`, `c`, `p`, `a`) is left out, as all share one
  count.
- **An assertion of the emitter**, or a null name that is dereferenced, sets
  `aborted` to the node.
- **The emitted program** runs line by line in `Execution`: `frames` has a program
  counter, registers and variables for each active function. A register or
  variable that was not given a defined value is not in the record, and a read
  of it, a division by zero, an overflow, or an access outside of an object ends
  the run with the status `undefined`. The refinement mapping takes a line to
  the node it was written for (behind labels and gotos), a register to the node
  whose value it holds, and a mangled name to the declaration.
- **A text** in `Scanner` is a sequence of matches. The marker's place in it,
  the newlines and the lengths define where a token is (`PresumedFile`,
  `PresumedLine`, `Column`) without the scanner's variables.
- **The standard input** in `Oclib` is a sequence of bytes of four kinds, and
  `given` is what it was when the last call was made, so that properties can say
  what a call read.
- `Driver`'s `file` says of each output whether it is absent, from an earlier
  run, empty, partial or complete. Buffers are written when a file is closed or
  the process exits; a process that is killed leaves an arbitrary part.

## What is checked

| Run | Instance | Shows |
|---|---|---|
| `scopes` | any legal sequence of calls, 2 names, 4 nodes, 3 blocks | types, unique mangled names, exact tables, and that the lazily allocated tables implement `LexicalScope` |
| `names` | nested blocks, conditionals, loops, parameters and structures over few names; three top-level parts of one name: prototypes, definitions, variables, calls, with every list of parameters and body | block depth follows the recursion on every way out of every handler; every identifier of an accepted program is bound to the declaration that a definition over the tree alone names; accepted calls and returns fit the *definition*, not only the prototype they were checked with (calls of what is a variable above and a function below are the exception); at most one definition; a crash only after an error; the pass obeys `Scopes`; it ends |
| `emission` | expressions of depth two over operands of every type, in every statement; structures; statements nested two deep in functions and at the top level; variables declared in branches; calls before, after and without definitions, and of variables | nothing is rejected without a message; an accepted expression has one base type; the emitter's assertions hold; names are declared once and before their uses; jumps land; lines are well typed C; each up to the exceptions the property names |
| `execution` | nested conditionals and loops, assignments in conditions and arguments, values changed before they are used, calls, recursion, structures, arrays, strings, library calls that read, allocate or end the program | the emitted program implements `Source`, and gets on as it does |
| `driver` | every failure of every call and phase, any number of invocations | exit status 0 means complete files (unless the disk lost data), 2 an empty `.oil`, 1 an untouched one |
| `scanner` | every text of seven matches with tokens, blanks, newlines, markers of two files and three lines, directives, bad characters | a token's file and line are those the markers say, up to lines after a directive that is not understood; its offset is the characters before it; places grow |
| `oclib` | every input of six bytes, every sequence of calls, a buffer of four bytes | what `getw` and `getln` return and leave; the assertion fails only on what does not fit |
| `redefinition` | programs of `names` | **violated**: `EmitReady` |
| `null_symbol` | programs of `names` | **violated**: `NoCrash` |
| `void_array` | expressions, statements and structures of `emission` | **violated**: `NoVoidArray` |
| `globals` | programs of `emission` | **violated**: `GlobalsAtTop` |
| `exit_status` | as `driver` | **violated**: `ExitStatusReported` |

Every property of a passing run has a mutant: a plausible bug of the code, kept
next to the operator it would replace and marked "Bug", under which the run
finds the property violated.

**Bounds.** `MCScopes` has `MaxBlocks` blocks; two names, and enough nodes
to declare the same name in two blocks, redeclare it and use it, are what a wrong
lookup needs, and `ScopesProofs` removes the bound. The programs of the other
runs are sets of trees. `MCScoping` has two levels of blocks around every kind of
use and declaration, so shadowing, use after the end of a block, a sibling
block, and redeclaration in one block all happen. `MCFunctions` adds three parts: a
declaration, something that depends on it, and a second declaration, in every order. In
`MCTypes` every operator meets operands of every type, and those operands
that have themselves been computed, so that the attributes which a rule
*produces* are met by those which a rule *requires*. `MCEmission` adds a
conditional or loop inside of another, behind a third, which is what a wrong
label or a variable declared twice needs. `Nodes40`, `Nodes60`, `Nodes80` and
`Nodes90` are the sizes of the largest trees.

In `MCExecution` integers are -4 to 4 and there are three characters, so
arithmetic overflows and is undefined in some programs; four active calls and
four objects (`MaxDepth`, `MaxHeap`) are as many as the terminating programs use,
and the others end in the status `exhausted` on both sides, as does an
allocation of a negative number of elements. `Source` has no memory for one; in
`Execution` the `int` becomes a `size_t`, as wide as `SizeMax` says, and is then
more than there is (the mutant `AsNarrowSize` gives a small object instead). Some programs loop for ever, and must
do so in step with the source. `MaxText` in `Scanner` is long enough for a
token, a second marker and another token on either side of it, which is what
two equal places would need, and `ScannerProofs` removes the bound. In `Oclib` a word
and a line may be shorter than the buffer of `Size` bytes, just fit, and just not
fit, with bytes left behind them. `MaxErrors` in `Driver` and `Scanner` caps a
count of which only the sign is looked at.

**Deadlock** is not checked in the runs of `Semantics`, `Emit` and `Execution`
(the pass, the emitter and the program end), `Scanner` and `Oclib` (so does
their input) and `Scopes` (blocks and nodes are used up), and is checked in `driver`, where an
invocation always gets to its end.

**Fairness.** `Semantics!Spec` has weak fairness of `Next`: the pass is one
thread that waits for nothing, so a step that can be made is made. `Terminates`
needs it. `EmitSpec` has the same of the pass and of the emitter. `ExecutionSpec`
has weak fairness of `Run`, a line of the program, as a processor executes it,
and `Source!SourceSpec` of an operation: a program that was started goes on, so
`ImplementsSource` also says that the emitted code never spins between labels
where the source would do something. The other specifications state safety only:
a caller of the symbol tables owes them no calls, a program need not read its
input, and `main` may wait for the preprocessor.

## What the code does otherwise

1. **Prototype, then definition** (`redefinition`). The program is accepted,
   but the name in the definition never gets a symbol and the emitter's
   `assert(node->symentry)` (`emit.cpp:151`) fails. The same happens to a variable and
   a function of one name and the same type. `OnlyRedefinitionsUnready` shows that nothing else runs
   into that assertion.
2. **Null symbols** (`null_symbol`). A duplicate or `void` parameter is a null
   pointer in the parameter list, which a call dereferences
   (`typecheck.cpp:330`); a bad field is dereferenced at once
   (`semantics.cpp:83`). `CrashOnlyAfterError` shows that only wrong programs do this.
3. **Arrays of void** (`void_array`). `new void[n]` is accepted, and the
   emitter has no type for its elements (`emit.cpp:101`).
4. **Globals in branches** (`globals`). `if (c) int x = 1;` at the top level
   declares a variable of block 0, which functions may use, but `emit_globals`
   (`emit.cpp:482`) writes only the children of the root: `x` is declared inside
   the main function, below its uses.
5. **Exit status** (`exit_status`). `main` returns its own sum of errors and never
   `get_exitstatus()`, as `auxlib.h:35` asks: an invalid line directive is
   reported and the exit status is 0.

Other constructs that the compiler accepts and C does not are exceptions in
`EmitProperties`, each with a name and none of them promised otherwise by a
text of the repository: a void call as the index of a string, on which the
emitter dies (`VoidIndex`); functions used above their definition, as prototypes
are not written (`OnlyPrototyped`); a call of a variable, which becomes one of a function of
that name, if there is one (`Mentions`, `LetThrough`); `ocmain` as a name
(`DeclaredOnce`); a function used as a value, a field of an array of
structures, an index of a string that is no integer, and the value of an
assignment of `null` (`LetThrough`). Names of structures are not compared. Each
exception is met by a program of the run, which fails without it: the
exceptions record what the compiler does, and the properties say that it is all.

`Source` follows the compiler in one point where a language might do otherwise: an
assignment, a field or an element stands for its *place*, which is read when
the value is used, so a later operand may still change it. The comment at
`emit.cpp:266` wants it so ("the lval, it can be used later"), and no text asks
for the earlier value. `ImplementsSource` therefore does not say that late
reads are harmless; it says that the emitted code reads that place and no other,
not later than the use (the mutant `Rvalue` names the value instead).

`CallsMatchDefinitions` has the exception `CallsVariable`. What `handle_function`
calls a previous prototype (`semantics.cpp:131`) is any earlier global symbol of the
name, and of a variable it compares the *value* with the parameter list: the
analysis accepts `s f = new s(); s f(s a) {...}`, because `new s()` has one child
of the right type, and a call `f()` between the two, which was checked against a
variable without parameters. In every other case calls fit the definition.

`Scanner` and `Oclib` have exceptions too: the lines behind a directive that is
not understood are numbered one too high (`LinesTrue`), and `getln` joins an
empty line to the next (`GetlnReadsLine`); a zero byte ends what both `getw` and
`getln` return, but not what they read.

## What is proved

`ScopesProofs` proves of `ScopesSpec`, for every set of names and nodes and any
number of blocks:

| Theorem | States |
|---|---|
| `TypeCorrect` | `[]ScopesTypeOK` |
| `NamesUnique` | `[]MangledNamesUnique`: block number and name determine a symbol |
| `TablesAreExact` | `[]TablesExact`: the table of an open block has the symbols declared in it, no more and no fewer |
| `Refinement` | `ImplementsLexicalScope`: the specification implements `LexicalScope` |

The only assumption is `NullAssumption`: the null pointer is neither a node nor a table
nor a name.

*The argument.* That two symbols never share a name and a block number is not
inductive: a second symbol is kept from being made only by the table of the
block, so the table has to be complete (`Complete`); it could be incomplete if
a block got a number that a closed one had, so numbers must grow along the stack
and stay below `next_block` (`Stacks`), as must those of all symbols
(`Symbols`); and to keep tables complete when one is filled they must be sound
(`Sound`). The conjunction is `Good`, and `ScopesInv` adds the range of
`symentry`. `Good` is a predicate of values rather than of variables, because
`BeginFunction` inserts a symbol *and* pushes a block: its step is `GoodInsert`
followed by `GoodPush`. `Invariance` has one step per action, each by the lemma
about its effect on the stack.

*The refinement* maps the stack of numbers to `path` and forgets the tables. Its
heart is `FindResolves`: under `ScopesInv` the walk over the tables that are
there finds what the definition over all declarations of open blocks names,
because an open block declares a name exactly if its table has it
(`LevelDeclares`).

`ScannerProofs` proves of `ScannerSpec`, for every text, set of file names and
numbers in line markers, and with no bound on the text (`MaxText` is any value):

| Theorem | States |
|---|---|
| `ScannerTypeCorrect` | `[]ScannerTypeOK` |
| `PlacesDiffer` | `[]PlacesGrow`: a later token has a greater place |
| `LinesAreTrue` | `[]LinesTrue`: a token has the file and line that the markers say |

It assumes that markers have line numbers and that tokens are not empty
(`ScannerAssumption`). *The argument:* that places grow is not inductive, as
nothing keeps the next token behind the last; `AllPassed` says that every
token lies before the place where the scanner is now. A match moves that place forward: by its
length, to a new line, or, for a marker, which may set the line back, to a new
file number. `StillGrowing` is this step, and `TokenStep` the one that adds a
token. A file number is a natural number because a file is entered before
anything else is matched (`InFile`).

That lines are true is not inductive either: `LinesInv` says it of every token
and of the place where the scanner is, from which the next token takes its file and
line. What is appended to the text does not move an item that stands in it
(`EarlierStays`). Behind a marker the presumed line is the marker's less one, which the
newline makes good (`BehindMarker`); behind anything else it is the one before, and one
more after a newline (`BehindOther`), counting the newlines behind the last
marker.

`DriverProofs` proves of `DriverSpec`, for any number of invocations with any
failures, kills and lost writes:

| Theorem | States |
|---|---|
| `DriverTypeCorrect` | `[]DriverTypeOK` |
| `ZeroMeansCompiled` | `[]ExitZeroCompiled` |
| `TwoMeansEmpty` | `[]RejectedIsEmpty` |
| `OneKeepsOil` | `[]FailureKeepsOil` |

*The argument:* the exit status is set long after the files it speaks of were
written, so the invariant says for every place in `main` what was done before
it: that the `.oil` file is untouched before it is opened and empty behind
(`OilOpenedLast`), and which of the other files are closed (`WrittenWhenClosed`).
`DriverAssumption`: `MaxErrors` is a number.

`OclibProofs` proves of `OclibSpec`, for every input, every size of the buffer and
every sequence of calls:

| Theorem | States |
|---|---|
| `OclibTypeCorrect` | `[]OclibTypeOK`: among others, nothing is stored behind the buffer |
| `WordsAreRead` | `[]GetwReadsWord` |
| `LinesAreRead` | `[]GetlnReadsLine` |
| `AbortsAreLong` | `[]AbortsOnlyWhenLong` |

*The argument:* what the two loops of `scan` have read so far is a prefix of the
input at the call (`EndOf`); in the first loop it is blanks (`Skipping`), in the
second it is blanks and what is in the buffer, without a stop (`Storing`). When
the call returns, the three pieces are those that `UpTo`, `From` and `Behind`
cut the input into; that these are what they say for sequences of any length needs
least elements of sets of positions (`Least`). `OclibAssumption`: the buffer
has at least one byte, and the four kinds of bytes differ.

`SemanticsProofs` proves of `Spec` (the semantic pass), for every set of programs:

| Theorem | States |
|---|---|
| `TraversalCorrect` | `[]TraversalInv`, the invariant below |
| `PassObeysScopes` | `ObeysScopes`: the pass implements `ScopesSpec` |
| `BlocksMatchCalls` | `[]ScopesMatchCalls` |
| `PassNamesUnique`, `PassTablesExact`, `PassIsLexical` | what is proved of `ScopesSpec`, now of the pass |

These and all that follows rest on `ProgramsAssumption`: the programs are trees that
`parser.y` builds. `WellFormed` spells that out: which children a node has by
its token, and that nodes are numbered in preorder. TLC evaluates the
assumption for every program of every run, and `WellFormed` reads like the
productions of the grammar, so it excludes no program.

*The argument:* the pass declares no node twice because it comes to no node twice.
That is a property of the whole call stack: the frames are ever deeper nodes, all
that is left to an inner frame comes before all that is left to an outer one
(`Nested`), and whatever was declared comes before all that is left to any
(`Walk`). `Advance`, `Push` and `Pop` say how that survives the three ways a stack
changes; they rest on preorder (`KidsNest`, `PathNests`). `handle_function` is the
hard case: its frame goes over the parameter list and then over the children of the
body, which are not children of the function (`Path`, `PathNestsTwice`).
`Depth = 1 + Open(...)` counts the frames that have a block of their own.

`SemanticsProofs` also proves

| Theorem | States |
|---|---|
| `DataCorrect` | `[](TraversalInv /\ DataInv)`, the invariant below |
| `SemanticsTypeCorrect` | `[]SemanticsTypeOK` |

*The argument:* the type of `info[f].params` at a call is only right if `f`, which was
bound by an earlier step, is a symbol whose record exists. `DataInv` adds to the
types that symbols of the tables are known (`Known`, with attributes and
parameters that are symbols or null), that all links lead to known symbols or are null
(`LinksTyped`) and that `current_function` is a global symbol while there is one
(`FunctionKnown`, which needs that the global table only grows, `GlobalGrows`). For
every handler of `typecheck.cpp` there is a lemma about its result: it has the right
type (`Judged`), at least one attribute and no silent failure (`Typed`), or which
operands excuse it (`IndexJudged`, `StatementsJudged`, `CallJudged`).

`DiagnosisProofs` proves

| Theorem | States |
|---|---|
| `CrashesAfterErrors` | `[]CrashOnlyAfterError` |
| `RejectionsExplained` | `[]ErrorsDiagnosed` |
| `DefinitionsUnique` | `[]OneDefinition` |

*Crashes:* a call crashes long after the declaration that failed; `CrashInv` says
that a parameter list with a null symbol in it, too, only exists after an error.

*Diagnostics:* that every error is printed is not inductive, as the silent checks
rely on an earlier message. `DiagnosisInv` says that until something was
reported every node the frames went over is `Settled`: an identifier is bound and
any other expression has an attribute (`Finished`, by the position of each frame).
So the operand of a node that is left has a type (`LeftIsSettled`,
`NothingExcused`), and none of the silent branches is taken before the first message.

*Definitions:* that an accepted program has one definition of a function depends on
`fnblock`, which `handle_function` clears at each further declaration and sets when the
parameters are done. `DefinitionInv` says that, while there is no error, each
function that the traversal of the root has come to is in the global table and has
its body, or its parameter list is on the call stack (`Placed`); that
`current_function` names it in the latter case (`Naming`); and that nothing is ever
above a parameter list (`Shaped`). Functions are children of the root
(`FunctionsAtRoot`), so when the next one is met no list is on the stack and a
function of the same name has its body, which is the error `handle_function` reports
(`NewFunction`); a body is never taken away (`BodyStays`).

`AcceptanceProofs` proves what acceptance is worth:

| Theorem | States |
|---|---|
| `CoverCorrect` | `[](TraversalInv /\ DataInv /\ CrashInv /\ DefinitionInv /\ CoverInv)`, the invariant below |
| `AcceptedHaveOneType` | `[]OneBaseType` |
| `OnlyRedefinitionsAreUnready` | `[]OnlyRedefinitionsUnready` |
| `ReturnCorrect` | the same with `ReturnInv`, below |
| `ReturnsFitDefinitions` | `[]ReturnsMatchDefinitions` |
| `CallCorrect` | the same with `CallInv`, below |
| `CallsFitDefinitions` | `[]CallsMatchDefinitions` |

*Types and symbols:* the properties compare the final state with the whole tree, and
which nodes the traversal has gone over is not to be seen in the state.
`CoverInv` therefore says that, until the first error, *there is* a set of
nodes that it went over (`Covered`): with a node it has all that lies on the
node's way (`Path`), and every node in it is `WellTyped`, if it is an expression, and
`Ready`, if it is declared. A node gets into the set when it is left
without a message, by a lemma for every handler: what is checked (`HoldingChecks`)
and what the operands are, being in the set, make the result `Proper`, which is
stronger than one base type, as a variable must not be of the type of `null`, nor an
array of void: otherwise a later node would inherit it. A symbol keeps the
attributes of the declaration that made it (`SymbolsTrue`), and so does what
an identifier inherits from it. At the end every statement, expression and
declaration is in the set: the least that is not has a parent that is
(`CoveredIsAll`, by least counterexample, as nodes are numbered in preorder). The
exception, `new void[n]`, is the finding `void_array`; the other, a redefinition,
`redefinition`.

*Returned values* are compared with the symbol that `current_function` stands for,
which an earlier declaration made, maybe a variable's. `ReturnInv` adds that
every return in the set fits the type *written in the function around it*
(`ReturnRight`), and it needs: that the frames are a path from the root, in
which only the second can be a function or prototype (`Rooted`); that
`current_function` is the one on the stack (`Calling`); that no parameter is in
the global table (`NoGlobalParameter`), so that the earlier declaration which
`handle_function` compares types with (`typecheck_compare_types`) is a declaration and
not a parameter, with its type where the comparison looks; and that what the set holds is
behind all frames (`Past`), so that a later step cannot change the attributes a
return was checked with.

*Calls* are compared with the parameters that the symbol of the function has when
the call is left: those of a prototype or of the definition, whichever came first,
or, inside a function, those which the loop of `handle_function` has put there. A
definition that comes after the call is compared with the prototype only. `CallInv` ties
the three together until the first error:

- every symbol in the global table that a function or prototype made has as
  many parameters, of the same types, as the list it was declared with
  (`GlobalsFit`; `Fitting` is about a prefix of the list);
- every definition that was met has a list that agrees with that first one
  (`Agreed`), and the symbol has parameters that fit it (`DefinitionsFit`);
- while parameters are looped over, which is when neither holds of the current
  function, the symbol has those declared so far (`LoopFits`);
- every call in the set fits the first list of its symbol, and that of every
  definition met before it (`CallRight`). A definition met later agrees
  with the first list, so it fits that one as well;
- an identifier has the name of the symbol it is bound to (`NamesAgree`), by which
  a call and a definition are known to be of one function.

When `handle_function` begins its loop without an error, the symbol has no
parameters and the list agrees with its first one (`BeginsAgreed`), and no definition met
before has the name (`BeginsFresh`), so what was said of others stays true. The
hypothesis `~ CallsVariable` is needed where a definition agrees with the first
list only if a list is what the symbol was declared with.

`EmitProofs` proves of `EmitSpec`, which runs the emitter after the pass:

| Theorem | States |
|---|---|
| `EmitCorrect` | `[]EmitInv`, the invariant below |
| `EmitTypeCorrect` | `[]EmitTypeOK` |
| `JumpsCorrect` | `[]JumpsLand`: in one function, every jump has exactly one label |

*The argument:* `EmitInv` has what is known of the pass (`PassInv`), which stays true as
the emitter changes nothing of it; that emission starts when the pass has ended
without errors (`StartInv`); that the jobs left are in the order of
`oc_run_emit`, each for a node of the kind it expects (`JobsInv`), which says
among others that the bodies come last and the top level's last of all; and
that the frames of `emit_recursive` are a path below the body of the first job, each
ahead of what its callers have left (`Stacked`), which is `Nested` again for a
traversal that skips other nodes. `NumbersInv` bounds registers by lines.

That jumps land is a property of the *finished* output of a function, so while it
is written, `JumpInv` says which labels the frames still owe (`Owed`, by the position
of each frame in its loop or conditional): every jump of the function so far has
its label or a frame that owes it (`Landing`, `Owing`); a label is written once,
because labels that are there are of nodes behind all that is ahead
(`Passed`); and nothing stands between the line that opens a function and its body
that could be a label (`Unlabelled`). All top-level statements share the
main function, with other statements and functions between them, which is why the jobs'
order matters.

**Only model-checked.** Of the emitter, `AbortsKnown`, `DeclaredBeforeUse`,
`DeclaredOnce` and `CTypesFit`: they relate every line of the output to every
other and to all declarations in scope, and need for each of the emitter's
constructs what `JumpInv` says of jumps. Of the pass, `BindingsAreLexical`: it
is about a lookup over the tree
as it was *left* behind, where `Refinement` is about the lookup when it is
made. `OffsetsTrue` compares the scanner with a sum over the text, a recursive fold, so
it is induction over data; the safety of `ImplementsSource` compares the values
of whole expressions, which both sides compute by recursion over the tree. Out of the
prover's reach and left to TLC: `Terminates` and the liveness of
`ImplementsSource`, and what the recursive definitions of `Grammar` (`Size`,
`Nodes`) compute. `Grammar` is used by the runs alone, so that no module with a
theorem depends on a `RECURSIVE` operator.

## What is not modelled

- Shift and reduce in the **parser**, its precedences and error productions: the
  automaton is bison's. Recovery (`program error ';'` and `program error '}'`)
  drops a part of the program and leaves those before and behind it under the
  same root, so the trees of programs with syntax errors have the shapes of
  the others; they are analysed but never accepted (`Driver` has the count).
- In `Execution`: an address one behind an object, which C lets a program compute;
  writing to a string constant, which C leaves undefined; evaluation of
  anything the C compiler rejects. The programs of `MCExecution` are valid C.
- Of the **run-time library**: the output functions, each one call of `printf`; the
  arguments of the program and `getargv`, which returns them. `Values` has
  what a program can get from a call (a character or the end of the input, a
  string or null, or an end by `exit` or the assertion helper), `Oclib` which bytes
  are in it.
- The patterns of the scanner (flex's), the **string set** (a wrapper of
  `std::unordered_set`), the listings `.tok`, `.str`, `.ast` and `.sym` beyond their
  being written, the wording of diagnostics, and debug output.
- Options of the command line, except `-h`, which ends the process with 0 (an
  unknown option is reported by `getopt` and otherwise ignored).

## What remains open

To model: `Typing`, a reference definition of the type of an expression, recursive
and without attributes, against which `TypeCheck` would be compared.

To prove, in this order: `AbortsKnown`, from `OneBaseType` and
`OnlyRedefinitionsUnready`, which say which types and names the emitter's assertions meet, with `EmitInv`, which says for
which nodes; `DeclaredOnce`, from `MangledNamesUnique` and registers
that only grow; `DeclaredBeforeUse` and `BindingsAreLexical`, from an invariant that
ties the tables to the positions of declarations in the tree.
