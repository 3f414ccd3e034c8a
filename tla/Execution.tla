----------------------------- MODULE Execution -----------------------------
(***************************************************************************)
(* From the text of a program to its run: the semantic pass, the emitter,  *)
(* and then the emitted C program, executed line by line, with a register  *)
(* or variable only while it has a defined value.                          *)
(***************************************************************************)
EXTENDS Emit

CONSTANTS
  MaxInt, CharSize, MaxDepth, MaxHeap, exit, assert_fail,   \* as in Values
  SizeMax   \* bound: the largest size_t

(* A size_t is wider than an int. *)
ASSUME SizeAssumption == SizeMax >= 2 * MaxInt /\ MaxInt > 0

INSTANCE Values

VARIABLES
  frames,    \* active functions [pc, regs, vars]
  gvars,     \* global variable -> value
  heap,      \* as in Source, whose last three variables these are
  output,
  status

runVars == <<frames, gvars, heap, output, status>>

-----------------------------------------------------------------------------

Active == Last(frames)
pc == Active.pc
line == oil[pc]

Executing(ops) == status = "running" /\ line.op \in ops

Halt(how) == status' = how /\ UNCHANGED <<frames, gvars, heap, output>>

Fetch(a) ==
  CASE a.kind = "const" -> a.of
    [] a.kind = "reg" -> Read(Active.regs, a.of)
    [] a.kind = "deref" -> Load(heap, Read(Active.regs, a.of))
    [] a.kind = "string" -> -a.of
    [] a.kind = "var" /\ a.of \in DOMAIN gvars -> gvars[a.of]
    [] a.kind = "var" /\ a.of \notin DOMAIN gvars -> Read(Active.vars, a.of)

Fetched == [i \in DOMAIN line.args |-> Fetch(line.args[i])]

Lines(op) == {i \in DOMAIN oil : oil[i].op = op}

(* Where a label is, and the first line of a function, or 0. *)
LabelLine(l) == CHOOSE i \in Lines("label") : oil[i].label = l
FunctionLine(name) ==
  Max({0} \cup {i \in Lines("function") : oil[i].def.of = <<0, name>>})

Resume(frame) == frames' = Front(frames) \o <<frame>>
GoOn(frame) == Resume([frame EXCEPT !.pc = @ + 1])
SetReg(v) == GoOn([Active EXCEPT !.regs = Put(@, line.def.of, v)])

SetVariable(name, v) ==
  IF name \in DOMAIN gvars
  THEN gvars' = [gvars EXCEPT ![name] = v] /\ GoOn(Active)
  ELSE UNCHANGED gvars /\ GoOn([Active EXCEPT !.vars = Put(@, name, v)])

(* The main function is the last one in the text. *)
StartProgram ==
  /\ Compiled /\ status = "ready"
  /\ status' = "running"
  /\ frames' = <<[pc |-> FunctionLine(ocmain) + 2,
                  regs |-> [r \in {} |-> NULL], vars |-> [x \in {} |-> NULL]]>>
  /\ gvars' = [x \in {oil[i].def.of : i \in Lines("global")} |-> 0]
  /\ heap' = [i \in 1..Cardinality(Lines("string")) |-> StringObject]
  /\ UNCHANGED output

RunOperator ==
  LET v == CASE line.op = "index" -> Address(heap, Fetched[1], Fetched[2])
             [] line.op = "select" ->
                  Address(heap, Fetch(line.args[1]), line.args[2].of)
             [] OTHER -> Compute(line.op, Fetched)
  IN
  /\ Executing(BinaryOps \cup UnaryOps \cup {"index", "select"})
  /\ IF v = NULL THEN Halt("undefined")
     ELSE SetReg(v) /\ UNCHANGED <<gvars, heap, output, status>>

RunStore ==
  LET target == IF line.op = "=" THEN line.args[1] ELSE line.def
      v == Fetch(Last(line.args))
  IN
  /\ Executing({"=", "declare"})
  /\ CASE v = NULL -> Halt("undefined")
       [] v # NULL /\ target.kind = "var" ->
            SetVariable(target.of, v) /\ UNCHANGED <<heap, output, status>>
       [] v # NULL /\ target.kind = "deref" ->
            /\ heap' = Store(heap, Active.regs[target.of], v)
            /\ GoOn(Active)
            /\ UNCHANGED <<gvars, output, status>>

(* The fields of the structure whose size a line asks for. *)
FieldsOf(struct) ==
  {f \in {oil[i].def.of : i \in Lines("field")} : f[1] = struct}

(* Bug: the size is as narrow as an int. *)
AsNarrowSize(k) == k % (MaxInt + 1)

(* An int as the size_t that calloc takes. *)
AsSize(k) == k % (SizeMax + 1)

(* What the assertion of xcalloc fails on: no memory for k elements. *)
xcallocFails(k) == AsSize(k) > MaxInt \/ Len(heap) = MaxHeap

RunCalloc ==
  LET one == line.args = <<>>
      size == IF one THEN 1 ELSE Fetched[1]
  IN
  /\ Executing({"calloc"})
  /\ CASE size = NULL -> Halt("undefined")
       [] size # NULL /\ xcallocFails(size) -> Halt("exhausted")
       [] OTHER -> /\ heap' = Allocate(heap, IF one
                                             THEN FieldsOf(line.type.struct)
                                             ELSE Elements(AsSize(size)))
                   /\ SetReg(-Len(heap'))
                   /\ UNCHANGED <<gvars, output, status>>

RunJump ==
  LET v == IF line.op = "unless" THEN Fetched[1] ELSE 0 IN
  /\ Executing({"label", "goto", "unless"})
  /\ IF v = NULL THEN Halt("undefined")
     ELSE /\ IF line.op = "label" \/ v # 0 THEN GoOn(Active)
             ELSE Resume([Active EXCEPT !.pc = LabelLine(line.label)])
          /\ UNCHANGED <<gvars, heap, output, status>>

RunCall ==
  LET f == FunctionLine(line.label)
      k == Len(line.args)
      param(i) == oil[f + i].def.of
  IN
  /\ Executing({"call"}) /\ f # 0
  /\ CASE ~ Known(Fetched) -> Halt("undefined")
       [] Known(Fetched) /\ Len(frames) = MaxDepth -> Halt("exhausted")
       [] OTHER ->
            /\ frames' = Append(frames,
                 [pc |-> f + k + 2, regs |-> [r \in {} |-> NULL],
                  vars |-> [x \in {param(i) : i \in 1..k} |->
                              Fetched[CHOOSE i \in 1..k : param(i) = x]]])
            /\ UNCHANGED <<gvars, heap, output, status>>

RunLibrary ==
  LET kind == CASE line.type = CType("void", NULL, 0) -> "nothing"
                [] line.type.stars > 0 -> "pointer"
                [] OTHER -> "number"
  IN
  /\ Executing({"call"}) /\ FunctionLine(line.label) = 0
  /\ IF ~ Known(Fetched) THEN Halt("undefined")
     ELSE /\ output' = <<line.label, Fetched>>
          /\ \E o \in LibraryOutcomes(line.label, kind, heap) :
               /\ heap' = o.heap /\ status' = o.status
               /\ CASE o.status # "running" -> UNCHANGED frames
                    [] o.status = "running" /\ o.value = NULL -> GoOn(Active)
                    [] OTHER -> SetReg(o.value)
          /\ UNCHANGED gvars

RunReturn ==
  LET v == IF line.args # <<>> THEN Fetched[1] ELSE NULL
      caller == frames[Len(frames) - 1]
      def == oil[caller.pc].def
  IN
  /\ Executing({"return", "}"})
  /\ CASE line.args # <<>> /\ v = NULL -> Halt("undefined")
       [] line.args = <<>> /\ Len(frames) = 1 -> Halt("done")
       [] OTHER ->
            /\ frames' = SubSeq(frames, 1, Len(frames) - 2)
                 \o <<[caller EXCEPT
                         !.pc = @ + 1,
                         !.regs = IF def = NULL THEN @
                                  ELSE Put(@, def.of, v)]>>
            /\ UNCHANGED <<gvars, heap, output, status>>

RunNext == \/ RunOperator \/ RunStore \/ RunCalloc \/ RunJump \/ RunCall
           \/ RunLibrary \/ RunReturn

-----------------------------------------------------------------------------

allVars == <<vars, emitVars, runVars>>

Analyse == Next /\ UNCHANGED <<emitVars, runVars>>
Generate == EmitNext /\ UNCHANGED <<vars, runVars>>
Run == RunNext /\ UNCHANGED <<vars, emitVars>>

ExecutionSpec ==
  /\ EmitInit
  /\ frames = <<>>
  /\ gvars = [x \in {} |-> NULL]
  /\ heap = <<>>
  /\ output = NULL
  /\ status = "ready"
  /\ [][\/ Analyse \/ Generate \/ Run
        \/ StartProgram /\ UNCHANGED <<vars, emitVars>>]_allVars
  /\ WF_allVars(Run)

-----------------------------------------------------------------------------
(* The run as a run of Source. *)

(* The node whose operation comes next, behind labels and gotos. *)
NextOperation(i) ==
  LET at[j \in DOMAIN oil] ==
        CASE oil[j].op = "label" -> at[j + 1]
          [] oil[j].op = "goto" -> at[LabelLine(oil[j].label)]
          [] oil[j].op = "}" -> IF oil[j].node = 1 THEN 1
                                ELSE parent(oil[j].node)
          [] OTHER -> oil[j].node
  IN  at[i]

(* The node whose operation defines register r. *)
NodeOf(r) ==
  oil[CHOOSE i \in DOMAIN oil : oil[i].def = Operand("reg", r)].node

Activation(f) ==
  [at     |-> NextOperation(f.pc),
   values |-> [n \in {NodeOf(r) : r \in DOMAIN f.regs} |->
                 f.regs[CHOOSE r \in DOMAIN f.regs : NodeOf(r) = n]],
   locals |-> [d \in {d \in Declared : mangle_name(d) \in DOMAIN f.vars} |->
                 f.vars[mangle_name(d)]]]

GlobalVariables ==
  [d \in {d \in Declared : mangle_name(d) \in DOMAIN gvars} |->
     gvars[mangle_name(d)]]

Src == INSTANCE Source WITH
         stack <- [i \in DOMAIN frames |-> Activation(frames[i])],
         globals <- GlobalVariables

(* The emitted program does what the source says, and gets on with it.     *)
ImplementsSource == Src!SourceSpec
=============================================================================
