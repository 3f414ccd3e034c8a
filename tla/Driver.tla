------------------------------- MODULE Driver -------------------------------
(***************************************************************************)
(* The main program (main.cpp): one invocation after another of the        *)
(* compiler on the same source file, in the same directory, with whatever  *)
(* the system calls, the preprocessor and the phases may answer.  The      *)
(* phases are reduced to what main sees of them: error counts, and the     *)
(* abnormal end of the process that Semantics!NoCrash and                  *)
(* Semantics!EmitReady show to be possible.                                *)
(*                                                                         *)
(* Output goes through stdio buffers: a file is truncated when it is       *)
(* opened, what is written to it arrives when it is closed or the process  *)
(* exits, and a process that is killed loses an unknown part of it.  A     *)
(* write may fail (a full disk), and no result of a write is looked at.    *)
(***************************************************************************)
EXTENDS Integers, Sequences

CONSTANT MaxErrors   \* bound: semantic errors, of which only the sign matters

ASSUME DriverAssumption == MaxErrors \in Nat

VARIABLES
  pc,               \* the next thing main does, or "ended"
  file,             \* output file -> its contents
  parse_errors,     \* what oc_scan_and_parse returned
  semantic_errors,  \* what oc_run_semantics returned, at most MaxErrors
  exitstatus,       \* auxlib's exit status: 1 once errprintf was called
  lost,             \* whether a write of this invocation failed
  status            \* "running", "killed", or the exit status ("usage": also 0)

driverVars == <<pc, file, parse_errors, semantic_errors, exitstatus, lost,
                status>>

Files == {"tok", "str", "ast", "sym", "oil"}

(* absent, or old: from an earlier invocation; empty: truncated; partial:  *)
(* a proper prefix of what this invocation has to say; complete.           *)
Contents == {"absent", "old", "empty", "partial", "complete"}

-----------------------------------------------------------------------------

Goto(next) == pc' = next /\ UNCHANGED status

Exit(code) == pc' = "ended" /\ status' = code

(* The contents of the files in fs after their buffers were written out. *)
Flush(fs) ==
  \E short \in SUBSET fs :
    /\ \E how \in [short -> {"empty", "partial"}] :
         file' = [f \in Files |-> IF f \in short THEN how[f]
                                  ELSE IF f \in fs THEN "complete" ELSE file[f]]
    /\ lost' = (lost \/ short # {})

(* The process is killed while fs have unwritten data. *)
Killed(fs) ==
  /\ Exit("killed")
  /\ \E how \in [fs -> {"empty", "partial"}] :
       file' = [f \in Files |-> IF f \in fs THEN how[f] ELSE file[f]]
  /\ UNCHANGED lost

Unchecked == UNCHANGED <<parse_errors, semantic_errors, exitstatus>>
Counted == <<parse_errors, semantic_errors, exitstatus, lost>>

(* getopt, and the checks of the file name and the input file. *)
Arguments ==
  /\ pc = "arguments"
  /\ \/ Exit("usage")      \* usage() exits with 0
     \/ Exit("1")            \* no file, two files, a wrong extension, no access
     \/ Goto("popen")
  /\ UNCHANGED <<file, Counted>>

(* oc_cpp_getfile. *)
OpenPipe ==
  /\ pc = "popen"
  /\ Exit("1") \/ Goto("tok")
  /\ UNCHANGED <<file, Counted>>

(* fopen(..., "w") of f: it fails and main returns, or f is empty. *)
Open(f, next) ==
  /\ pc = f
  /\ \/ Exit("1") /\ UNCHANGED file
     \/ Goto(next) /\ file' = [file EXCEPT ![f] = "empty"]
  /\ UNCHANGED Counted

(* Bug: the .oil file is opened with the .ast file. *)
OpenAstAndOil ==
  /\ pc = "ast"
  /\ \/ Exit("1") /\ UNCHANGED file
     \/ Goto("sym") /\ file' = [file EXCEPT !["ast"] = "empty",
                                             !["oil"] = "empty"]
  /\ UNCHANGED Counted

OpenTok == Open("tok", "parse")
OpenAst == Open("ast", "sym")
OpenSym == Open("sym", "oil")
OpenOil == Open("oil", "semantics")

(* Bug: the error counts of scanner and parser are added up, not ored. *)
ParseCounting ==
  /\ pc = "parse"
  /\ parse_errors' \in 0..2
  /\ exitstatus' = 1
  /\ Flush({"tok"})
  /\ Goto("pclose")
  /\ UNCHANGED semantic_errors

(* oc_scan_and_parse and fclose.  Every error of the scanner or the parser *)
(* goes through errprintf; so does a line directive that is not understood *)
(* and "ignored" (scanner_include), which is no error.                     *)
Parse ==
  /\ pc = "parse"
  /\ parse_errors' \in {0, 1}
  /\ exitstatus' \in {parse_errors', 1}
  /\ Flush({"tok"})
  /\ Goto("pclose")
  /\ UNCHANGED semantic_errors

(* The status of the preprocessor is known only when it has been read. *)
ClosePipe ==
  /\ pc = "pclose"
  /\ Exit("1") \/ Goto("str")
  /\ UNCHANGED <<file, Counted>>

(* fopen, dump_stringset and fclose. *)
DumpStringset ==
  /\ pc = "str"
  /\ \/ Exit("1") /\ UNCHANGED <<file, lost>>
     \/ Goto("ast") /\ Flush({"str"})
  /\ Unchecked

(* oc_run_semantics, also of a tree with syntax errors, writes the symbols. *)
RunSemantics ==
  /\ pc = "semantics"
  /\ \/ /\ semantic_errors' \in 0..MaxErrors
        /\ Goto("emit")
        /\ UNCHANGED <<file, parse_errors, exitstatus, lost>>
     \/ Killed({"sym"}) /\ Unchecked

(* Bug: only the semantic errors keep a program from being emitted. *)
CleanSemantics == semantic_errors = 0

Clean == parse_errors + semantic_errors = 0

(* oc_run_emit, of a program without errors. *)
RunEmit ==
  /\ pc = "emit"
  /\ Clean
  /\ \/ Goto("dump") /\ UNCHANGED <<file, lost>>
     \/ Killed({"sym", "oil"})
  /\ Unchecked

SkipEmit ==
  /\ pc = "emit"
  /\ ~ Clean
  /\ Goto("dump")
  /\ UNCHANGED <<file, Counted>>

(* Bug: the errors of the parser are left out of the sum. *)
ExitCodeOfSemantics == IF semantic_errors > 0 THEN "2" ELSE "0"

(* What main returns. *)
ExitCode == IF parse_errors + semantic_errors > 0 THEN "2" ELSE "0"

(* dump_astree, the fcloses, and the exit that closes the .oil file. *)
Finish ==
  /\ pc = "dump"
  /\ Flush({"ast", "sym"} \cup IF Clean THEN {"oil"} ELSE {})
  /\ Exit(ExitCode)
  /\ Unchecked

(* The user runs the compiler again. *)
Again ==
  /\ pc = "ended"
  /\ pc' = "arguments"
  /\ file' = [f \in Files |-> IF file[f] = "absent" THEN "absent" ELSE "old"]
  /\ parse_errors' = 0
  /\ semantic_errors' = 0
  /\ exitstatus' = 0
  /\ lost' = FALSE
  /\ status' = "running"

-----------------------------------------------------------------------------

DriverInit ==
  /\ pc = "arguments"
  /\ file = [f \in Files |-> "absent"]
  /\ parse_errors = 0
  /\ semantic_errors = 0
  /\ exitstatus = 0
  /\ lost = FALSE
  /\ status = "running"

DriverNext ==
  \/ Arguments \/ OpenPipe \/ OpenTok \/ Parse \/ ClosePipe \/ DumpStringset
  \/ OpenAst \/ OpenSym \/ OpenOil \/ RunSemantics \/ RunEmit \/ SkipEmit
  \/ Finish \/ Again

DriverSpec == DriverInit /\ [][DriverNext]_driverVars

-----------------------------------------------------------------------------

(* The values the variables range over. *)
DriverTypeOK ==
  /\ pc \in {"arguments", "popen", "tok", "parse", "pclose", "str", "ast",
             "sym", "oil", "semantics", "emit", "dump", "ended"}
  /\ file \in [Files -> Contents]
  /\ parse_errors \in {0, 1}
  /\ semantic_errors \in 0..MaxErrors
  /\ exitstatus \in {0, 1}
  /\ lost \in BOOLEAN
  /\ status \in {"running", "usage", "killed", "0", "1", "2"}

(* Exit status 0 means that the program was compiled: unless the disk lost *)
(* something, all five files are there, whole, and of this invocation.     *)
ExitZeroCompiled ==
  status = "0" => lost \/ \A f \in Files : file[f] = "complete"

(* Exit status 2 means that the program was rejected, and then the .oil    *)
(* file is empty: neither the code of this program nor older code.         *)
RejectedIsEmpty == status = "2" => file["oil"] = "empty"

(* Exit status 1 means that the compiler could not do its work: then the   *)
(* .oil file is what it was before, even if other files were overwritten.  *)
FailureKeepsOil == status = "1" => file["oil"] \in {"absent", "old"}

(* The exit status tells of every error that errprintf reported, as the    *)
(* comment of get_exitstatus (auxlib.h:35) wants it.                       *)
ExitStatusReported == status = "0" => exitstatus = 0
=============================================================================
