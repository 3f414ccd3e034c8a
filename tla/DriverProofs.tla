----------------------------- MODULE DriverProofs -----------------------------
(***************************************************************************)
(* What an exit status says of the output files, for every number of       *)
(* errors, every invocation after every other, and every answer of the     *)
(* system.  The invariant that makes it inductive follows each file from   *)
(* fopen to fclose: which have been written where main has got to, and     *)
(* that the .oil file is empty between its opening and the exit.           *)
(***************************************************************************)
EXTENDS Driver, TLAPS

(* Where main has not opened the .oil file yet, and where it has. *)
BeforeOil == {"arguments", "popen", "tok", "parse", "pclose", "str", "ast",
              "sym", "oil"}
AfterOil == {"semantics", "emit", "dump"}

(* Where the .tok file has been closed, and where the .str file has. *)
AfterStr == {"ast", "sym", "oil"} \cup AfterOil
AfterTok == {"pclose", "str"} \cup AfterStr

RunningUntilEnded == status = "running" <=> pc # "ended"

OilOpenedLast ==
  /\ pc \in BeforeOil => file["oil"] \in {"absent", "old"}
  /\ pc \in AfterOil => file["oil"] = "empty"

WrittenWhenClosed ==
  /\ pc \in AfterTok => lost \/ file["tok"] = "complete"
  /\ pc \in AfterStr => lost \/ file["str"] = "complete"

DriverInv ==
  /\ DriverTypeOK /\ RunningUntilEnded /\ OilOpenedLast /\ WrittenWhenClosed
  /\ ExitZeroCompiled /\ RejectedIsEmpty /\ FailureKeepsOil
-----------------------------------------------------------------------------

(* What a flush writes is whole unless the disk lost something; no other   *)
(* file changes.                                                           *)
LEMMA FlushWrites ==
  ASSUME file \in [Files -> Contents], lost \in BOOLEAN,
         NEW fs \in SUBSET Files, Flush(fs)
  PROVE  /\ file' \in [Files -> Contents] /\ lost' \in BOOLEAN
         /\ lost => lost'
         /\ \A f \in fs : lost' \/ file'[f] = "complete"
         /\ \A f \in Files \ fs : file'[f] = file[f]
<1>1. PICK short \in SUBSET fs :
        /\ \E how \in [short -> {"empty", "partial"}] :
             file' = [f \in Files |->
                        IF f \in short THEN how[f]
                        ELSE IF f \in fs THEN "complete" ELSE file[f]]
        /\ lost' = (lost \/ short # {})
  BY DEF Flush
<1>2. PICK how \in [short -> {"empty", "partial"}] :
        file' = [f \in Files |->
                   IF f \in short THEN how[f]
                   ELSE IF f \in fs THEN "complete" ELSE file[f]]
  BY <1>1
<1>3. file' \in [Files -> Contents]
  <2>1. \A f \in short : how[f] \in Contents
    BY <1>2 DEF Contents
  <2>2. "complete" \in Contents
    BY DEF Contents
  <2> QED
    BY <1>2, <2>1, <2>2
<1>4. \A f \in fs : f \notin short => file'[f] = "complete"
  BY <1>2
<1>5. \A f \in Files \ fs : file'[f] = file[f]
  BY <1>2
<1> QED
  BY <1>1, <1>3, <1>4, <1>5

(* A process that is killed changes no file but those it was writing.      *)
LEMMA KilledWrites ==
  ASSUME file \in [Files -> Contents], NEW fs \in SUBSET Files, Killed(fs)
  PROVE  /\ file' \in [Files -> Contents]
         /\ pc' = "ended" /\ status' = "killed" /\ UNCHANGED lost
<1>1. PICK how \in [fs -> {"empty", "partial"}] :
        file' = [f \in Files |-> IF f \in fs THEN how[f] ELSE file[f]]
  BY DEF Killed
<1>2. \A f \in fs : how[f] \in Contents
  BY <1>1 DEF Contents
<1> QED
  BY <1>1, <1>2 DEF Killed, Exit

(* An invocation that gives up before the .oil file is opened leaves it.   *)
LEMMA GivesUp ==
  ASSUME DriverInv, pc \in BeforeOil, Exit("1"), UNCHANGED file,
         UNCHANGED <<parse_errors, semantic_errors, exitstatus, lost>>
  PROVE  DriverInv'
<1>1. DriverTypeOK'
  BY DEF DriverInv, DriverTypeOK, Exit
<1> QED
  BY <1>1
  DEF DriverInv, RunningUntilEnded, OilOpenedLast, WrittenWhenClosed,
      ExitZeroCompiled, RejectedIsEmpty, FailureKeepsOil, BeforeOil, AfterOil,
      AfterStr, AfterTok, Exit

(* Opening a file before the .oil file goes on with that file empty.       *)
LEMMA Opens ==
  ASSUME DriverInv, NEW f, NEW next, Open(f, next),
         <<f, next>> \in {<<"tok", "parse">>, <<"ast", "sym">>,
                          <<"sym", "oil">>, <<"oil", "semantics">>}
  PROVE  DriverInv'
<1>1. CASE Exit("1") /\ UNCHANGED file
  BY <1>1, GivesUp DEF Open, Counted, BeforeOil
<1>2. CASE Goto(next) /\ file' = [file EXCEPT ![f] = "empty"]
  <2>1. file \in [Files -> Contents] /\ f \in Files
    BY DEF DriverInv, DriverTypeOK, Files
  <2>2. /\ file' \in [Files -> Contents]
        /\ file'[f] = "empty"
        /\ \A g \in Files : g # f => file'[g] = file[g]
    BY <1>2, <2>1 DEF Contents
  <2>3. DriverTypeOK'
    BY <1>2, <2>2 DEF DriverInv, DriverTypeOK, Open, Goto, Counted
  <2>4. pc = f /\ pc' = next /\ status' = status /\ lost' = lost
    BY <1>2 DEF Open, Goto, Counted
  <2>5. status = "running"
    BY <2>4 DEF DriverInv, RunningUntilEnded
  <2>6. {"tok", "str", "oil"} \subseteq Files
    BY DEF Files
  <2> QED
    BY <2>2, <2>3, <2>4, <2>5, <2>6
    DEF DriverInv, RunningUntilEnded, OilOpenedLast, WrittenWhenClosed,
        ExitZeroCompiled, RejectedIsEmpty, FailureKeepsOil, BeforeOil,
        AfterOil, AfterStr, AfterTok
<1> QED
  BY <1>1, <1>2 DEF Open

-----------------------------------------------------------------------------

LEMMA DriverInvHolds == DriverSpec => []DriverInv
<1> USE DEF BeforeOil, AfterOil, AfterStr, AfterTok
<1>1. DriverInit => DriverInv
  <2> SUFFICES ASSUME DriverInit PROVE DriverInv
    OBVIOUS
  <2>1. file \in [Files -> Contents] /\ file["oil"] = "absent"
    BY DEF DriverInit, Files, Contents
  <2>2. 0 \in 0..MaxErrors
    BY DriverAssumption
  <2>3. DriverTypeOK
    BY <2>1, <2>2 DEF DriverInit, DriverTypeOK
  <2> QED
    BY <2>1, <2>3
    DEF DriverInit, DriverInv, RunningUntilEnded, OilOpenedLast,
        WrittenWhenClosed, ExitZeroCompiled, RejectedIsEmpty, FailureKeepsOil
<1>2. DriverInv /\ [DriverNext]_driverVars => DriverInv'
  <2> SUFFICES ASSUME DriverInv, [DriverNext]_driverVars
               PROVE  DriverInv'
    OBVIOUS
  <2>1. /\ file \in [Files -> Contents] /\ lost \in BOOLEAN
        /\ parse_errors \in {0, 1} /\ exitstatus \in {0, 1}
        /\ semantic_errors \in 0..MaxErrors /\ MaxErrors \in Nat
        /\ Files = {"tok", "str", "ast", "sym", "oil"}
    BY DriverAssumption DEF DriverInv, DriverTypeOK, Files
  <2>2. CASE Arguments
    <3>1. CASE Exit("usage")
      BY <2>2, <3>1
      DEF Arguments, Exit, Counted, DriverInv, DriverTypeOK,
          RunningUntilEnded, OilOpenedLast, WrittenWhenClosed,
          ExitZeroCompiled, RejectedIsEmpty, FailureKeepsOil
    <3>2. CASE Exit("1")
      BY <2>2, <3>2, GivesUp DEF Arguments, Counted
    <3>3. CASE Goto("popen")
      BY <2>2, <3>3
      DEF Arguments, Goto, Counted, DriverInv, DriverTypeOK,
          RunningUntilEnded, OilOpenedLast, WrittenWhenClosed,
          ExitZeroCompiled, RejectedIsEmpty, FailureKeepsOil
    <3> QED
      BY <2>2, <3>1, <3>2, <3>3 DEF Arguments
  <2>3. CASE OpenPipe
    <3>1. CASE Exit("1")
      BY <2>3, <3>1, GivesUp DEF OpenPipe, Counted
    <3>2. CASE Goto("tok")
      BY <2>3, <3>2
      DEF OpenPipe, Goto, Counted, DriverInv, DriverTypeOK,
          RunningUntilEnded, OilOpenedLast, WrittenWhenClosed,
          ExitZeroCompiled, RejectedIsEmpty, FailureKeepsOil
    <3> QED
      BY <2>3, <3>1, <3>2 DEF OpenPipe
  <2>4. CASE OpenTok \/ OpenAst \/ OpenSym \/ OpenOil
    BY <2>4, Opens DEF OpenTok, OpenAst, OpenSym, OpenOil
  <2>5. CASE Parse
    <3>1. /\ file' \in [Files -> Contents] /\ lost' \in BOOLEAN
          /\ lost' \/ file'["tok"] = "complete"
          /\ file'["oil"] = file["oil"]
      BY <2>1, <2>5, FlushWrites DEF Parse
    <3>2. /\ pc = "parse" /\ pc' = "pclose" /\ UNCHANGED status
          /\ parse_errors' \in {0, 1} /\ exitstatus' \in {0, 1}
          /\ UNCHANGED semantic_errors
      BY <2>5 DEF Parse, Goto
    <3> QED
      BY <3>1, <3>2
      DEF DriverInv, DriverTypeOK, RunningUntilEnded, OilOpenedLast,
          WrittenWhenClosed, ExitZeroCompiled, RejectedIsEmpty,
          FailureKeepsOil
  <2>6. CASE ClosePipe
    <3>1. CASE Exit("1")
      BY <2>6, <3>1, GivesUp DEF ClosePipe, Counted
    <3>2. CASE Goto("str")
      BY <2>6, <3>2
      DEF ClosePipe, Goto, Counted, DriverInv, DriverTypeOK,
          RunningUntilEnded, OilOpenedLast, WrittenWhenClosed,
          ExitZeroCompiled, RejectedIsEmpty, FailureKeepsOil
    <3> QED
      BY <2>6, <3>1, <3>2 DEF ClosePipe
  <2>7. CASE DumpStringset
    <3>1. CASE Exit("1") /\ UNCHANGED <<file, lost>>
      BY <2>7, <3>1, GivesUp DEF DumpStringset, Unchecked
    <3>2. CASE Goto("ast") /\ Flush({"str"})
      <4>1. /\ file' \in [Files -> Contents] /\ lost' \in BOOLEAN
            /\ lost => lost'
            /\ lost' \/ file'["str"] = "complete"
            /\ file'["oil"] = file["oil"] /\ file'["tok"] = file["tok"]
        BY <2>1, <3>2, FlushWrites
      <4>2. /\ pc = "str" /\ pc' = "ast" /\ UNCHANGED status
            /\ UNCHANGED <<parse_errors, semantic_errors, exitstatus>>
        BY <2>7, <3>2 DEF DumpStringset, Goto, Unchecked
      <4> QED
        BY <4>1, <4>2
        DEF DriverInv, DriverTypeOK, RunningUntilEnded, OilOpenedLast,
            WrittenWhenClosed, ExitZeroCompiled, RejectedIsEmpty,
            FailureKeepsOil
    <3> QED
      BY <2>7, <3>1, <3>2 DEF DumpStringset
  <2>8. ASSUME NEW fs \in SUBSET Files, Killed(fs), Unchecked
        PROVE  DriverInv'
    <3>1. /\ file' \in [Files -> Contents]
          /\ pc' = "ended" /\ status' = "killed" /\ UNCHANGED lost
      BY <2>1, <2>8, KilledWrites
    <3> QED
      BY <2>8, <3>1
      DEF Unchecked, DriverInv, DriverTypeOK, RunningUntilEnded,
          OilOpenedLast, WrittenWhenClosed, ExitZeroCompiled,
          RejectedIsEmpty, FailureKeepsOil
  <2>9. CASE RunSemantics
    <3>1. CASE /\ semantic_errors' \in 0..MaxErrors
               /\ Goto("emit")
               /\ UNCHANGED <<file, parse_errors, exitstatus, lost>>
      BY <2>9, <3>1
      DEF RunSemantics, Goto, DriverInv, DriverTypeOK, RunningUntilEnded,
          OilOpenedLast, WrittenWhenClosed, ExitZeroCompiled,
          RejectedIsEmpty, FailureKeepsOil
    <3> QED
      BY <2>1, <2>8, <2>9, <3>1 DEF RunSemantics
  <2>10. CASE RunEmit
    <3>1. CASE Goto("dump") /\ UNCHANGED <<file, lost>>
      BY <2>10, <3>1
      DEF RunEmit, Goto, Unchecked, DriverInv, DriverTypeOK,
          RunningUntilEnded, OilOpenedLast, WrittenWhenClosed,
          ExitZeroCompiled, RejectedIsEmpty, FailureKeepsOil
    <3> QED
      BY <2>1, <2>8, <2>10, <3>1 DEF RunEmit
  <2>11. CASE SkipEmit
    BY <2>11
    DEF SkipEmit, Goto, Counted, DriverInv, DriverTypeOK, RunningUntilEnded,
        OilOpenedLast, WrittenWhenClosed, ExitZeroCompiled, RejectedIsEmpty,
        FailureKeepsOil
  <2>12. CASE Finish
    <3> DEFINE fs == {"ast", "sym"} \cup IF Clean THEN {"oil"} ELSE {}
    <3>1. fs \in SUBSET Files /\ Flush(fs)
      BY <2>1, <2>12 DEF Finish
    <3> HIDE DEF fs
    <3>2. /\ file' \in [Files -> Contents] /\ lost' \in BOOLEAN
          /\ lost => lost'
          /\ \A f \in fs : lost' \/ file'[f] = "complete"
          /\ \A f \in Files \ fs : file'[f] = file[f]
      BY <2>1, <3>1, FlushWrites
    <3>3. /\ pc = "dump" /\ pc' = "ended"
          /\ UNCHANGED <<parse_errors, semantic_errors, exitstatus>>
      BY <2>12 DEF Finish, Exit, Unchecked
    <3>4. DriverTypeOK' /\ status' \in {"0", "2"}
      BY <2>12, <3>2, <3>3
      DEF Finish, Exit, ExitCode, DriverInv, DriverTypeOK
    <3>5. file["oil"] = "empty" /\ "oil" \in Files
      BY <2>1, <3>3 DEF DriverInv, OilOpenedLast
    <3>6. /\ lost \/ file["tok"] = "complete"
          /\ lost \/ file["str"] = "complete"
      BY <3>3 DEF DriverInv, WrittenWhenClosed
    <3>7. CASE Clean
      <4>1. status' = "0" /\ fs = {"ast", "sym", "oil"}
        BY <2>1, <2>12, <3>7 DEF Finish, Exit, ExitCode, Clean, fs
      <4>2. lost' \/ \A f \in Files : file'[f] = "complete"
        BY <2>1, <3>2, <3>6, <4>1
      <4> QED
        BY <3>3, <3>4, <4>1, <4>2
        DEF DriverInv, RunningUntilEnded, OilOpenedLast, WrittenWhenClosed,
            ExitZeroCompiled, RejectedIsEmpty, FailureKeepsOil
    <3>8. CASE ~ Clean
      <4>1. status' = "2" /\ "oil" \notin fs
        BY <2>1, <2>12, <3>8 DEF Finish, Exit, ExitCode, Clean, fs
      <4>2. file'["oil"] = "empty"
        BY <3>2, <3>5, <4>1
      <4> QED
        BY <3>3, <3>4, <4>1, <4>2
        DEF DriverInv, RunningUntilEnded, OilOpenedLast, WrittenWhenClosed,
            ExitZeroCompiled, RejectedIsEmpty, FailureKeepsOil
    <3> QED
      BY <3>7, <3>8
  <2>13. CASE Again
    <3>1. file' \in [Files -> Contents] /\ file'["oil"] \in {"absent", "old"}
      BY <2>1, <2>13 DEF Again, Contents
    <3>2. 0 \in 0..MaxErrors
      BY <2>1
    <3>3. DriverTypeOK'
      BY <2>13, <3>1, <3>2 DEF Again, DriverTypeOK
    <3> QED
      BY <2>13, <3>1, <3>3
      DEF Again, DriverInv, RunningUntilEnded, OilOpenedLast,
          WrittenWhenClosed, ExitZeroCompiled, RejectedIsEmpty,
          FailureKeepsOil
  <2>14. CASE UNCHANGED driverVars
    BY <2>14
    DEF driverVars, DriverInv, DriverTypeOK, RunningUntilEnded,
        OilOpenedLast, WrittenWhenClosed, ExitZeroCompiled, RejectedIsEmpty,
        FailureKeepsOil
  <2> QED
    BY <2>2, <2>3, <2>4, <2>5, <2>6, <2>7, <2>9, <2>10, <2>11, <2>12, <2>13,
       <2>14 DEF DriverNext
<1> QED
  BY <1>1, <1>2, PTL DEF DriverSpec

(* The driver's variables keep their types: in every state the .oil file   *)
(* and the others are absent, old, empty, partly written or complete.      *)
THEOREM DriverTypeCorrect == DriverSpec => []DriverTypeOK
<1>1. DriverInv => DriverTypeOK
  BY DEF DriverInv
<1> QED
  BY <1>1, DriverInvHolds, PTL

(* Whatever failed, exit status 0 promises five whole files of this        *)
(* invocation, unless a write was lost that nobody looked at.              *)
THEOREM ZeroMeansCompiled == DriverSpec => []ExitZeroCompiled
<1>1. DriverInv => ExitZeroCompiled
  BY DEF DriverInv
<1> QED
  BY <1>1, DriverInvHolds, PTL

(* A rejected program leaves no code: not its own, and none of an earlier  *)
(* invocation.                                                             *)
THEOREM TwoMeansEmpty == DriverSpec => []RejectedIsEmpty
<1>1. DriverInv => RejectedIsEmpty
  BY DEF DriverInv
<1> QED
  BY <1>1, DriverInvHolds, PTL

(* An invocation that could not work leaves the earlier .oil file alone,   *)
(* wherever it gave up.                                                    *)
THEOREM OneKeepsOil == DriverSpec => []FailureKeepsOil
<1>1. DriverInv => FailureKeepsOil
  BY DEF DriverInv
<1> QED
  BY <1>1, DriverInvHolds, PTL
=============================================================================
