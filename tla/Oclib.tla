-------------------------------- MODULE Oclib --------------------------------
(***************************************************************************)
(* The input functions of the run-time library (oclib.c): __getw and       *)
(* __getln read the standard input through scan, __getc reads it directly, *)
(* in any order the program calls them.  A step is one round of one of     *)
(* scan's loops.                                                           *)
(***************************************************************************)
EXTENDS Integers, Sequences, SequencesExt

CONSTANTS
  NULL,
  Byte,         \* what a file may consist of: the four below
  space, nl,    \* a blank, a newline,
  nul, letter,  \*   the byte zero, and any other
  Size,         \* bound: sizeof buffer, 0x1000 in the code
  MaxInput      \* bound: bytes of input

ASSUME OclibAssumption ==
  /\ Size \in Nat \ {0} /\ MaxInput \in Nat
  /\ Byte = {space, nl, nul, letter}
  /\ NULL \notin Byte \cup {"getc", "getw", "getln"}
  /\ nl # space /\ {nul, letter} \cap {space, nl} = {} /\ nul # letter

VARIABLES
  input,     \* what getchar has not read yet
  state,     \* "returned", "skipping", "storing" or "aborted"
  function,  \* the last function called
  byte,      \* the byte read last
  buffer,    \* buffer up to end, without the zero at end
  result,    \* what the last call returned
  given      \* the input when it was called

oclibVars == <<input, state, function, byte, buffer, result, given>>

EOF == NULL

isspace(b) == b \in {space, nl}
isfalse(b) == FALSE
isnl(b) == b = nl

(* Bug: a line skips blanks as a word does. *)
SkipSpace(b) == isspace(b)

skipover(b) == IF function = "getw" THEN isspace(b) ELSE isfalse(b)

(* Bug: a word ends at a newline only. *)
StopAtNewline(b) == isnl(b)

stopat(b) == IF function = "getw" THEN isspace(b) ELSE isnl(b)

-----------------------------------------------------------------------------

OclibInit ==
  /\ input \in BoundedSeq(Byte, MaxInput)
  /\ state = "returned"
  /\ function = NULL
  /\ byte = NULL
  /\ buffer = <<>>
  /\ result = NULL
  /\ given = input

getchar ==
  IF input = <<>> THEN byte' = EOF /\ UNCHANGED input
  ELSE byte' = Head(input) /\ input' = Tail(input)

__getc ==
  /\ state = "returned"
  /\ function' = "getc"
  /\ getchar
  /\ result' = byte'
  /\ given' = input
  /\ UNCHANGED <<state, buffer>>

(* scan is entered, and reads its first byte. *)
Scan(f) ==
  /\ state = "returned"
  /\ function' = f
  /\ getchar
  /\ given' = input
  /\ IF byte' = EOF THEN result' = NULL /\ UNCHANGED state
     ELSE state' = "skipping" /\ UNCHANGED result
  /\ buffer' = <<>>

__getw == Scan("getw")
__getln == Scan("getln")

(* The first loop. *)
Skip ==
  /\ state = "skipping"
  /\ IF skipover(byte)
     THEN /\ getchar
          /\ IF byte' = EOF THEN state' = "returned" /\ result' = NULL
             ELSE UNCHANGED <<state, result>>
     ELSE /\ state' = "storing"
          /\ UNCHANGED <<input, byte, result>>
  /\ UNCHANGED <<function, buffer, given>>

(* Up to the first zero. *)
strdup(s) ==
  LET zero == SelectInSeq(s, LAMBDA b : b = nul)
  IN  IF zero = 0 THEN s ELSE SubSeq(s, 1, zero - 1)

(* Bug: the zero behind the bytes is forgotten. *)
FitsWithoutZero(s) == Len(s) <= Size

(* Bug: room for a second zero is left. *)
FitsWithTwo(s) == Len(s) < Size - 1

(* The assertion: end is still in the buffer. *)
Fits(s) == Len(s) < Size

(* The second loop, and what follows it. *)
Store ==
  LET stored == Append(buffer, byte) IN
  /\ state = "storing"
  /\ buffer' = stored
  /\ IF Fits(stored)
     THEN /\ getchar
          /\ IF byte' = EOF \/ stopat(byte')
             THEN state' = "returned" /\ result' = strdup(stored)
             ELSE UNCHANGED <<state, result>>
     ELSE state' = "aborted" /\ UNCHANGED <<input, byte, result>>
  /\ UNCHANGED <<function, given>>

OclibNext == __getc \/ __getw \/ __getln \/ Skip \/ Store

OclibSpec == OclibInit /\ [][OclibNext]_oclibVars

-----------------------------------------------------------------------------

OclibTypeOK ==
  /\ input \in Seq(Byte) /\ given \in Seq(Byte)
  /\ state \in {"returned", "skipping", "storing", "aborted"}
  /\ function \in {NULL, "getc", "getw", "getln"}
  /\ byte \in Byte \cup {EOF}
  /\ buffer \in Seq(Byte)
  /\ Len(buffer) <= IF state = "aborted" THEN Size ELSE Size - 1
  /\ result \in Seq(Byte) \cup Byte \cup {NULL}

(* The first index of s with a byte in S, or that behind the end.          *)
FirstOf(s, S) == Min({i \in DOMAIN s : s[i] \in S} \cup {Len(s) + 1})

UpTo(s, S) == SubSeq(s, 1, FirstOf(s, S) - 1)
From(s, S) == SubSeq(s, FirstOf(s, S), Len(s))
Behind(s, S) == SubSeq(s, FirstOf(s, S) + 1, Len(s))

(* getw returns the next word, up to a zero in it, and leaves the input    *)
(* behind the byte that ends the word; without a word it returns null and  *)
(* has read all.                                                           *)
GetwReadsWord ==
  state = "returned" /\ function = "getw" =>
    LET word == UpTo(From(given, {nul, letter}), {space, nl}) IN
    IF word = <<>> THEN result = NULL /\ input = <<>>
    ELSE /\ result = strdup(word)
         /\ input = Behind(From(given, {nul, letter}), {space, nl})

(* getln returns the next line in the same way, if it is not empty; an     *)
(* empty one is returned as a newline joined with the line behind it.      *)
GetlnReadsLine ==
  state = "returned" /\ function = "getln" =>
    LET joined == given # <<>> /\ Head(given) = nl
        line == IF joined THEN Tail(given) ELSE given
    IN  IF given = <<>> THEN result = NULL /\ input = <<>>
        ELSE /\ result = (IF joined THEN <<nl>> ELSE <<>>)
                            \o strdup(UpTo(line, {nl}))
             /\ input = Behind(line, {nl})

(* The assertion fails only if a word, or a line with the newline that was *)
(* joined to it, has more bytes than the buffer takes with a zero: an      *)
(* input that fits is never refused.                                       *)
AbortsOnlyWhenLong ==
  state = "aborted" =>
    LET w == IF function = "getw" THEN From(given, {nul, letter}) ELSE given
        stops == IF function = "getw" THEN {space, nl} ELSE {nl}
    IN  1 + Len(UpTo(Tail(w), stops)) >= Size
=============================================================================
