------------------------------- MODULE Scanner -------------------------------
(***************************************************************************)
(* The scanner (scanner.l, lyutils.cpp): where it says each token stands.  *)
(* The text is what the preprocessor writes, one item for each match of a  *)
(* pattern.  Everything later in the compiler takes places from the tokens *)
(* of the tree, and the emitter makes its labels of them.                  *)
(***************************************************************************)
EXTENDS Integers, Sequences, FiniteSetsExt, SequencesExt

CONSTANTS
  FileName,     \* what line markers name
  MarkerLine,   \* the line numbers in line markers
  Length,       \* lengths of tokens and blanks
  MaxText,      \* bound: items of the text
  MaxErrors     \* bound: errors of the scanner and the parser

ASSUME ScannerAssumption ==
  /\ MarkerLine \subseteq Int
  /\ Length \subseteq Nat \ {0}
  /\ MaxErrors \in Nat

VARIABLES
  text,                 \* the items matched so far
  scan_linenr,
  scan_offset,
  included_filenames,
  scanner_errors,
  tokens                \* [item, filenr, linenr, offset] of each token

scannerVars == <<text, scan_linenr, scan_offset, included_filenames,
                 scanner_errors, tokens>>

-----------------------------------------------------------------------------
(* Items of the text. *)

Piece(what, length) == [what |-> what, length |-> length]
Newline == Piece("newline", 1)

(* A '#' and the rest of its line, the pattern of scanner_include: a line  *)
(* marker, or a pragma or anything else that the preprocessor leaves.      *)
Marker(line, file) == [what |-> "marker", line |-> line, file |-> file]
Directive == [what |-> "directive"]

Directives == {"marker", "directive"}

Items == [what : {"token", "blank", "newline", "invalid"}, length : Nat]
           \cup [what : {"marker"}, line : MarkerLine, file : FileName]
           \cup {Directive}

(* The preprocessor begins with a line marker; '#' takes a whole line.     *)
MayFollow(item) ==
  IF text = <<>> THEN item.what = "marker"
  ELSE Last(text).what \in Directives => item = Newline

Matches(item) ==
  /\ Len(text) < MaxText
  /\ MayFollow(item)
  /\ text' = Append(text, item)

-----------------------------------------------------------------------------

ScannerInit ==
  /\ text = <<>>
  /\ scan_linenr = 1
  /\ scan_offset = 0
  /\ included_filenames = <<>>
  /\ scanner_errors = 0
  /\ tokens = <<>>

(* YY_USER_ACTION, before the action of a pattern.  Where that sets the    *)
(* offset back, the length is left out.                                    *)
scanner_useraction(length) == scan_offset' = scan_offset + length

(* Bug: the length is taken off before it was added. *)
StartBefore(length) == scan_offset - length

StartOffset(length) == scan_offset' - length

yylval_token(length) ==
  /\ Matches(Piece("token", length))
  /\ scanner_useraction(length)
  /\ tokens' = Append(tokens, [item   |-> Len(text) + 1,
                               filenr |-> Len(included_filenames) - 1,
                               linenr |-> scan_linenr,
                               offset |-> StartOffset(length)])
  /\ UNCHANGED <<scan_linenr, included_filenames, scanner_errors>>

Blank(length) ==
  /\ Matches(Piece("blank", length))
  /\ scanner_useraction(length)
  /\ UNCHANGED <<scan_linenr, included_filenames, scanner_errors, tokens>>

scanner_newline ==
  /\ Matches(Newline)
  /\ scan_linenr' = scan_linenr + 1
  /\ scan_offset' = 0
  /\ UNCHANGED <<included_filenames, scanner_errors, tokens>>

(* Bug: a file that was entered before keeps its number. *)
NewfilenameOnce(filename) ==
  included_filenames' =
    IF filename \in Range(included_filenames) THEN included_filenames
    ELSE Append(included_filenames, filename)

scanner_newfilename(filename) ==
  included_filenames' = Append(included_filenames, filename)

(* Bug: the newline behind the marker is not thought of. *)
IncludeThisLine(line, file) ==
  /\ Matches(Marker(line, file))
  /\ scanner_newfilename(file)
  /\ scan_linenr' = line
  /\ scan_offset' = 0
  /\ UNCHANGED <<scanner_errors, tokens>>

(* The line of a marker was counted before the marker is looked at, and is *)
(* counted again when its newline is matched.                              *)
scanner_include(line, file) ==
  /\ Matches(Marker(line, file))
  /\ scanner_newfilename(file)
  /\ scan_linenr' = line - 1
  /\ scan_offset' = 0
  /\ UNCHANGED <<scanner_errors, tokens>>

scanner_include_invalid ==
  /\ Matches(Directive)
  /\ scan_linenr' = scan_linenr + 1
  /\ scan_offset' = 0
  /\ UNCHANGED <<included_filenames, scanner_errors, tokens>>

(* Bug: the match does not count. *)
InvalidWithoutLength(length) ==
  /\ Matches(Piece("invalid", length))
  /\ scanner_errors < MaxErrors
  /\ scanner_errors' = scanner_errors + 1
  /\ UNCHANGED <<scan_linenr, scan_offset, included_filenames, tokens>>

(* scanner_invalidtoken or, for one character, scanner_badchar: reported,  *)
(* and not given to the parser.                                            *)
scanner_invalidtoken(length) ==
  /\ Matches(Piece("invalid", length))
  /\ scanner_useraction(length)
  /\ scanner_errors < MaxErrors
  /\ scanner_errors' = scanner_errors + 1
  /\ UNCHANGED <<scan_linenr, included_filenames, tokens>>

(* The parser refuses the last token. *)
yyerror ==
  /\ tokens # <<>> /\ Last(tokens).item = Len(text)
  /\ scanner_errors < MaxErrors
  /\ scanner_errors' = scanner_errors + 1
  /\ UNCHANGED <<text, scan_linenr, scan_offset, included_filenames, tokens>>

ScannerNext ==
  \/ \E length \in Length : \/ yylval_token(length)
                            \/ Blank(length)
                            \/ scanner_invalidtoken(length)
  \/ scanner_newline
  \/ \E line \in MarkerLine, file \in FileName : scanner_include(line, file)
  \/ scanner_include_invalid
  \/ yyerror

ScannerSpec == ScannerInit /\ [][ScannerNext]_scannerVars

-----------------------------------------------------------------------------
(* Where an item of the text stands, by the text alone: a marker says of   *)
(* the next line which line of which file it is.                           *)

Before(i, kinds) == {j \in 1..i - 1 : text[j].what \in kinds}

LastMarker(i) == Max(Before(i, {"marker"}))

PresumedFile(i) == text[LastMarker(i)].file

Behind(i, kinds) == {j \in Before(i, kinds) : j > LastMarker(i)}

PresumedLine(i) ==
  text[LastMarker(i)].line + Cardinality(Behind(i, {"newline"})) - 1

(* The characters between the last newline and the item. *)
Column(i) ==
  LET line == {j \in 1..i - 1 : \A k \in Before(i, {"newline"}) : k < j}
  IN  MapThenSumSet(LAMBDA j : text[j].length, line)

-----------------------------------------------------------------------------

Tokens == [item : Nat, filenr : Nat, linenr : Int, offset : Nat]

ScannerTypeOK ==
  /\ text \in Seq(Items)
  /\ scan_linenr \in Int
  /\ scan_offset \in Nat
  /\ included_filenames \in Seq(FileName)
  /\ scanner_errors \in 0..MaxErrors
  /\ tokens \in Seq(Tokens)

(* A token's file and line are those the line markers say, and so are      *)
(* those in messages, dumps and labels: the scanner counts the line of a   *)
(* marker twice and takes that back.  The exception is what stands behind  *)
(* a directive that is not understood, whose line was counted twice and    *)
(* stays so until the next marker.                                         *)
LinesTrue ==
  \A t \in Range(tokens) :
    /\ included_filenames[t.filenr + 1] = PresumedFile(t.item)
    /\ Behind(t.item, {"directive"}) = {} => t.linenr = PresumedLine(t.item)

(* A token's offset is the number of characters before it in its line,     *)
(* blanks and characters that no token may have included.                  *)
OffsetsTrue == \A t \in Range(tokens) : t.offset = Column(t.item)

LaterPlace(s, t) ==
  \/ s.filenr > t.filenr
  \/ s.filenr = t.filenr /\ s.linenr > t.linenr
  \/ s.filenr = t.filenr /\ s.linenr = t.linenr /\ s.offset > t.offset

(* Places grow with the text, whatever its markers say, so the labels of   *)
(* two statements differ: a marker that goes back to a line or a file that *)
(* was read before begins a file number of its own.                        *)
PlacesGrow ==
  \A i, j \in DOMAIN tokens : i < j => LaterPlace(tokens[j], tokens[i])
=============================================================================
