---------------------------- MODULE ScannerProofs ----------------------------
(***************************************************************************)
(* No two tokens have the same place, for every text, however its line     *)
(* markers number the lines and name the files, and so no two statements   *)
(* the same labels.  The invariant that makes it inductive says that all   *)
(* tokens lie before the place where the scanner is.  And every token has  *)
(* the file and line that the markers give it.                             *)
(***************************************************************************)
EXTENDS Scanner, FiniteSetTheorems, TLAPS

(* The place where the scanner is; all tokens lie before it. *)
Here == [filenr |-> Len(included_filenames) - 1,
         linenr |-> scan_linenr, offset |-> scan_offset]

AllPassed == \A i \in DOMAIN tokens : LaterPlace(Here, tokens[i])

(* A file was entered before anything else was matched. *)
InFile == text # <<>> => included_filenames # <<>>

ScannerInv == ScannerTypeOK /\ InFile /\ AllPassed /\ PlacesGrow

-----------------------------------------------------------------------------

(* A step that adds no token and goes on in the text.                      *)
LEMMA StillGrowing ==
  ASSUME ScannerInv, UNCHANGED tokens,
         scan_linenr' \in Int, scan_offset' \in Nat,
         included_filenames' \in Seq(FileName),
         \/ Len(included_filenames') > Len(included_filenames)
         \/ /\ Len(included_filenames') = Len(included_filenames)
            /\ \/ scan_linenr' > scan_linenr
               \/ scan_linenr' = scan_linenr /\ scan_offset' >= scan_offset
  PROVE  AllPassed' /\ PlacesGrow'
<1>1. PlacesGrow'
  BY DEF ScannerInv, PlacesGrow, LaterPlace
<1>2. /\ Len(included_filenames) \in Nat /\ Len(included_filenames') \in Nat
      /\ scan_linenr \in Int /\ scan_offset \in Nat
  BY DEF ScannerInv, ScannerTypeOK
<1>3. ASSUME NEW i \in DOMAIN tokens
      PROVE  LaterPlace(Here', tokens[i])
  <2>1. tokens[i] \in Tokens /\ LaterPlace(Here, tokens[i])
    BY DEF ScannerInv, ScannerTypeOK, AllPassed
  <2> QED
    BY <1>2, <2>1 DEF LaterPlace, Here, Tokens
<1> QED
  BY <1>1, <1>3 DEF AllPassed

(* What is matched is an item, behind the first marker.                    *)
LEMMA Matched ==
  ASSUME ScannerInv, NEW item \in Items, Matches(item)
  PROVE  /\ text' \in Seq(Items)
         /\ item.what # "marker" => included_filenames # <<>>
<1>1. text' \in Seq(Items)
  BY DEF ScannerInv, ScannerTypeOK, Matches
<1>2. item.what # "marker" => included_filenames # <<>>
  BY DEF ScannerInv, InFile, Matches, MayFollow
<1> QED
  BY <1>1, <1>2

(* The items of the actions are items. *)
LEMMA ItemsMatched ==
  /\ \A what \in {"token", "blank", "invalid"}, length \in Length :
       Piece(what, length) \in Items /\ Piece(what, length).what # "marker"
  /\ Newline \in Items /\ Newline.what # "marker"
  /\ Directive \in Items /\ Directive.what # "marker"
  /\ \A line \in MarkerLine, file \in FileName : Marker(line, file) \in Items
<1>1. Length \subseteq Nat
  BY ScannerAssumption
<1> QED
  BY <1>1 DEF Items, Piece, Newline, Directive, Marker

(* A token that is added stands where the scanner is. *)
LEMMA TokenStep ==
  ASSUME ScannerInv, NEW length \in Length, yylval_token(length)
  PROVE  ScannerInv'
<1> DEFINE t == [item |-> Len(text) + 1,
                 filenr |-> Len(included_filenames) - 1,
                 linenr |-> scan_linenr, offset |-> scan_offset]
<1>1. /\ length \in Nat /\ length > 0
      /\ text \in Seq(Items)
      /\ scan_linenr \in Int /\ scan_offset \in Nat
      /\ tokens \in Seq(Tokens)
      /\ included_filenames \in Seq(FileName)
  BY ScannerAssumption DEF ScannerInv, ScannerTypeOK
<1>2. /\ scan_offset' = scan_offset + length
      /\ UNCHANGED <<scan_linenr, included_filenames, scanner_errors>>
  BY DEF yylval_token, scanner_useraction
<1>3. tokens' = Append(tokens, t)
  BY <1>1, <1>2 DEF yylval_token, StartOffset
<1>4. text' \in Seq(Items) /\ included_filenames # <<>>
  BY Matched, ItemsMatched DEF yylval_token
<1>5. t \in Tokens
  BY <1>1, <1>4 DEF Tokens
<1>6. ScannerTypeOK'
  BY <1>1, <1>2, <1>3, <1>4, <1>5 DEF ScannerInv, ScannerTypeOK
<1>7. InFile'
  BY <1>2, <1>4 DEF InFile
<1>8. /\ DOMAIN tokens' = 1..Len(tokens) + 1
      /\ \A i \in DOMAIN tokens : tokens'[i] = tokens[i]
      /\ tokens'[Len(tokens) + 1] = t
      /\ DOMAIN tokens = 1..Len(tokens) /\ Len(tokens) \in Nat
  BY <1>1, <1>3, <1>5
<1>9. \A i \in DOMAIN tokens : /\ tokens[i] \in Tokens
                               /\ LaterPlace(Here, tokens[i])
  BY <1>1 DEF ScannerInv, AllPassed
<1>10. \A i \in DOMAIN tokens : LaterPlace(t, tokens[i])
  <2> SUFFICES ASSUME NEW i \in DOMAIN tokens
               PROVE  LaterPlace(t, tokens[i])
    OBVIOUS
  <2> QED
    BY <1>9 DEF Here, LaterPlace
<1>11. ASSUME NEW i \in DOMAIN tokens'
       PROVE  LaterPlace(Here', tokens'[i])
  <2>1. CASE i \in DOMAIN tokens
    <3>1. /\ tokens'[i] = tokens[i]
          /\ tokens[i] \in Tokens /\ LaterPlace(Here, tokens[i])
      BY <2>1, <1>8, <1>9
    <3>2. /\ Here'.filenr = Here.filenr /\ Here'.linenr = Here.linenr
          /\ Here.offset \in Nat /\ Here'.offset = Here.offset + length
      BY <1>1, <1>2 DEF Here
    <3> QED
      BY <1>1, <3>1, <3>2 DEF LaterPlace, Tokens
  <2>2. CASE i = Len(tokens) + 1
    BY <2>2, <1>1, <1>2, <1>8 DEF Here, LaterPlace
  <2> QED
    BY <2>1, <2>2, <1>8
<1>12. PlacesGrow'
  <2> SUFFICES ASSUME NEW i \in DOMAIN tokens', NEW j \in DOMAIN tokens', i < j
               PROVE  LaterPlace(tokens'[j], tokens'[i])
    BY DEF PlacesGrow, LaterPlace
  <2>1. i \in DOMAIN tokens
    BY <1>8
  <2>2. CASE j \in DOMAIN tokens
    BY <2>1, <2>2, <1>8 DEF ScannerInv, PlacesGrow
  <2>3. CASE j = Len(tokens) + 1
    BY <2>1, <2>3, <1>8, <1>10
  <2> QED
    BY <2>2, <2>3, <1>8
<1> QED
  BY <1>6, <1>7, <1>11, <1>12 DEF ScannerInv, AllPassed

-----------------------------------------------------------------------------

LEMMA ScannerInvHolds == ScannerSpec => []ScannerInv
<1>1. ScannerInit => ScannerInv
  BY ScannerAssumption
  DEF ScannerInit, ScannerInv, ScannerTypeOK, InFile, AllPassed, PlacesGrow
<1>2. ScannerInv /\ [ScannerNext]_scannerVars => ScannerInv'
  <2> SUFFICES ASSUME ScannerInv, [ScannerNext]_scannerVars
               PROVE  ScannerInv'
    OBVIOUS
  <2>1. /\ text \in Seq(Items)
        /\ scan_linenr \in Int /\ scan_offset \in Nat
        /\ scanner_errors \in 0..MaxErrors
        /\ tokens \in Seq(Tokens)
        /\ included_filenames \in Seq(FileName)
        /\ Length \subseteq Nat /\ MarkerLine \subseteq Int
        /\ MaxErrors \in Nat
    BY ScannerAssumption DEF ScannerInv, ScannerTypeOK
  <2>2. ASSUME NEW length \in Length, yylval_token(length)
        PROVE  ScannerInv'
    BY <2>2, TokenStep
  <2>3. ASSUME NEW length \in Length, Blank(length)
        PROVE  ScannerInv'
    <3>1. text' \in Seq(Items) /\ included_filenames # <<>>
      BY <2>3, Matched, ItemsMatched DEF Blank
    <3>2. /\ scan_offset' \in Nat /\ scan_offset' >= scan_offset
          /\ UNCHANGED <<scan_linenr, included_filenames, scanner_errors,
                         tokens>>
      BY <2>1, <2>3 DEF Blank, scanner_useraction
    <3> QED
      BY <2>1, <3>1, <3>2, StillGrowing
      DEF ScannerInv, ScannerTypeOK, InFile
  <2>4. ASSUME NEW length \in Length, scanner_invalidtoken(length)
        PROVE  ScannerInv'
    <3>1. text' \in Seq(Items) /\ included_filenames # <<>>
      BY <2>4, Matched, ItemsMatched DEF scanner_invalidtoken
    <3>2. /\ scan_offset' \in Nat /\ scan_offset' >= scan_offset
          /\ scanner_errors' \in 0..MaxErrors
          /\ UNCHANGED <<scan_linenr, included_filenames, tokens>>
      BY <2>1, <2>4 DEF scanner_invalidtoken, scanner_useraction
    <3> QED
      BY <2>1, <3>1, <3>2, StillGrowing
      DEF ScannerInv, ScannerTypeOK, InFile
  <2>5. CASE scanner_newline
    <3>1. text' \in Seq(Items) /\ included_filenames # <<>>
      BY <2>5, Matched, ItemsMatched DEF scanner_newline
    <3>2. /\ scan_linenr' = scan_linenr + 1 /\ scan_offset' = 0
          /\ UNCHANGED <<included_filenames, scanner_errors, tokens>>
      BY <2>5 DEF scanner_newline
    <3> QED
      BY <2>1, <3>1, <3>2, StillGrowing
      DEF ScannerInv, ScannerTypeOK, InFile
  <2>6. ASSUME NEW line \in MarkerLine, NEW file \in FileName,
               scanner_include(line, file)
        PROVE  ScannerInv'
    <3>1. text' \in Seq(Items)
      BY <2>6, Matched, ItemsMatched DEF scanner_include
    <3>2. /\ included_filenames' = Append(included_filenames, file)
          /\ scan_linenr' = line - 1 /\ scan_offset' = 0
          /\ UNCHANGED <<scanner_errors, tokens>>
      BY <2>6 DEF scanner_include, scanner_newfilename
    <3>3. /\ included_filenames' \in Seq(FileName)
          /\ Len(included_filenames') > Len(included_filenames)
          /\ included_filenames' # <<>>
          /\ scan_linenr' \in Int
      BY <2>1, <3>2
    <3> QED
      BY <2>1, <3>1, <3>2, <3>3, StillGrowing
      DEF ScannerInv, ScannerTypeOK, InFile
  <2>7. CASE scanner_include_invalid
    <3>1. text' \in Seq(Items) /\ included_filenames # <<>>
      BY <2>7, Matched, ItemsMatched DEF scanner_include_invalid
    <3>2. /\ scan_linenr' = scan_linenr + 1 /\ scan_offset' = 0
          /\ UNCHANGED <<included_filenames, scanner_errors, tokens>>
      BY <2>7 DEF scanner_include_invalid
    <3> QED
      BY <2>1, <3>1, <3>2, StillGrowing
      DEF ScannerInv, ScannerTypeOK, InFile
  <2>8. CASE yyerror
    <3>1. /\ scanner_errors' \in 0..MaxErrors
          /\ UNCHANGED <<text, scan_linenr, scan_offset, included_filenames,
                         tokens>>
      BY <2>1, <2>8 DEF yyerror
    <3> QED
      BY <2>1, <3>1, StillGrowing DEF ScannerInv, ScannerTypeOK, InFile
  <2>9. CASE UNCHANGED scannerVars
    BY <2>1, <2>9, StillGrowing
    DEF ScannerInv, ScannerTypeOK, InFile, scannerVars
  <2> QED
    BY <2>2, <2>3, <2>4, <2>5, <2>6, <2>7, <2>8, <2>9 DEF ScannerNext
<1> QED
  BY <1>1, <1>2, PTL DEF ScannerSpec

(* The state of the scanner and the places of tokens keep their types:     *)
(* file numbers and offsets are never negative.                            *)
THEOREM ScannerTypeCorrect == ScannerSpec => []ScannerTypeOK
<1>1. ScannerInv => ScannerTypeOK
  BY DEF ScannerInv
<1> QED
  BY <1>1, ScannerInvHolds, PTL

(* Of two tokens the later one in the text has the greater place, so the   *)
(* labels the emitter makes of places are unique.                          *)
THEOREM PlacesDiffer == ScannerSpec => []PlacesGrow
<1>1. ScannerInv => PlacesGrow
  BY DEF ScannerInv
<1> QED
  BY <1>1, ScannerInvHolds, PTL

-----------------------------------------------------------------------------
(* Lines.  What is presumed of item i, as predicates of the text s.        *)

BeforeIn(s, i, kinds) == {j \in 1..i - 1 : s[j].what \in kinds}
MarkerIn(s, i) == Max(BeforeIn(s, i, {"marker"}))
BehindIn(s, i, kinds) == {j \in BeforeIn(s, i, kinds) : j > MarkerIn(s, i)}
LineIn(s, i) ==
  s[MarkerIn(s, i)].line + Cardinality(BehindIn(s, i, {"newline"})) - 1

(* There is a last marker before item i. *)
Marked(s, i) ==
  \E m \in BeforeIn(s, i, {"marker"}) :
    \A k \in BeforeIn(s, i, {"marker"}) : m >= k

(* The markers say that item i stands in this line of this file.           *)
TrueAt(s, files, i, filenr, linenr) ==
  /\ Marked(s, i)
  /\ filenr + 1 \in 1..Len(files)
  /\ files[filenr + 1] = s[MarkerIn(s, i)].file
  /\ BehindIn(s, i, {"directive"}) = {} => linenr = LineIn(s, i)

(* So it is of all tokens, and of where the scanner is.                    *)
LinesInv ==
  /\ text # <<>> =>
       TrueAt(text, included_filenames, Len(text) + 1,
              Len(included_filenames) - 1, scan_linenr)
  /\ \A j \in DOMAIN tokens :
       /\ tokens[j].item \in 1..Len(text)
       /\ TrueAt(text, included_filenames, tokens[j].item, tokens[j].filenr,
                 tokens[j].linenr)

LEMMA MarkerIs ==
  ASSUME NEW s, NEW i, Marked(s, i)
  PROVE  /\ MarkerIn(s, i) \in BeforeIn(s, i, {"marker"})
         /\ \A k \in BeforeIn(s, i, {"marker"}) : MarkerIn(s, i) >= k
BY DEF Marked, MarkerIn, Max

LEMMA MarkerUnique ==
  ASSUME NEW s, NEW i \in Nat, NEW m \in BeforeIn(s, i, {"marker"}),
         \A k \in BeforeIn(s, i, {"marker"}) : m >= k
  PROVE  Marked(s, i) /\ MarkerIn(s, i) = m
<1>1. Marked(s, i)
  BY DEF Marked
<1>2. MarkerIn(s, i) >= m /\ m >= MarkerIn(s, i)
  BY <1>1, MarkerIs
<1>3. m \in Int /\ MarkerIn(s, i) \in Int
  BY <1>1, MarkerIs DEF BeforeIn
<1> QED BY <1>1, <1>2, <1>3

LEMMA Appended ==
  ASSUME NEW s \in Seq(Items), NEW x \in Items
  PROVE  /\ Len(s) \in Nat /\ Append(s, x)[Len(s) + 1] = x
         /\ \A j \in 1..Len(s) : Append(s, x)[j] = s[j]
OBVIOUS

(* What comes later in the text does not change where an item stands.      *)
LEMMA EarlierStays ==
  ASSUME NEW s \in Seq(Items), NEW x \in Items, NEW i \in 1..Len(s) + 1,
         NEW files, NEW more, NEW filenr \in Int, NEW linenr,
         Len(files) \in Nat, Len(more) \in Nat, Len(files) <= Len(more),
         \A k \in 1..Len(files) : more[k] = files[k],
         TrueAt(s, files, i, filenr, linenr)
  PROVE  TrueAt(Append(s, x), more, i, filenr, linenr)
<1> DEFINE s2 == Append(s, x)
<1>1. Len(s) \in Nat /\ \A j \in 1..Len(s) : s2[j] = s[j]
  BY Appended
<1> HIDE DEF s2
<1>2. \A j \in 1..i - 1 : j \in 1..Len(s)
  BY <1>1
<1>3. \A kinds : BeforeIn(s2, i, kinds) = BeforeIn(s, i, kinds)
  BY <1>1, <1>2 DEF BeforeIn
<1>4. /\ MarkerIn(s2, i) = MarkerIn(s, i)
      /\ \A kinds : BehindIn(s2, i, kinds) = BehindIn(s, i, kinds)
  BY <1>3 DEF MarkerIn, BehindIn
<1>5. Marked(s, i)
  BY DEF TrueAt
<1>6. s2[MarkerIn(s, i)] = s[MarkerIn(s, i)]
  BY <1>1, <1>2, <1>5, MarkerIs DEF BeforeIn
<1>7. LineIn(s2, i) = LineIn(s, i)
  BY <1>4, <1>6 DEF LineIn
<1>8. Marked(s2, i)
  BY <1>3, <1>5 DEF Marked
<1>9. filenr + 1 \in 1..Len(more) /\ more[filenr + 1] = files[filenr + 1]
  BY DEF TrueAt
<1>10. TrueAt(s2, more, i, filenr, linenr)
  BY <1>4, <1>6, <1>7, <1>8, <1>9 DEF TrueAt
<1> QED BY <1>10 DEF s2

(* Behind a marker a new line is presumed. *)
LEMMA BehindMarker ==
  ASSUME NEW s \in Seq(Items), NEW x \in Items, x.what = "marker",
         x.line \in Int
  PROVE  LET n == Len(s) + 1 IN
         /\ Marked(Append(s, x), n + 1)
         /\ Append(s, x)[MarkerIn(Append(s, x), n + 1)] = x
         /\ LineIn(Append(s, x), n + 1) = x.line - 1
<1> DEFINE s2 == Append(s, x)
           n == Len(s) + 1
<1>1. n \in Nat \ {0} /\ s2[n] = x
  BY Appended
<1> HIDE DEF s2, n
<1>2. /\ n \in BeforeIn(s2, n + 1, {"marker"})
      /\ \A kinds : \A k \in BeforeIn(s2, n + 1, kinds) : n >= k
  BY <1>1 DEF BeforeIn
<1>3. Marked(s2, n + 1) /\ MarkerIn(s2, n + 1) = n
  <2>1. n + 1 \in Nat
    BY <1>1
  <2> DEFINE i == n + 1
  <2>2. /\ i \in Nat /\ n \in BeforeIn(s2, i, {"marker"})
        /\ \A k \in BeforeIn(s2, i, {"marker"}) : n >= k
    BY <1>2, <2>1
  <2> HIDE DEF i
  <2>3. Marked(s2, i) /\ MarkerIn(s2, i) = n
    BY <2>2, MarkerUnique
  <2> QED BY <2>3 DEF i
<1>4. BehindIn(s2, n + 1, {"newline"}) = {}
  <2> SUFFICES ASSUME NEW k \in BeforeIn(s2, n + 1, {"newline"}), k > n
               PROVE  FALSE
    BY <1>3 DEF BehindIn
  <2>1. k \in Int /\ n >= k
    BY <1>1, <1>2 DEF BeforeIn
  <2> QED BY <1>1, <2>1
<1>5. LineIn(s2, n + 1) = x.line - 1
  <2>1. Cardinality(BehindIn(s2, n + 1, {"newline"})) = 0
    BY <1>4, FS_EmptySet
  <2>2. LineIn(s2, n + 1) = x.line + 0 - 1
    BY <1>1, <1>3, <2>1 DEF LineIn
  <2> DEFINE line == x.line
  <2>3. line \in Int /\ LineIn(s2, n + 1) = line + 0 - 1
    BY <2>2
  <2> HIDE DEF line
  <2>4. LineIn(s2, n + 1) = line - 1
    BY <2>3
  <2> QED BY <2>4 DEF line
<1>6. Marked(s2, n + 1) /\ s2[MarkerIn(s2, n + 1)] = x
  BY <1>1, <1>3
<1> QED BY <1>5, <1>6 DEF s2, n

(* Behind anything else, the line that was presumed, or the next.          *)
LEMMA BehindOther ==
  ASSUME NEW s \in Seq(Items), NEW x \in Items, x.what # "marker",
         Marked(s, Len(s) + 1), s[MarkerIn(s, Len(s) + 1)].line \in Int
  PROVE  LET n == Len(s) + 1
             t == Append(s, x)
         IN
         /\ Marked(t, n + 1)
         /\ t[MarkerIn(t, n + 1)] = s[MarkerIn(s, n)]
         /\ LineIn(t, n + 1)
              = LineIn(s, n) + IF x.what = "newline" THEN 1 ELSE 0
         /\ BehindIn(s, n, {"directive"}) \subseteq
              BehindIn(t, n + 1, {"directive"})
         /\ x.what = "directive" => BehindIn(t, n + 1, {"directive"}) # {}
<1> DEFINE t == Append(s, x)
           n == Len(s) + 1
           o == n + 1
           m == MarkerIn(s, n)
<1>1. /\ n \in Nat /\ o \in Nat /\ n \in 1..o - 1 /\ t[n] = x
      /\ \A j \in 1..n - 1 : t[j] = s[j]
      /\ \A j \in 1..o - 1 : j \in 1..n - 1 \/ j = n
      /\ \A j \in 1..n - 1 : j \in 1..o - 1 /\ j < n
  BY Appended
<1>2. /\ m \in BeforeIn(s, n, {"marker"})
      /\ \A k \in BeforeIn(s, n, {"marker"}) : m >= k
  BY MarkerIs
<1> HIDE DEF t, n, o, m
<1>3. \A kinds : BeforeIn(t, o, kinds)
                   = BeforeIn(s, n, kinds) \cup IF x.what \in kinds THEN {n}
                                                ELSE {}
  BY <1>1 DEF BeforeIn
<1>4. BeforeIn(t, o, {"marker"}) = BeforeIn(s, n, {"marker"})
  BY <1>3
<1>5. Marked(t, o) /\ MarkerIn(t, o) = m
  BY <1>1, <1>2, <1>4, MarkerUnique
<1>6. m \in 1..n - 1 /\ t[m] = s[m] /\ n > m
  BY <1>1, <1>2 DEF BeforeIn
<1>7. \A kinds : BehindIn(t, o, kinds)
                   = BehindIn(s, n, kinds) \cup IF x.what \in kinds THEN {n}
                                                ELSE {}
  BY <1>3, <1>5, <1>6 DEF BehindIn, m
<1> DEFINE B == BehindIn(s, n, {"newline"})
<1>8. IsFiniteSet(B) /\ n \notin B
  <2>1. B \in SUBSET (1..n - 1) /\ n \notin 1..n - 1
    BY <1>1 DEF BehindIn, BeforeIn
  <2>2. IsFiniteSet(1..n - 1)
    BY <1>1, FS_Interval
  <2> QED BY <2>1, <2>2, FS_Subset
<1> HIDE DEF B
<1>9. /\ Cardinality(B \cup {n}) = Cardinality(B) + 1
      /\ Cardinality(B) \in Nat
  BY <1>8, FS_AddElement, FS_CardinalityType
<1>10. Cardinality(BehindIn(t, o, {"newline"}))
         = Cardinality(B) + IF x.what = "newline" THEN 1 ELSE 0
  <2>1. CASE x.what = "newline"
    <3>1. BehindIn(t, o, {"newline"}) = B \cup {n}
      BY <1>7, <2>1 DEF B
    <3> QED BY <1>9, <2>1, <3>1
  <2>2. CASE x.what # "newline"
    <3>1. BehindIn(t, o, {"newline"}) = B
      BY <1>7, <2>2 DEF B
    <3> QED BY <1>9, <2>2, <3>1
  <2> QED BY <2>1, <2>2
<1>11. LineIn(t, o) = LineIn(s, n) + IF x.what = "newline" THEN 1 ELSE 0
  <2> DEFINE line == s[m].line
             a == Cardinality(B)
             b == IF x.what = "newline" THEN 1 ELSE 0
  <2>1. LineIn(t, o) = line + (a + b) - 1 /\ LineIn(s, n) = line + a - 1
    BY <1>5, <1>6, <1>10 DEF LineIn, B, m
  <2>2. line \in Int /\ a \in Nat /\ b \in Int
    BY <1>9 DEF m, n
  <2> HIDE DEF line, a, b
  <2>3. LineIn(t, o) = LineIn(s, n) + b
    BY <2>1, <2>2
  <2> QED BY <2>3 DEF b
<1>12. /\ BehindIn(s, n, {"directive"}) \subseteq BehindIn(t, o, {"directive"})
       /\ x.what = "directive" => BehindIn(t, o, {"directive"}) # {}
  BY <1>7
<1> QED BY <1>5, <1>6, <1>11, <1>12 DEF t, n, o, m

(* The line of a marker is a number. *)
LEMMA MarkerLines ==
  ASSUME ScannerTypeOK, NEW i \in 1..Len(text) + 1, Marked(text, i)
  PROVE  text[MarkerIn(text, i)].line \in Int
<1>1. /\ MarkerIn(text, i) \in 1..Len(text)
      /\ text[MarkerIn(text, i)].what = "marker"
  <2>1. Len(text) \in Nat
    BY DEF ScannerTypeOK
  <2> QED BY <2>1, MarkerIs DEF BeforeIn
<1>2. text[MarkerIn(text, i)] \in Items
  BY <1>1 DEF ScannerTypeOK
<1> DEFINE y == text[MarkerIn(text, i)]
<1>3. y \in Items /\ y.what = "marker"
  BY <1>1, <1>2
<1> HIDE DEF y
<1>4. y \in [what : {"marker"}, line : MarkerLine, file : FileName]
  BY <1>3 DEF Items, Directive
<1>5. y.line \in Int
  BY <1>4, ScannerAssumption
<1> QED BY <1>5 DEF y

(* Tokens that were added keep their place. *)
LEMMA TokensStay ==
  ASSUME ScannerTypeOK, LinesInv, NEW x \in Items, text' = Append(text, x),
         included_filenames' \in Seq(FileName),
         Len(included_filenames) <= Len(included_filenames'),
         \A k \in 1..Len(included_filenames) :
           included_filenames'[k] = included_filenames[k]
  PROVE  \A j \in DOMAIN tokens :
           /\ tokens[j].item \in 1..Len(text')
           /\ TrueAt(text', included_filenames', tokens[j].item,
                     tokens[j].filenr, tokens[j].linenr)
<1> SUFFICES ASSUME NEW j \in DOMAIN tokens
             PROVE  /\ tokens[j].item \in 1..Len(text')
                    /\ TrueAt(text', included_filenames', tokens[j].item,
                              tokens[j].filenr, tokens[j].linenr)
  OBVIOUS
<1> DEFINE item == tokens[j].item
           filenr == tokens[j].filenr
           linenr == tokens[j].linenr
<1>1. /\ text \in Seq(Items) /\ Len(text) \in Nat
      /\ Len(included_filenames) \in Nat /\ Len(included_filenames') \in Nat
      /\ Len(text') = Len(text) + 1
      /\ filenr \in Int
  <2>1. tokens[j] \in Tokens
    BY DEF ScannerTypeOK
  <2>2. filenr \in Int
    BY <2>1 DEF Tokens
  <2> HIDE DEF item, filenr, linenr
  <2> QED BY <2>2 DEF ScannerTypeOK
<1>2. /\ item \in 1..Len(text)
      /\ TrueAt(text, included_filenames, item, filenr, linenr)
  BY DEF LinesInv
<1> HIDE DEF item, filenr, linenr
<1>3. item \in 1..Len(text) + 1 /\ item \in 1..Len(text')
  BY <1>1, <1>2
<1>4. TrueAt(text', included_filenames', item, filenr, linenr)
  BY <1>1, <1>2, <1>3, EarlierStays
<1> QED BY <1>3, <1>4 DEF item, filenr, linenr

(* The scanner goes on in a line, or over a newline, or over a directive   *)
(* that is not understood.                                                 *)
LEMMA GoesOn ==
  ASSUME ScannerTypeOK, LinesInv, NEW x \in Items, x.what # "marker",
         Matches(x), UNCHANGED included_filenames,
         \/ x.what = "directive"
         \/ x.what = "newline" /\ scan_linenr' = scan_linenr + 1
         \/ x.what # "newline" /\ UNCHANGED scan_linenr
  PROVE  TrueAt(text', included_filenames', Len(text') + 1,
                Len(included_filenames') - 1, scan_linenr')
<1> DEFINE n == Len(text) + 1
           at == Len(included_filenames) - 1
<1>1. /\ text' = Append(text, x) /\ text # <<>>
      /\ text \in Seq(Items) /\ Len(text) \in Nat
      /\ Len(text') = n /\ n \in 1..Len(text) + 1
      /\ scan_linenr \in Int
  BY DEF Matches, MayFollow, ScannerTypeOK
<1>2. TrueAt(text, included_filenames, n, at, scan_linenr)
  BY <1>1 DEF LinesInv
<1>3. Marked(text, n)
  BY <1>2 DEF TrueAt
<1>4. text[MarkerIn(text, n)].line \in Int
  BY <1>1, <1>3, MarkerLines
<1>5. /\ Marked(text', n + 1)
      /\ text'[MarkerIn(text', n + 1)] = text[MarkerIn(text, n)]
      /\ LineIn(text', n + 1)
           = LineIn(text, n) + IF x.what = "newline" THEN 1 ELSE 0
      /\ BehindIn(text, n, {"directive"}) \subseteq
           BehindIn(text', n + 1, {"directive"})
      /\ x.what = "directive" => BehindIn(text', n + 1, {"directive"}) # {}
  BY <1>1, <1>3, <1>4, BehindOther
<1> HIDE DEF n, at
<1>6. ASSUME BehindIn(text', n + 1, {"directive"}) = {}
      PROVE  scan_linenr' = LineIn(text', n + 1)
  <2>1. BehindIn(text, n, {"directive"}) = {} /\ x.what # "directive"
    BY <1>5, <1>6
  <2>2. scan_linenr = LineIn(text, n)
    BY <1>2, <2>1 DEF TrueAt
  <2> QED BY <1>1, <1>5, <2>1, <2>2
<1>7. TrueAt(text', included_filenames', n + 1, at, scan_linenr')
  BY <1>2, <1>5, <1>6 DEF TrueAt
<1> QED BY <1>1, <1>7 DEF at

(* Every step keeps the tokens and the scanner where the markers say.      *)
LEMMA LinesStep ==
  ASSUME ScannerInv, LinesInv, [ScannerNext]_scannerVars
  PROVE  LinesInv'
<1>1. /\ ScannerTypeOK
      /\ text \in Seq(Items) /\ Len(text) \in Nat
      /\ scan_linenr \in Int
      /\ tokens \in Seq(Tokens)
      /\ included_filenames \in Seq(FileName)
      /\ Len(included_filenames) \in Nat
  BY DEF ScannerInv, ScannerTypeOK
<1> DEFINE placed ==
             TrueAt(text', included_filenames', Len(text') + 1,
                    Len(included_filenames') - 1, scan_linenr')
<1>2. ASSUME NEW x \in Items, x.what # "marker", Matches(x),
             UNCHANGED <<included_filenames, tokens>>,
             \/ x.what = "directive"
             \/ x.what = "newline" /\ scan_linenr' = scan_linenr + 1
             \/ x.what # "newline" /\ UNCHANGED scan_linenr
      PROVE  LinesInv'
  <2>1. placed
    BY <1>1, <1>2, GoesOn
  <2>2. text' = Append(text, x)
    BY <1>2 DEF Matches
  <2>3. \A j \in DOMAIN tokens :
           /\ tokens[j].item \in 1..Len(text')
           /\ TrueAt(text', included_filenames', tokens[j].item,
                     tokens[j].filenr, tokens[j].linenr)
    BY <1>1, <1>2, <2>2, TokensStay
  <2> QED BY <1>2, <2>1, <2>3 DEF LinesInv
<1>3. ASSUME NEW length \in Length, yylval_token(length)
      PROVE  LinesInv'
  <2> DEFINE x == Piece("token", length)
             n == Len(text) + 1
             at == Len(included_filenames) - 1
             t == [item |-> n, filenr |-> at, linenr |-> scan_linenr,
                   offset |-> StartOffset(length)]
  <2>1. /\ x \in Items /\ x.what # "marker" /\ x.what # "newline"
    BY ItemsMatched DEF Piece
  <2>2. /\ Matches(x) /\ tokens' = Append(tokens, t)
        /\ UNCHANGED <<scan_linenr, included_filenames>>
    BY <1>3 DEF yylval_token
  <2>3. text' = Append(text, x) /\ text # <<>>
    BY <2>1, <2>2 DEF Matches, MayFollow
  <2> HIDE DEF x
  <2>4. placed
    BY <1>1, <2>1, <2>2, GoesOn
  <2>5. \A j \in DOMAIN tokens :
           /\ tokens[j].item \in 1..Len(text')
           /\ TrueAt(text', included_filenames', tokens[j].item,
                     tokens[j].filenr, tokens[j].linenr)
    BY <1>1, <2>1, <2>2, <2>3, TokensStay
  <2>6. TrueAt(text', included_filenames', n, at, scan_linenr)
    <3>1. TrueAt(text, included_filenames, n, at, scan_linenr)
      BY <2>3 DEF LinesInv
    <3>2. at \in Int /\ n \in 1..Len(text) + 1
      BY <1>1
    <3> HIDE DEF n, at
    <3> QED BY <1>1, <2>1, <2>2, <2>3, <3>1, <3>2, EarlierStays
  <2>7. n \in 1..Len(text')
    BY <1>1, <2>1, <2>3
  <2>8. /\ t.item = n /\ t.filenr = at /\ t.linenr = scan_linenr
    OBVIOUS
  <2> HIDE DEF t, n, at
  <2>9. ASSUME NEW j \in DOMAIN tokens'
        PROVE  \/ j \in DOMAIN tokens /\ tokens'[j] = tokens[j]
               \/ tokens'[j] = t
    BY <1>1, <2>2
  <2>10. ASSUME NEW j \in DOMAIN tokens'
         PROVE  /\ tokens'[j].item \in 1..Len(text')
                /\ TrueAt(text', included_filenames', tokens'[j].item,
                          tokens'[j].filenr, tokens'[j].linenr)
    BY <2>5, <2>6, <2>7, <2>8, <2>9
  <2> QED BY <2>4, <2>10 DEF LinesInv
<1>4. ASSUME NEW length \in Length, Blank(length)
      PROVE  LinesInv'
  <2> DEFINE x == Piece("blank", length)
  <2>1. x \in Items /\ x.what # "marker" /\ x.what # "newline"
    BY ItemsMatched DEF Piece
  <2>2. /\ Matches(x)
        /\ UNCHANGED <<scan_linenr, included_filenames, tokens>>
    BY <1>4 DEF Blank
  <2> HIDE DEF x
  <2> QED BY <1>2, <2>1, <2>2
<1>5. ASSUME NEW length \in Length, scanner_invalidtoken(length)
      PROVE  LinesInv'
  <2> DEFINE x == Piece("invalid", length)
  <2>1. x \in Items /\ x.what # "marker" /\ x.what # "newline"
    BY ItemsMatched DEF Piece
  <2>2. /\ Matches(x)
        /\ UNCHANGED <<scan_linenr, included_filenames, tokens>>
    BY <1>5 DEF scanner_invalidtoken
  <2> HIDE DEF x
  <2> QED BY <1>2, <2>1, <2>2
<1>6. CASE scanner_newline
  <2>1. Newline \in Items /\ Newline.what = "newline"
    BY ItemsMatched DEF Newline, Piece
  <2> QED BY <1>2, <1>6, <2>1 DEF scanner_newline
<1>7. ASSUME NEW line \in MarkerLine, NEW file \in FileName,
             scanner_include(line, file)
      PROVE  LinesInv'
  <2> DEFINE x == Marker(line, file)
  <2>1. /\ x \in Items /\ x.what = "marker"
        /\ x.line = line /\ x.file = file /\ x.line \in Int
    BY ItemsMatched, ScannerAssumption DEF Marker
  <2>2. /\ text' = Append(text, x)
        /\ included_filenames' = Append(included_filenames, file)
        /\ scan_linenr' = x.line - 1
        /\ UNCHANGED tokens
    BY <1>7, <2>1 DEF scanner_include, scanner_newfilename, Matches
  <2> HIDE DEF x
  <2>3. /\ included_filenames' \in Seq(FileName)
        /\ Len(included_filenames') = Len(included_filenames) + 1
        /\ included_filenames'[Len(included_filenames) + 1] = x.file
        /\ \A k \in 1..Len(included_filenames) :
              included_filenames'[k] = included_filenames[k]
        /\ Len(text') = Len(text) + 1
    BY <1>1, <2>1, <2>2
  <2>4. /\ Marked(text', Len(text') + 1)
        /\ text'[MarkerIn(text', Len(text') + 1)] = x
        /\ LineIn(text', Len(text') + 1) = x.line - 1
    BY <1>1, <2>1, <2>2, <2>3, BehindMarker
  <2>5. /\ Len(included_filenames') - 1 + 1 = Len(included_filenames')
        /\ Len(included_filenames') \in 1..Len(included_filenames')
        /\ included_filenames'[Len(included_filenames')] = x.file
    BY <1>1, <2>3
  <2>6. placed
    BY <2>2, <2>4, <2>5 DEF TrueAt
  <2>7. \A j \in DOMAIN tokens :
           /\ tokens[j].item \in 1..Len(text')
           /\ TrueAt(text', included_filenames', tokens[j].item,
                     tokens[j].filenr, tokens[j].linenr)
    BY <1>1, <2>1, <2>2, <2>3, TokensStay
  <2> QED BY <2>2, <2>6, <2>7 DEF LinesInv
<1>8. CASE scanner_include_invalid
  <2>1. Directive \in Items /\ Directive.what = "directive"
    BY ItemsMatched DEF Directive
  <2> QED BY <1>2, <1>8, <2>1 DEF scanner_include_invalid
<1>9. CASE yyerror \/ UNCHANGED scannerVars
  BY <1>9 DEF yyerror, scannerVars, LinesInv
<1> QED
  BY <1>3, <1>4, <1>5, <1>6, <1>7, <1>8, <1>9 DEF ScannerNext

(* Every token has the file and, where no directive is misunderstood, the  *)
(* line that the markers before it say, whatever files and lines they name *)
(* and in whatever order: messages, dumps and labels take them from here.  *)
THEOREM LinesAreTrue == ScannerSpec => []LinesTrue
<1>1. ScannerInit => LinesInv
  BY DEF ScannerInit, LinesInv
<1>2. ScannerInv /\ LinesInv /\ [ScannerNext]_scannerVars => LinesInv'
  BY LinesStep
<1>3. LinesInv => LinesTrue
  <2> SUFFICES ASSUME LinesInv, NEW j \in DOMAIN tokens
               PROVE  /\ included_filenames[tokens[j].filenr + 1]
                           = PresumedFile(tokens[j].item)
                      /\ Behind(tokens[j].item, {"directive"}) = {} =>
                           tokens[j].linenr = PresumedLine(tokens[j].item)
    BY DEF LinesTrue, Range
  <2>1. TrueAt(text, included_filenames, tokens[j].item, tokens[j].filenr,
               tokens[j].linenr)
    BY DEF LinesInv
  <2> DEFINE i == tokens[j].item
  <2>2. /\ LastMarker(i) = MarkerIn(text, i)
        /\ \A kinds : Behind(i, kinds) = BehindIn(text, i, kinds)
    BY DEF LastMarker, Before, Behind, MarkerIn, BeforeIn, BehindIn
  <2>3. /\ PresumedFile(i) = text[MarkerIn(text, i)].file
        /\ PresumedLine(i) = LineIn(text, i)
    BY <2>2 DEF PresumedFile, PresumedLine, LineIn
  <2> QED BY <2>1, <2>2, <2>3 DEF TrueAt
<1> QED
  BY <1>1, <1>2, <1>3, ScannerInvHolds, PTL DEF ScannerSpec
=============================================================================
