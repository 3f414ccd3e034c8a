----------------------------- MODULE OclibProofs ------------------------------
(***************************************************************************)
(* What __getw and __getln return and leave unread, and when the assertion *)
(* stops the program, for a buffer of every size and input of every        *)
(* length.  The invariant follows one call through both loops of scan: it  *)
(* says which bytes of the input the call was given lie behind it, and     *)
(* which of them are in the buffer.                                        *)
(***************************************************************************)
EXTENDS Oclib, SequenceTheorems, WellFoundedInduction, TLAPS

(* How many bytes of what it was given the call has read. *)
Read == Len(given) - Len(input)

(* What is not read yet is the end of what was given. *)
EndOf(s, g) ==
  /\ Len(s) <= Len(g)
  /\ s = SubSeq(g, Len(g) - Len(s) + 1, Len(g))

(* The bytes that end what a call of f stores. *)
Stops(f) == IF f = "getw" THEN {space, nl} ELSE {nl}

(* A call of f with the input g stores the bytes p to c, and more. *)
Takes(f, g, p, c) ==
  /\ p \in 1..c
  /\ IF f = "getw"
     THEN g[p] \notin {space, nl} /\ \A i \in 1..p - 1 : g[i] \in {space, nl}
     ELSE p = 1
  /\ \A i \in p + 1..c : g[i] \notin Stops(f)

(* In the first loop: the byte read last is not stored, those before it    *)
(* were blanks of a word.                                                  *)
Skipping ==
  state = "skipping" =>
    /\ function \in {"getw", "getln"}
    /\ Read >= 1 /\ byte = given[Read]
    /\ buffer = <<>>
    /\ IF function = "getw"
       THEN \A i \in 1..Read - 1 : given[i] \in {space, nl}
       ELSE Read = 1

(* In the second loop: all from the first stored byte on but the byte read *)
(* last are in the buffer.                                                 *)
Storing ==
  state = "storing" =>
    /\ function \in {"getw", "getln"}
    /\ Read >= 1 /\ byte = given[Read]
    /\ \E p \in 1..Read : /\ Takes(function, given, p, Read)
                          /\ buffer = SubSeq(given, p, Read - 1)

(* When the assertion failed that byte is in the buffer too. *)
Aborted ==
  state = "aborted" =>
    /\ function \in {"getw", "getln"}
    /\ Len(buffer) = Size
    /\ \E p \in 1..Read : /\ Takes(function, given, p, Read)
                          /\ buffer = SubSeq(given, p, Read)

(* __getw with the input g returns r and leaves i; __getln does.           *)
WordRead(g, i, r) ==
  LET w == From(g, {nul, letter})
      word == UpTo(w, {space, nl})
  IN  IF word = <<>> THEN r = NULL /\ i = <<>>
      ELSE r = strdup(word) /\ i = Behind(w, {space, nl})

LineRead(g, i, r) ==
  LET joined == Head(g) = nl
      line == IF joined THEN Tail(g) ELSE g
  IN  IF g = <<>> THEN r = NULL /\ i = <<>>
      ELSE /\ r = (IF joined THEN <<nl>> ELSE <<>>) \o strdup(UpTo(line, {nl}))
           /\ i = Behind(line, {nl})

Returned ==
  state = "returned" =>
    /\ function = "getw" => WordRead(given, input, result)
    /\ function = "getln" => LineRead(given, input, result)

OclibInv ==
  /\ OclibTypeOK /\ EndOf(input, given)
  /\ Skipping /\ Storing /\ Aborted /\ Returned

-----------------------------------------------------------------------------

(* A nonempty set of numbers has a least one. *)
LEMMA Least ==
  ASSUME NEW I \in SUBSET Nat, I # {}
  PROVE  Min(I) \in I /\ \A j \in I : Min(I) <= j
<1> DEFINE R == OpToRel(<, Nat)
<1>1. IsWellFoundedOn(R, Nat)
  BY NatLessThanWellFounded
<1>2. PICK x \in I : \A y \in I : ~ (<<y, x>> \in R)
  <2> HIDE DEF R
  <2> QED
    BY <1>1, WFMin
<1>3. ASSUME NEW y \in I PROVE x <= y
  <2>1. ~ (<<y, x>> \in R)
    <3> HIDE DEF R
    <3> QED
      BY <1>2
  <2>2. ~ (y < x)
    BY <2>1 DEF OpToRel
  <2> QED
    BY <2>2
<1> HIDE DEF R
<1> QED
  BY <1>3 DEF Min

(* The first index with a byte in S is the one that has no byte in S       *)
(* before it.                                                              *)
LEMMA FirstIs ==
  ASSUME NEW s \in Seq(Byte), NEW S, NEW k \in 1..Len(s) + 1,
         \A i \in 1..k - 1 : s[i] \notin S,
         k <= Len(s) => s[k] \in S
  PROVE  FirstOf(s, S) = k
<1> DEFINE P == {i \in DOMAIN s : s[i] \in S} \cup {Len(s) + 1}
<1>1. P \subseteq Nat /\ k \in P
  OBVIOUS
<1>2. \A i \in P : k <= i
  OBVIOUS
<1>3. \A x \in P : (\A y \in P : x <= y) => x = k
  BY <1>1, <1>2
<1>4. FirstOf(s, S) = CHOOSE x \in P : \A y \in P : x <= y
  BY DEF FirstOf, Min
<1> HIDE DEF P
<1> QED
  BY <1>1, <1>2, <1>3, <1>4

(* Nothing before the k-th byte is in S, so the first that is comes later. *)
LEMMA FirstBehind ==
  ASSUME NEW s \in Seq(Byte), NEW S, NEW k \in 0..Len(s),
         \A i \in 1..k : s[i] \notin S
  PROVE  FirstOf(s, S) \in k + 1..Len(s) + 1
<1> DEFINE P == {i \in DOMAIN s : s[i] \in S} \cup {Len(s) + 1}
<1>1. P \in SUBSET Nat /\ P # {} /\ \A i \in P : i \in k + 1..Len(s) + 1
  OBVIOUS
<1>2. FirstOf(s, S) = Min(P)
  BY DEF FirstOf
<1> HIDE DEF P
<1> QED
  BY <1>1, <1>2, Least

(* strdup returns bytes, and no more than it is given. *)
LEMMA StrdupType ==
  ASSUME NEW s \in Seq(Byte)
  PROVE  strdup(s) \in Seq(Byte)
<1> DEFINE I == {i \in 1..Len(s) : s[i] = nul}
<1>1. CASE I = {}
  BY <1>1 DEF strdup, SelectInSeq
<1>2. CASE I # {}
  <2>1. I \in SUBSET Nat
    OBVIOUS
  <2>2. strdup(s) = IF Min(I) = 0 THEN s ELSE SubSeq(s, 1, Min(I) - 1)
    BY <1>2 DEF strdup, SelectInSeq
  <2>3. \A i \in I : i \in 1..Len(s)
    OBVIOUS
  <2> HIDE DEF I
  <2>4. Min(I) \in 1..Len(s)
    BY <1>2, <2>1, <2>3, Least
  <2> QED
    BY <2>2, <2>4, SubSeqProperties
<1> QED
  BY <1>1, <1>2

(* A part of the end of a sequence is a part of the sequence. *)
LEMMA PartOfEnd ==
  ASSUME NEW s \in Seq(Byte), NEW p \in 1..Len(s) + 1,
         NEW m \in 1..Len(s) - p + 2, NEW n \in m - 1..Len(s) - p + 1
  PROVE  SubSeq(SubSeq(s, p, Len(s)), m, n) = SubSeq(s, p + m - 1, p + n - 1)
<1> DEFINE e == SubSeq(s, p, Len(s))
<1>1. /\ e \in Seq(Byte) /\ Len(e) = Len(s) - p + 1
      /\ \A i \in 1..Len(e) : e[i] = s[p + i - 1]
  BY SubSeqProperties
<1> HIDE DEF e
<1>2. /\ SubSeq(e, m, n) \in Seq(Byte)
      /\ Len(SubSeq(e, m, n)) = n - m + 1
      /\ \A i \in 1..n - m + 1 : SubSeq(e, m, n)[i] = e[m + i - 1]
  <2>1. \A i \in m..n : e[i] \in Byte
    BY <1>1
  <2> QED
    BY <2>1, SubSeqProperties
<1>3. /\ SubSeq(s, p + m - 1, p + n - 1) \in Seq(Byte)
      /\ Len(SubSeq(s, p + m - 1, p + n - 1)) = n - m + 1
      /\ \A i \in 1..n - m + 1 :
           SubSeq(s, p + m - 1, p + n - 1)[i] = s[p + m - 1 + i - 1]
  <2>1. \A i \in p + m - 1..p + n - 1 : s[i] \in Byte
    OBVIOUS
  <2> QED
    BY <2>1, SubSeqProperties
<1>4. \A i \in 1..n - m + 1 :
        SubSeq(e, m, n)[i] = SubSeq(s, p + m - 1, p + n - 1)[i]
  <2> SUFFICES ASSUME NEW i \in 1..n - m + 1
               PROVE  SubSeq(e, m, n)[i]
                        = SubSeq(s, p + m - 1, p + n - 1)[i]
    OBVIOUS
  <2>1. /\ m + i - 1 \in 1..Len(s) - p + 1
        /\ p + (m + i - 1) - 1 = p + m - 1 + i - 1
    OBVIOUS
  <2>2. e[m + i - 1] = s[p + (m + i - 1) - 1]
    BY <1>1, <2>1
  <2>3. SubSeq(e, m, n)[i] = e[m + i - 1]
    BY <1>2
  <2>4. SubSeq(s, p + m - 1, p + n - 1)[i] = s[p + m - 1 + i - 1]
    BY <1>3
  <2> QED BY <2>1, <2>2, <2>3, <2>4
<1>5. SubSeq(e, m, n) = SubSeq(s, p + m - 1, p + n - 1)
  BY <1>2, <1>3, <1>4, SeqEqual
<1> QED
  BY <1>5 DEF e

(* A zero that is not the first byte does not keep the first from being    *)
(* returned.                                                               *)
LEMMA StrdupJoined ==
  ASSUME NEW s \in Seq(Byte), s # <<>>, s[1] # nul
  PROVE  strdup(s) = <<s[1]>> \o strdup(Tail(s))
<1> DEFINE I == {i \in 1..Len(s) : s[i] = nul}
           J == {i \in 1..Len(Tail(s)) : Tail(s)[i] = nul}
<1>1. /\ Tail(s) \in Seq(Byte) /\ Len(Tail(s)) = Len(s) - 1
      /\ \A i \in 1..Len(s) - 1 : Tail(s)[i] = s[i + 1]
      /\ Len(s) \in Nat /\ Len(s) >= 1
  OBVIOUS
<1>2. I \in SUBSET Nat /\ J \in SUBSET Nat /\ 0 \notin I /\ 0 \notin J
  BY <1>1
<1>3. /\ \A i \in I : i - 1 \in J
      /\ \A j \in J : j + 1 \in I
  BY <1>1
<1>4. /\ strdup(s) = IF I = {} THEN s
                     ELSE IF Min(I) = 0 THEN s ELSE SubSeq(s, 1, Min(I) - 1)
      /\ strdup(Tail(s)) = IF J = {} THEN Tail(s)
                           ELSE IF Min(J) = 0 THEN Tail(s)
                                ELSE SubSeq(Tail(s), 1, Min(J) - 1)
  BY DEF strdup, SelectInSeq
<1>5. \A i \in I : i \in 1..Len(s)
  OBVIOUS
<1> HIDE DEF I, J
<1>6. CASE I = {}
  <2>1. J = {}
    BY <1>3, <1>6
  <2>2. <<s[1]>> \o Tail(s) = s
    BY <1>1
  <2> QED
    BY <1>4, <1>6, <2>1, <2>2
<1>7. CASE I # {}
  <2>1. J # {}
    BY <1>3, <1>7
  <2>2. /\ Min(I) \in I /\ \A i \in I : Min(I) <= i
        /\ Min(J) \in J /\ \A j \in J : Min(J) <= j
    BY <1>2, <1>7, <2>1, Least
  <2>3. Min(I) \in Nat /\ Min(J) \in Nat /\ Min(I) <= Len(s)
    <3>1. Min(I) \in 1..Len(s)
      BY <1>5, <2>2
    <3>2. Min(J) \in Nat
      BY <1>2, <2>2
    <3> QED
      BY <1>1, <3>1, <3>2
  <2>4. Min(J) <= Min(I) - 1 /\ Min(I) <= Min(J) + 1
    BY <1>3, <2>2
  <2>5. Min(I) = Min(J) + 1 /\ Min(J) # 0 /\ Min(I) # 0
    BY <1>2, <2>2, <2>3, <2>4
  <2> DEFINE n == Min(J)
  <2>6. n \in 1..Len(s) - 1
    BY <2>3, <2>5
  <2>7. /\ strdup(s) = SubSeq(s, 1, n)
        /\ strdup(Tail(s)) = SubSeq(Tail(s), 1, n - 1)
    BY <1>4, <1>7, <2>1, <2>5, <2>6
  <2> HIDE DEF n
  <2>8. SubSeq(Tail(s), 1, n - 1) = SubSeq(s, 2, n)
    <3>1. Tail(s) = SubSeq(s, 2, Len(s))
      BY TailIsSubSeq
    <3>2. /\ 2 \in 1..Len(s) + 1
          /\ 1 \in 1..Len(s) - 2 + 2 /\ n - 1 \in 1 - 1..Len(s) - 2 + 1
          /\ 2 + 1 - 1 = 2 /\ 2 + (n - 1) - 1 = n
      BY <1>1, <2>6
    <3>3. SubSeq(SubSeq(s, 2, Len(s)), 1, n - 1)
            = SubSeq(s, 2 + 1 - 1, 2 + (n - 1) - 1)
      BY <3>2, PartOfEnd
    <3> QED
      BY <3>1, <3>2, <3>3
  <2>9. SubSeq(s, 1, n) = <<s[1]>> \o SubSeq(s, 2, n)
    <3>1. 1 \in 1..Len(s) /\ n \in 1..Len(s) /\ 1 + 1 = 2
      BY <1>1, <2>6
    <3>2. SubSeq(s, 1, n) = <<s[1]>> \o SubSeq(s, 1 + 1, n)
      BY <3>1, SubSeqRecursiveFirst
    <3> QED
      BY <3>1, <3>2
  <2> QED
    BY <2>7, <2>8, <2>9
<1> QED
  BY <1>6, <1>7

(* What lies up to the first byte in S and what lies behind it, in the     *)
(* sequence that begins at p: nothing from p to c is in S, and c is        *)
(* followed by a byte that is, or by nothing.                              *)
LEMMA CutEnd ==
  ASSUME NEW g \in Seq(Byte), NEW p \in 1..Len(g) + 1,
         NEW c \in p - 1..Len(g), NEW S,
         \A i \in p..c : g[i] \notin S,
         c < Len(g) => g[c + 1] \in S
  PROVE  /\ UpTo(SubSeq(g, p, Len(g)), S) = SubSeq(g, p, c)
         /\ Behind(SubSeq(g, p, Len(g)), S) = SubSeq(g, c + 2, Len(g))
<1> DEFINE w == SubSeq(g, p, Len(g))
           k == c - p + 2
           m == c - p + 3
<1>1. /\ Len(g) \in Nat /\ p \in Int /\ c \in Int /\ k \in Int /\ m \in Int
      /\ k = c - p + 2 /\ m = k + 1
  OBVIOUS
<1>2. /\ w \in Seq(Byte) /\ Len(w) = Len(g) - p + 1
      /\ \A i \in 1..Len(w) : w[i] = g[p + i - 1]
  <2>1. \A i \in p..Len(g) : g[i] \in Byte
    OBVIOUS
  <2>2. /\ w \in Seq(Byte)
        /\ Len(w) = IF p <= Len(g) THEN Len(g) - p + 1 ELSE 0
        /\ \A i \in 1..Len(g) - p + 1 : w[i] = g[p + i - 1]
    BY <1>1, <2>1, SubSeqProperties
  <2>3. Len(w) = Len(g) - p + 1
    <3> HIDE DEF w
    <3> QED
      BY <1>1, <2>2
  <2> HIDE DEF w
  <2> QED
    BY <2>2, <2>3
<1>3. FirstOf(w, S) = k
  <2>1. k \in 1..Len(w) + 1
    BY <1>1, <1>2
  <2>2. ASSUME NEW i \in 1..k - 1
        PROVE  w[i] \notin S
    <3>1. i \in 1..Len(w) /\ p + i - 1 \in p..c
      BY <1>1, <1>2
    <3> HIDE DEF w
    <3> QED
      BY <1>2, <3>1
  <2>3. ASSUME k <= Len(w)
        PROVE  w[k] \in S
    <3>1. k \in 1..Len(w) /\ c + 1 = p + k - 1 /\ c < Len(g)
      BY <1>1, <1>2, <2>3
    <3>2. w[k] = g[c + 1]
      <4> HIDE DEF w, k
      <4> QED
        BY <1>2, <3>1
    <3> QED
      BY <3>1, <3>2
  <2> HIDE DEF w, k
  <2> QED
    BY <1>2, <2>1, <2>2, <2>3, FirstIs
<1>4. UpTo(w, S) = SubSeq(g, p, c)
  <2>1. 1 \in 1..Len(g) - p + 2 /\ k - 1 \in 1 - 1..Len(g) - p + 1
    BY <1>1
  <2>2. p + 1 - 1 = p /\ p + (k - 1) - 1 = c
    BY <1>1
  <2> HIDE DEF w, k
  <2>3. UpTo(w, S) = SubSeq(w, 1, k - 1)
    BY <1>3 DEF UpTo
  <2>4. SubSeq(SubSeq(g, p, Len(g)), 1, k - 1)
          = SubSeq(g, p + 1 - 1, p + (k - 1) - 1)
    BY <2>1, PartOfEnd
  <2> QED
    BY <2>2, <2>3, <2>4 DEF w
<1>5. Behind(w, S) = SubSeq(g, c + 2, Len(g))
  <2>1. Behind(w, S) = SubSeq(w, m, Len(w))
    <3> HIDE DEF w, k, m
    <3> QED
      BY <1>1, <1>3 DEF Behind
  <2>2. CASE c < Len(g)
    <3>1. /\ m \in 1..Len(g) - p + 2
          /\ Len(g) - p + 1 \in m - 1..Len(g) - p + 1
      BY <1>1, <2>2
    <3>2. p + m - 1 = c + 2 /\ p + (Len(g) - p + 1) - 1 = Len(g)
      BY <1>1
    <3> HIDE DEF m
    <3>3. SubSeq(w, m, Len(g) - p + 1)
            = SubSeq(g, p + m - 1, p + (Len(g) - p + 1) - 1)
      BY <3>1, PartOfEnd
    <3> QED
      BY <1>2, <2>1, <3>2, <3>3
  <2>3. CASE c = Len(g)
    <3>1. /\ m \in Int /\ Len(w) \in Int /\ Len(w) < m
          /\ c + 2 \in Int /\ Len(g) \in Int /\ Len(g) < c + 2
      BY <1>1, <1>2, <2>3
    <3> HIDE DEF w, m
    <3>2. SubSeq(w, m, Len(w)) = <<>> /\ SubSeq(g, c + 2, Len(g)) = <<>>
      BY <3>1, SubSeqEmpty
    <3> QED
      BY <2>1, <3>2
  <2>4. c < Len(g) \/ c = Len(g)
    BY <1>1
  <2> HIDE DEF w
  <2> QED
    BY <2>2, <2>3, <2>4
<1> QED
  BY <1>4, <1>5

(* The word begins at the first byte that is no blank. *)
LEMMA WordBegins ==
  ASSUME NEW g \in Seq(Byte), NEW c \in 1..Len(g), NEW p,
         Takes("getw", g, p, c)
  PROVE  From(g, {nul, letter}) = SubSeq(g, p, Len(g))
<1>1. /\ p \in 1..c /\ g[p] \notin {space, nl}
      /\ \A i \in 1..p - 1 : g[i] \in {space, nl}
      /\ Len(g) \in Nat
  BY DEF Takes
<1>2. \A i \in 1..p - 1 : g[i] \notin {nul, letter}
  BY <1>1, OclibAssumption
<1>3. p \in 1..Len(g) + 1 /\ g[p] \in {nul, letter}
  BY <1>1, OclibAssumption
<1>4. FirstOf(g, {nul, letter}) = p
  BY <1>2, <1>3, FirstIs
<1> QED
  BY <1>4 DEF From

(* What was stored is the next word, and what lies behind it is left.      *)
LEMMA WordTaken ==
  ASSUME NEW g \in Seq(Byte), NEW c \in 1..Len(g), NEW p,
         Takes("getw", g, p, c),
         c < Len(g) => g[c + 1] \in {space, nl}
  PROVE  WordRead(g, SubSeq(g, c + 2, Len(g)), strdup(SubSeq(g, p, c)))
<1>1. /\ p \in 1..c /\ g[p] \notin {space, nl}
      /\ \A i \in p + 1..c : g[i] \notin {space, nl}
      /\ Len(g) \in Nat
  BY DEF Takes, Stops
<1>2. From(g, {nul, letter}) = SubSeq(g, p, Len(g))
  BY WordBegins
<1>3. /\ p \in 1..Len(g) + 1 /\ c \in p - 1..Len(g)
      /\ \A i \in p..c : g[i] \notin {space, nl}
  BY <1>1
<1>4. /\ UpTo(SubSeq(g, p, Len(g)), {space, nl}) = SubSeq(g, p, c)
      /\ Behind(SubSeq(g, p, Len(g)), {space, nl})
           = SubSeq(g, c + 2, Len(g))
  BY <1>3, CutEnd
<1>5. SubSeq(g, p, c) # <<>>
  <2>1. \A i \in p..c : g[i] \in Byte
    BY <1>1
  <2>2. Len(SubSeq(g, p, c)) = c - p + 1
    BY <1>1, <2>1, SubSeqProperties
  <2>3. c - p + 1 # 0
    BY <1>1
  <2> QED
    BY <2>2, <2>3
<1> QED
  BY <1>2, <1>4, <1>5 DEF WordRead

(* Where there are only blanks there is no word. *)
LEMMA NoWord ==
  ASSUME NEW g \in Seq(Byte), \A i \in 1..Len(g) : g[i] \in {space, nl}
  PROVE  WordRead(g, <<>>, NULL)
<1>1. Len(g) \in Nat
  OBVIOUS
<1>2. FirstOf(g, {nul, letter}) = Len(g) + 1
  <2>1. \A i \in 1..Len(g) + 1 - 1 : g[i] \notin {nul, letter}
    BY <1>1, OclibAssumption, Len(g) + 1 - 1 = Len(g)
  <2>2. Len(g) + 1 \in 1..Len(g) + 1 /\ ~ (Len(g) + 1 <= Len(g))
    BY <1>1
  <2> QED
    BY <2>1, <2>2, FirstIs
<1>3. From(g, {nul, letter}) = SubSeq(g, Len(g) + 1, Len(g))
  BY <1>2 DEF From
<1>4. /\ Len(g) + 1 \in 1..Len(g) + 1 /\ Len(g) \in Len(g) + 1 - 1..Len(g)
      /\ \A i \in Len(g) + 1..Len(g) : g[i] \notin {space, nl}
      /\ ~ (Len(g) < Len(g))
  BY <1>1
<1>5. UpTo(SubSeq(g, Len(g) + 1, Len(g)), {space, nl})
        = SubSeq(g, Len(g) + 1, Len(g))
  BY <1>4, CutEnd
<1>6. SubSeq(g, Len(g) + 1, Len(g)) = <<>>
  BY <1>1, SubSeqEmpty
<1> QED
  BY <1>3, <1>5, <1>6 DEF WordRead

(* What was stored is the next line, or an empty one and the line behind   *)
(* it, and what lies behind that is left.                                  *)
LEMMA LineTaken ==
  ASSUME NEW g \in Seq(Byte), NEW c \in 1..Len(g),
         Takes("getln", g, 1, c),
         c < Len(g) => g[c + 1] = nl
  PROVE  LineRead(g, SubSeq(g, c + 2, Len(g)), strdup(SubSeq(g, 1, c)))
<1> DEFINE s == SubSeq(g, 1, c)
<1>1. /\ \A i \in 2..c : g[i] # nl
      /\ Len(g) \in Nat /\ g # <<>> /\ Head(g) = g[1]
  BY DEF Takes, Stops
<1>2. s \in Seq(Byte) /\ Len(s) = c /\ s # <<>> /\ s[1] = g[1]
  <2>1. \A i \in 1..c : g[i] \in Byte
    OBVIOUS
  <2>2. /\ s \in Seq(Byte) /\ Len(s) = IF 1 <= c THEN c - 1 + 1 ELSE 0
        /\ \A i \in 1..c - 1 + 1 : s[i] = g[1 + i - 1]
    BY <2>1, SubSeqProperties
  <2>3. 1 \in 1..c - 1 + 1 /\ 1 + 1 - 1 = 1
    OBVIOUS
  <2>4. Len(s) = c /\ c # 0
    <3> HIDE DEF s
    <3> QED
      BY <2>2
  <2>5. s[1] = g[1]
    <3> HIDE DEF s
    <3> QED
      BY <2>2, <2>3
  <2> HIDE DEF s
  <2> QED
    BY <2>2, <2>4, <2>5
<1>3. CASE Head(g) = nl
  <2>1. Tail(g) = SubSeq(g, 2, Len(g))
    BY <1>1, TailIsSubSeq
  <2>2. /\ UpTo(SubSeq(g, 2, Len(g)), {nl}) = SubSeq(g, 2, c)
        /\ Behind(SubSeq(g, 2, Len(g)), {nl}) = SubSeq(g, c + 2, Len(g))
    <3>1. /\ 2 \in 1..Len(g) + 1 /\ c \in 2 - 1..Len(g)
          /\ \A i \in 2..c : g[i] \notin {nl}
          /\ c < Len(g) => g[c + 1] \in {nl}
      BY <1>1
    <3> QED
      BY <3>1, CutEnd
  <2>3. Tail(s) = SubSeq(g, 2, c)
    <3>1. 1 \in 1..Len(g) /\ c \in 1..Len(g) /\ 1 + 1 = 2
      BY <1>1
    <3>2. Tail(SubSeq(g, 1, c)) = SubSeq(g, 1 + 1, c)
      BY <3>1, HeadTailOfSubSeq
    <3> QED
      BY <3>1, <3>2
  <2>4. s[1] = nl /\ nl # nul
    BY <1>1, <1>2, <1>3, OclibAssumption
  <2>5. strdup(s) = <<nl>> \o strdup(Tail(s))
    <3> HIDE DEF s
    <3> QED
      BY <1>2, <2>4, StrdupJoined
  <2> QED
    BY <1>1, <1>3, <2>1, <2>2, <2>3, <2>5 DEF LineRead
<1>4. CASE Head(g) # nl
  <2>1. SubSeq(g, 1, Len(g)) = g
    BY SubSeqFull
  <2>2. /\ UpTo(SubSeq(g, 1, Len(g)), {nl}) = s
        /\ Behind(SubSeq(g, 1, Len(g)), {nl}) = SubSeq(g, c + 2, Len(g))
    <3>1. \A i \in 1..c : g[i] \notin {nl}
      BY <1>1, <1>4
    <3>2. /\ 1 \in 1..Len(g) + 1 /\ c \in 1 - 1..Len(g)
          /\ c < Len(g) => g[c + 1] \in {nl}
      BY <1>1
    <3> QED
      BY <3>1, <3>2, CutEnd
  <2>3. <<>> \o strdup(s) = strdup(s)
    BY <1>2, StrdupType, ConcatEmptySeq
  <2> QED
    BY <1>1, <1>4, <2>1, <2>2, <2>3 DEF LineRead
<1> QED
  BY <1>3, <1>4

(* getchar takes the next byte of what the call was given, if there is one.*)
LEMMA ReadsNext ==
  ASSUME input \in Seq(Byte), NEW g \in Seq(Byte), EndOf(input, g), getchar
  PROVE  /\ EndOf(input', g) /\ input' \in Seq(Byte)
         /\ Len(g) \in Nat /\ Len(input) \in 0..Len(g)
         /\ \/ /\ input = <<>> /\ Len(input) = 0 /\ Len(input') = 0
               /\ byte' = EOF /\ input' = <<>>
            \/ /\ Len(input) >= 1 /\ Len(input') = Len(input) - 1
               /\ byte' = g[Len(g) - Len(input) + 1]
               /\ byte' \in Byte /\ byte' # EOF
<1>1. Len(g) \in Nat /\ Len(input) \in Nat /\ Len(input) <= Len(g)
  BY DEF EndOf
<1>2. CASE input = <<>>
  BY <1>1, <1>2 DEF getchar
<1>3. CASE input # <<>>
  <2>1. Len(input) >= 1 /\ byte' = Head(input) /\ input' = Tail(input)
    BY <1>1, <1>3 DEF getchar
  <2>2. /\ Tail(input) \in Seq(Byte) /\ Len(Tail(input)) = Len(input) - 1
        /\ Head(input) \in Byte
    BY <1>3, HeadTailProperties
  <2>3. input = SubSeq(g, Len(g) - Len(input) + 1, Len(g))
    BY DEF EndOf
  <2> DEFINE m == Len(g) - Len(input) + 1
             n == Len(g)
  <2>4. m \in 1..Len(g) /\ n \in m..Len(g)
        /\ m + 1 = Len(g) - (Len(input) - 1) + 1
    BY <1>1, <2>1
  <2>5. Head(input) = g[m] /\ Tail(input) = SubSeq(g, m + 1, n)
    <3>1. input = SubSeq(g, m, n)
      BY <2>3
    <3> HIDE DEF m, n
    <3> QED
      BY <2>4, <3>1, HeadTailOfSubSeq
  <2>6. EndOf(input', g)
    <3>1. Len(input') = Len(input) - 1
      BY <2>1, <2>2
    <3>2. input' = SubSeq(g, Len(g) - (Len(input) - 1) + 1,
                          Len(g))
      BY <2>1, <2>4, <2>5
    <3> QED
      BY <1>1, <3>1, <3>2 DEF EndOf
  <2> QED
    BY <1>1, <2>1, <2>2, <2>5, <2>6, OclibAssumption DEF EOF
<1> QED
  BY <1>2, <1>3

-----------------------------------------------------------------------------

(* What is read by a call with nothing to read is right. *)
LEMMA NothingRead == WordRead(<<>>, <<>>, NULL) /\ LineRead(<<>>, <<>>, NULL)
<1>1. WordRead(<<>>, <<>>, NULL)
  <2>1. <<>> \in Seq(Byte) /\ \A i \in 1..Len(<<>>) : <<>>[i] \in {space, nl}
    OBVIOUS
  <2> QED
    BY <2>1, NoWord
<1> QED
  BY <1>1 DEF LineRead

(* All of the input is the end of it. *)
LEMMA AllIsEnd ==
  ASSUME NEW s \in Seq(Byte)
  PROVE  EndOf(s, s)
<1>1. Len(s) \in Nat /\ SubSeq(s, 1, Len(s)) = s
  BY SubSeqFull
<1>2. Len(s) - Len(s) + 1 = 1
  BY <1>1
<1> QED
  BY <1>1, <1>2 DEF EndOf

(* __getc is not asked for a word or a line. *)
LEMMA GetcStep ==
  ASSUME OclibInv, __getc
  PROVE  OclibInv'
<1>1. input \in Seq(Byte) /\ EndOf(input, input) /\ getchar
  BY AllIsEnd DEF OclibInv, OclibTypeOK, __getc
<1>2. EndOf(input', input) /\ input' \in Seq(Byte) /\ byte' \in Byte \cup {EOF}
  BY <1>1, ReadsNext
<1>3. /\ state' = "returned" /\ function' = "getc" /\ given' = input
      /\ result' = byte' /\ UNCHANGED buffer /\ state = "returned"
  BY DEF __getc
<1>4. OclibTypeOK'
  BY <1>1, <1>2, <1>3 DEF OclibInv, OclibTypeOK, EOF
<1>5. EndOf(input, given)'
  BY <1>2, <1>3
<1> QED
  BY <1>3, <1>4, <1>5 DEF OclibInv, Skipping, Storing, Aborted, Returned

(* A call that reads a first byte has read one. *)
LEMMA ScanStep ==
  ASSUME OclibInv, NEW f \in {"getw", "getln"}, Scan(f)
  PROVE  OclibInv'
<1>1. input \in Seq(Byte) /\ EndOf(input, input) /\ getchar
  BY AllIsEnd DEF OclibInv, OclibTypeOK, Scan
<1>2. /\ state = "returned" /\ function' = f /\ given' = input
      /\ buffer' = <<>> /\ Size \in Nat /\ Size >= 1
  BY OclibAssumption DEF Scan
<1>3. /\ EndOf(input', input) /\ input' \in Seq(Byte)
      /\ Len(input) \in Nat
      /\ \/ /\ input = <<>> /\ byte' = EOF /\ input' = <<>>
         \/ /\ Len(input) >= 1 /\ Len(input') = Len(input) - 1
            /\ byte' = input[Len(input) - Len(input) + 1]
            /\ byte' \in Byte /\ byte' # EOF
  BY <1>1, ReadsNext
<1>4. EndOf(input, given)'
  BY <1>2, <1>3
<1>5. CASE byte' = EOF
  <2>1. /\ input = <<>> /\ input' = <<>>
        /\ result' = NULL /\ state' = "returned"
    BY <1>2, <1>3, <1>5 DEF Scan
  <2>2. OclibTypeOK'
    BY <1>1, <1>2, <1>3, <1>5, <2>1 DEF OclibInv, OclibTypeOK
  <2>3. Returned'
    BY <1>2, <2>1, NothingRead DEF Returned
  <2> QED
    BY <1>4, <2>1, <2>2, <2>3 DEF OclibInv, Skipping, Storing, Aborted
<1>6. CASE byte' # EOF
  <2>1. state' = "skipping" /\ UNCHANGED result
    BY <1>6 DEF Scan
  <2>2. OclibTypeOK'
    BY <1>1, <1>2, <1>3, <1>6, <2>1 DEF OclibInv, OclibTypeOK
  <2>3. /\ Len(input) - Len(input') = 1 /\ byte' = input[1]
        /\ Len(input) - Len(input) + 1 = 1
    BY <1>3, <1>6
  <2>4. Read' = 1 /\ byte' = given'[Read']
    BY <1>2, <2>3 DEF Read
  <2>5. Skipping'
    <3>1. \A i \in 1..Read' - 1 : FALSE
      BY <2>4
    <3> QED
      BY <1>2, <2>4, <3>1 DEF Skipping
  <2> QED
    BY <1>4, <2>1, <2>2, <2>5 DEF OclibInv, Storing, Aborted, Returned
<1> QED
  BY <1>5, <1>6

(* One round of the first loop. *)
LEMMA SkipStep ==
  ASSUME OclibInv, Skip
  PROVE  OclibInv'
<1>1. /\ input \in Seq(Byte) /\ given \in Seq(Byte) /\ EndOf(input, given)
      /\ state = "skipping" /\ function \in {"getw", "getln"}
      /\ Read >= 1 /\ byte = given[Read] /\ buffer = <<>>
      /\ IF function = "getw"
         THEN \A i \in 1..Read - 1 : given[i] \in {space, nl}
         ELSE Read = 1
      /\ UNCHANGED <<function, buffer, given>>
      /\ byte \in Byte \cup {EOF}
  BY DEF OclibInv, OclibTypeOK, Skipping, Skip
<1>2. /\ Len(given) \in Nat /\ Len(input) \in Nat
      /\ Read \in 1..Len(given) /\ Read = Len(given) - Len(input)
  BY <1>1 DEF EndOf, Read
<1>3. CASE ~ skipover(byte)
  <2>1. state' = "storing" /\ UNCHANGED <<input, byte, result>>
    BY <1>3 DEF Skip
  <2>2. function = "getw" => byte \notin {space, nl}
    BY <1>3 DEF skipover, isspace
  <2>3. OclibTypeOK'
    BY <1>1, <2>1 DEF OclibInv, OclibTypeOK
  <2> DEFINE p == Read
  <2>4. Takes(function, given, p, Read)
    <3>1. p \in 1..Read /\ \A i \in p + 1..Read : FALSE
      BY <1>2
    <3> QED
      BY <1>1, <2>2, <3>1 DEF Takes
  <2>5. SubSeq(given, p, Read - 1) = <<>>
    <3>1. p \in Int /\ Read - 1 \in Int /\ Read - 1 < p
      BY <1>2
    <3> QED
      BY <3>1, SubSeqEmpty
  <2>6. Read' = Read
    BY <1>1, <2>1 DEF Read
  <2>7. p \in 1..Read
    BY <1>2
  <2>8. Storing'
    BY <1>1, <2>1, <2>4, <2>5, <2>6, <2>7 DEF Storing
  <2>9. EndOf(input, given)'
    BY <1>1, <2>1
  <2> QED
    BY <2>1, <2>3, <2>8, <2>9 DEF OclibInv, Skipping, Aborted, Returned
<1>4. CASE skipover(byte)
  <2>1. function = "getw" /\ byte \in {space, nl}
    BY <1>4 DEF skipover, isspace, isfalse
  <2>2. getchar
    BY <1>4 DEF Skip
  <2>3. \A i \in 1..Read : given[i] \in {space, nl}
    <3> SUFFICES ASSUME NEW i \in 1..Read
                 PROVE  given[i] \in {space, nl}
      OBVIOUS
    <3>1. i = Read \/ i \in 1..Read - 1
      BY <1>2
    <3> QED
      BY <1>1, <2>1, <3>1
  <2>4. /\ EndOf(input', given) /\ input' \in Seq(Byte)
        /\ \/ /\ input = <<>> /\ Len(input) = 0
              /\ byte' = EOF /\ input' = <<>>
           \/ /\ Len(input) >= 1 /\ Len(input') = Len(input) - 1
              /\ byte' = given[Len(given) - Len(input) + 1]
              /\ byte' \in Byte /\ byte' # EOF
    BY <1>1, <2>2, ReadsNext
  <2>5. EndOf(input, given)'
    BY <1>1, <2>4
  <2>6. CASE byte' = EOF
    <3>1. state' = "returned" /\ result' = NULL /\ input' = <<>>
      BY <1>4, <2>4, <2>6 DEF Skip
    <3>2. Read = Len(given)
      BY <1>2, <2>4, <2>6
    <3>3. WordRead(given, <<>>, NULL)
      BY <1>1, <2>3, <3>2, NoWord
    <3>4. OclibTypeOK'
      BY <1>1, <2>4, <2>6, <3>1 DEF OclibInv, OclibTypeOK
    <3>5. Returned'
      BY <1>1, <2>1, <3>1, <3>3 DEF Returned
    <3> QED
      BY <2>5, <3>1, <3>4, <3>5 DEF OclibInv, Skipping, Storing, Aborted
  <2>7. CASE byte' # EOF
    <3>1. UNCHANGED <<state, result>>
      BY <1>4, <2>7 DEF Skip
    <3>2. Read' = Read + 1 /\ byte' = given[Read + 1]
      <4>1. Read' = Len(given) - (Len(input) - 1)
        BY <1>1, <2>4, <2>7 DEF Read
      <4>2. byte' = given[Len(given) - Len(input) + 1]
        BY <2>4, <2>7
      <4> QED
        BY <1>2, <4>1, <4>2
    <3>3. OclibTypeOK'
      BY <1>1, <2>4, <3>1 DEF OclibInv, OclibTypeOK
    <3>4. Read' - 1 = Read /\ Read' >= 1
      BY <1>2, <3>2
    <3>5. Skipping'
      BY <1>1, <2>1, <2>3, <3>1, <3>2, <3>4 DEF Skipping
    <3> QED
      BY <1>1, <2>5, <3>1, <3>3, <3>5
      DEF OclibInv, Storing, Aborted, Returned
  <2> QED
    BY <2>6, <2>7
<1> QED
  BY <1>3, <1>4

(* One round of the second loop. *)
LEMMA StoreStep ==
  ASSUME OclibInv, Store
  PROVE  OclibInv'
<1>1. /\ input \in Seq(Byte) /\ given \in Seq(Byte) /\ EndOf(input, given)
      /\ state = "storing" /\ function \in {"getw", "getln"}
      /\ Read >= 1 /\ byte = given[Read]
      /\ UNCHANGED <<function, given>>
      /\ buffer \in Seq(Byte) /\ Len(buffer) <= Size - 1
      /\ byte \in Byte \cup {EOF}
  BY DEF OclibInv, OclibTypeOK, Storing, Store
<1>2. PICK p \in 1..Read : /\ Takes(function, given, p, Read)
                           /\ buffer = SubSeq(given, p, Read - 1)
  BY <1>1 DEF OclibInv, Storing
<1>3. /\ Len(given) \in Nat /\ Len(input) \in Nat
      /\ Read \in 1..Len(given) /\ Read = Len(given) - Len(input)
      /\ p \in 1..Len(given) /\ Read \in p..Len(given)
  BY <1>1 DEF EndOf, Read
<1> DEFINE stored == Append(buffer, byte)
<1>4. byte \in Byte /\ stored = SubSeq(given, p, Read)
  <2>1. byte \in Byte
    BY <1>1, <1>3
  <2>2. SubSeq(given, p, Read) = SubSeq(given, p, Read - 1) \o <<given[Read]>>
    BY <1>1, <1>3, SubSeqRecursiveSecond
  <2>3. Append(buffer, byte) = buffer \o <<byte>>
    BY <1>1, <2>1, AppendIsConcat
  <2> QED
    BY <1>1, <1>2, <2>1, <2>2, <2>3
<1>5. /\ stored \in Seq(Byte) /\ Len(stored) = Len(buffer) + 1
      /\ buffer' = stored
  BY <1>1, <1>4, AppendProperties DEF Store
<1>6. Size \in Nat /\ Size >= 1 /\ Len(buffer) \in Nat
  BY <1>1, OclibAssumption
<1> HIDE DEF stored
<1>7. CASE ~ Fits(stored)
  <2>1. state' = "aborted" /\ UNCHANGED <<input, byte, result>>
    BY <1>7 DEF Store, stored
  <2>2. Len(stored) = Size
    BY <1>1, <1>5, <1>6, <1>7 DEF Fits
  <2>3. Read' = Read
    BY <1>1, <2>1 DEF Read
  <2>4. Aborted'
    BY <1>1, <1>2, <1>4, <1>5, <2>2, <2>3 DEF Aborted
  <2>5. OclibTypeOK'
    BY <1>1, <1>5, <1>6, <2>1, <2>2 DEF OclibInv, OclibTypeOK
  <2>6. EndOf(input, given)'
    BY <1>1, <2>1
  <2> QED
    BY <2>1, <2>4, <2>5, <2>6 DEF OclibInv, Skipping, Storing, Returned
<1>8. CASE Fits(stored)
  <2>1. getchar /\ Len(stored) <= Size - 1
    BY <1>5, <1>6, <1>8 DEF Fits, Store, stored
  <2>2. /\ EndOf(input', given) /\ input' \in Seq(Byte)
        /\ \/ /\ input = <<>> /\ Len(input) = 0 /\ Len(input') = 0
              /\ byte' = EOF /\ input' = <<>>
           \/ /\ Len(input) >= 1 /\ Len(input') = Len(input) - 1
              /\ byte' = given[Len(given) - Len(input) + 1]
              /\ byte' \in Byte /\ byte' # EOF
    BY <1>1, <2>1, ReadsNext
  <2>3. EndOf(input, given)'
    BY <1>1, <2>2
  <2>4. stopat(byte') <=> byte' \in Stops(function)
    BY <1>1 DEF stopat, isspace, isnl, Stops
  <2>5. byte' # EOF => /\ Read < Len(given) /\ byte' = given[Read + 1]
                       /\ Read' = Read + 1
    <3> SUFFICES ASSUME byte' # EOF
                 PROVE  /\ Read < Len(given) /\ byte' = given[Read + 1]
                        /\ Read' = Read + 1
      OBVIOUS
    <3>1. /\ Len(input) >= 1 /\ Len(input') = Len(input) - 1
          /\ byte' = given[Len(given) - Len(input) + 1]
      BY <2>2
    <3>2. Read' = Len(given) - (Len(input) - 1)
      BY <1>1, <3>1 DEF Read
    <3> QED
      BY <1>3, <3>1, <3>2
  <2>6. byte' = EOF => Read = Len(given)
    BY <1>3, <2>2
  <2>7. CASE byte' = EOF \/ stopat(byte')
    <3>1. state' = "returned" /\ result' = strdup(stored)
      BY <1>8, <2>7 DEF Store, stored
    <3>2. input' = SubSeq(given, Read + 2, Len(given))
      <4>1. CASE byte' = EOF
        <5>1. /\ Read + 2 \in Int /\ Len(given) \in Int
              /\ Len(given) < Read + 2
          BY <1>3, <2>6, <4>1
        <5>2. SubSeq(given, Read + 2, Len(given)) = <<>>
          BY <5>1, SubSeqEmpty
        <5> QED
          BY <2>2, <4>1, <5>2
      <4>2. CASE byte' # EOF
        <5>1. Len(given) - Len(input') + 1 = Read + 2
          BY <1>3, <2>2, <4>2
        <5> QED
          BY <2>2, <5>1 DEF EndOf
      <4> QED
        BY <4>1, <4>2
    <3>3. OclibTypeOK'
      BY <1>1, <1>5, <2>1, <2>2, <3>1, StrdupType
      DEF OclibInv, OclibTypeOK
    <3>4. CASE function = "getw"
      <4>1. Read < Len(given) => given[Read + 1] \in {space, nl}
        BY <2>4, <2>5, <2>6, <2>7, <3>4 DEF Stops
      <4>2. WordRead(given, SubSeq(given, Read + 2, Len(given)),
                     strdup(SubSeq(given, p, Read)))
        BY <1>1, <1>2, <1>3, <3>4, <4>1, WordTaken
      <4>3. WordRead(given, input', result')
        BY <1>4, <3>1, <3>2, <4>2
      <4>4. Returned'
        BY <1>1, <3>4, <4>3 DEF Returned
      <4> QED
        BY <2>3, <3>1, <3>3, <4>4 DEF OclibInv, Skipping, Storing, Aborted
    <3>5. CASE function = "getln"
      <4>1. Read < Len(given) => given[Read + 1] = nl
        BY <2>4, <2>5, <2>6, <2>7, <3>5 DEF Stops
      <4>2. p = 1 /\ Takes("getln", given, 1, Read)
        BY <1>2, <3>5 DEF Takes
      <4>3. LineRead(given, SubSeq(given, Read + 2, Len(given)),
                     strdup(SubSeq(given, p, Read)))
        BY <1>1, <1>3, <4>1, <4>2, LineTaken
      <4>4. LineRead(given, input', result')
        BY <1>4, <3>1, <3>2, <4>3
      <4>5. Returned'
        BY <1>1, <3>5, <4>4 DEF Returned
      <4> QED
        BY <2>3, <3>1, <3>3, <4>5 DEF OclibInv, Skipping, Storing, Aborted
    <3> QED
      BY <1>1, <3>4, <3>5
  <2>8. CASE ~ (byte' = EOF \/ stopat(byte'))
    <3>1. UNCHANGED <<state, result>>
      BY <1>8, <2>8 DEF Store, stored
    <3>2. /\ Read' = Read + 1 /\ byte' = given[Read + 1]
          /\ Read + 1 - 1 = Read /\ Read' >= 1
      BY <1>3, <2>5, <2>8
    <3>3. OclibTypeOK'
      BY <1>1, <1>5, <2>1, <2>2, <3>1 DEF OclibInv, OclibTypeOK
    <3>4. Takes(function, given, p, Read + 1)
      <4>1. given[Read + 1] \notin Stops(function)
        BY <2>4, <2>8, <3>2
      <4>2. ASSUME NEW i \in p + 1..Read + 1
            PROVE  given[i] \notin Stops(function)
        <5>1. i \in p + 1..Read \/ i = Read + 1
          BY <1>3
        <5> QED
          BY <1>2, <4>1, <5>1 DEF Takes
      <4>3. p \in 1..Read + 1
        BY <1>3
      <4> QED
        BY <1>2, <4>2, <4>3 DEF Takes
    <3>5. p \in 1..Read + 1
      BY <1>3
    <3>6. Storing'
      <4>1. function' = function /\ given' = given /\ state' = "storing"
        BY <1>1, <3>1
      <4>2. p \in 1..Read' /\ Takes(function', given', p, Read')
        BY <3>2, <3>4, <3>5, <4>1
      <4>3. buffer' = SubSeq(given', p, Read' - 1)
        BY <1>4, <1>5, <3>2, <4>1
      <4> QED
        BY <1>1, <3>2, <4>1, <4>2, <4>3 DEF Storing
    <3> QED
      BY <1>1, <2>3, <3>1, <3>3, <3>6
      DEF OclibInv, Skipping, Aborted, Returned
  <2> QED
    BY <2>7, <2>8
<1> QED
  BY <1>7, <1>8

-----------------------------------------------------------------------------

LEMMA OclibInvHolds == OclibSpec => []OclibInv
<1>1. OclibInit => OclibInv
  <2> SUFFICES ASSUME OclibInit
               PROVE  OclibInv
    OBVIOUS
  <2>1. input \in Seq(Byte)
    <3>1. PICK m \in 0..MaxInput : input \in [1..m -> Byte]
      BY DEF OclibInit, BoundedSeq, SeqOf
    <3> QED
      BY <3>1, OclibAssumption
  <2>2. EndOf(input, given)
    BY <2>1, AllIsEnd DEF OclibInit
  <2>3. OclibTypeOK
    <3>1. <<>> \in Seq(Byte) /\ Len(<<>>) = 0 /\ 0 <= Size - 1
      BY OclibAssumption
    <3> QED
      BY <2>1, <3>1 DEF OclibInit, OclibTypeOK, EOF
  <2>4. Returned
    BY OclibAssumption DEF OclibInit, Returned
  <2> QED
    BY <2>2, <2>3, <2>4 DEF OclibInit, OclibInv, Skipping, Storing, Aborted
<1>2. OclibInv /\ [OclibNext]_oclibVars => OclibInv'
  <2> SUFFICES ASSUME OclibInv, [OclibNext]_oclibVars
               PROVE  OclibInv'
    OBVIOUS
  <2>1. CASE __getc
    BY <2>1, GetcStep
  <2>2. CASE __getw
    BY <2>2, ScanStep DEF __getw
  <2>3. CASE __getln
    BY <2>3, ScanStep DEF __getln
  <2>4. CASE Skip
    BY <2>4, SkipStep
  <2>5. CASE Store
    BY <2>5, StoreStep
  <2>6. CASE UNCHANGED oclibVars
    <3>1. Read' = Read
      BY <2>6 DEF oclibVars, Read
    <3> QED
      BY <2>6, <3>1
      DEF oclibVars, OclibInv, OclibTypeOK, Skipping, Storing, Aborted,
          Returned
  <2> QED
    BY <2>1, <2>2, <2>3, <2>4, <2>5, <2>6 DEF OclibNext
<1> QED
  BY <1>1, <1>2, PTL DEF OclibSpec

(* The buffer of scan never holds more bytes than leave room for a zero,   *)
(* unless the assertion has just failed.                                   *)
THEOREM OclibTypeCorrect == OclibSpec => []OclibTypeOK
<1>1. OclibInv => OclibTypeOK
  BY DEF OclibInv
<1> QED
  BY <1>1, OclibInvHolds, PTL

(* __getw returns the next word and leaves what lies behind the byte that  *)
(* ends it, whatever was read before.                                      *)
THEOREM WordsAreRead == OclibSpec => []GetwReadsWord
<1>1. OclibInv => GetwReadsWord
  BY DEF OclibInv, Returned, WordRead, GetwReadsWord
<1> QED
  BY <1>1, OclibInvHolds, PTL

(* __getln returns the next line, an empty one joined with the line behind *)
(* it, and leaves what lies behind that.                                   *)
THEOREM LinesAreRead == OclibSpec => []GetlnReadsLine
<1>1. OclibInv => GetlnReadsLine
  BY DEF OclibInv, Returned, LineRead, GetlnReadsLine
<1> QED
  BY <1>1, OclibInvHolds, PTL

(* A buffer that is full holds the beginning of a word, or a line, that    *)
(* is at least as long.                                                    *)
LEMMA LongWhenAborted == OclibInv => AbortsOnlyWhenLong
<1> SUFFICES ASSUME OclibInv, state = "aborted"
             PROVE  AbortsOnlyWhenLong
  BY DEF AbortsOnlyWhenLong
<1> DEFINE S == Stops(function)
           n == Len(given)
<1>1. /\ input \in Seq(Byte) /\ given \in Seq(Byte) /\ EndOf(input, given)
      /\ function \in {"getw", "getln"} /\ Len(buffer) = Size
  BY DEF OclibInv, OclibTypeOK, Aborted
<1>2. PICK p \in 1..Read : /\ Takes(function, given, p, Read)
                           /\ buffer = SubSeq(given, p, Read)
  BY DEF OclibInv, Aborted
<1>3. /\ n \in Nat /\ Read \in 1..n /\ p \in 1..n /\ Read \in p..n
      /\ Size \in Nat
  BY <1>1, OclibAssumption DEF EndOf, Read
<1>4. Size = Read - p + 1
  <2>1. \A i \in p..Read : given[i] \in Byte
    BY <1>1, <1>3
  <2>2. Len(SubSeq(given, p, Read))
          = IF p <= Read THEN Read - p + 1 ELSE 0
    BY <1>3, <2>1, SubSeqProperties
  <2> QED
    BY <1>1, <1>2, <1>3, <2>2
<1> DEFINE w == IF function = "getw" THEN From(given, {nul, letter})
                ELSE given
           t == SubSeq(given, p + 1, n)
<1>5. w = SubSeq(given, p, n)
  <2>1. CASE function = "getw"
    BY <1>1, <1>2, <1>3, <2>1, WordBegins
  <2>2. CASE function = "getln"
    BY <1>1, <1>2, <2>2, SubSeqFull DEF Takes
  <2> QED
    BY <1>1, <2>1, <2>2
<1>6. Tail(w) = t
  <2>1. p \in 1..n /\ n \in p..n
    BY <1>3
  <2>2. Tail(SubSeq(given, p, n)) = SubSeq(given, p + 1, n)
    BY <1>1, <2>1, HeadTailOfSubSeq
  <2> QED
    BY <1>5, <2>2
<1>7. /\ t \in Seq(Byte) /\ Len(t) = n - p
      /\ \A i \in 1..n - p : t[i] = given[p + i]
  <2>1. \A i \in p + 1..n : given[i] \in Byte
    BY <1>1, <1>3
  <2>2. /\ t \in Seq(Byte)
        /\ Len(t) = IF p + 1 <= n THEN n - (p + 1) + 1 ELSE 0
        /\ \A i \in 1..n - (p + 1) + 1 : t[i] = given[p + 1 + i - 1]
    BY <1>3, <2>1, SubSeqProperties
  <2> HIDE DEF t
  <2>3. Len(t) = n - p
    BY <1>3, <2>2
  <2>4. ASSUME NEW i \in 1..n - p
        PROVE  t[i] = given[p + i]
    <3>1. i \in 1..n - (p + 1) + 1 /\ p + 1 + i - 1 = p + i
      BY <1>3
    <3> QED
      BY <2>2, <3>1
  <2> QED
    BY <2>2, <2>3, <2>4
<1> HIDE DEF w, t, S, n
<1> DEFINE k == Read - p
<1>8. k \in 0..Len(t)
  BY <1>3, <1>7
<1>9. \A i \in 1..k : t[i] \notin S
  <2> SUFFICES ASSUME NEW i \in 1..k
               PROVE  t[i] \notin S
    OBVIOUS
  <2>1. i \in 1..n - p /\ p + i \in p + 1..Read
    BY <1>3
  <2> QED
    BY <1>2, <1>7, <2>1 DEF Takes, S
<1>10. FirstOf(t, S) \in k + 1..Len(t) + 1
  <2> HIDE DEF k
  <2> QED
    BY <1>7, <1>8, <1>9, FirstBehind
<1>11. Len(UpTo(t, S)) >= k
  <2> DEFINE f == FirstOf(t, S)
  <2>1. f \in Int /\ f - 1 >= k /\ f - 1 <= Len(t) /\ k >= 0
    BY <1>3, <1>7, <1>8, <1>10
  <2> HIDE DEF f, k
  <2>2. \A i \in 1..f - 1 : t[i] \in Byte
    BY <1>7, <2>1
  <2>3. Len(SubSeq(t, 1, f - 1)) = IF 1 <= f - 1 THEN f - 1 - 1 + 1 ELSE 0
    BY <2>1, <2>2, SubSeqProperties
  <2>4. UpTo(t, S) = SubSeq(t, 1, f - 1)
    BY DEF UpTo, f
  <2>5. k \in Int
    BY <1>3 DEF k
  <2> QED
    BY <2>1, <2>3, <2>4, <2>5
<1>12. S = IF function = "getw" THEN {space, nl} ELSE {nl}
  BY DEF S, Stops
<1>13. Len(UpTo(t, S)) \in Nat
  <2>1. FirstOf(t, S) \in Int /\ FirstOf(t, S) - 1 <= Len(t)
        /\ 1 <= FirstOf(t, S)
    BY <1>3, <1>7, <1>8, <1>10
  <2>2. \A i \in 1..FirstOf(t, S) - 1 : t[i] \in Byte
    BY <1>7, <2>1
  <2>3. UpTo(t, S) \in Seq(Byte)
    BY <2>1, <2>2, SubSeqProperties DEF UpTo
  <2> QED
    BY <2>3
<1>14. 1 + Len(UpTo(Tail(w), S)) >= Size
  <2> DEFINE l == Len(UpTo(t, S))
  <2>1. l \in Nat /\ l >= k /\ k = Size - 1 /\ k \in Int
    BY <1>3, <1>4, <1>11, <1>13
  <2>2. Len(UpTo(Tail(w), S)) = l
    BY <1>6
  <2> HIDE DEF l, k
  <2> QED
    BY <1>3, <2>1, <2>2
<1> QED
  BY <1>12, <1>14 DEF AbortsOnlyWhenLong, w

(* The assertion stops no program whose words and lines fit the buffer.    *)
THEOREM AbortsAreLong == OclibSpec => []AbortsOnlyWhenLong
BY LongWhenAborted, OclibInvHolds, PTL
=============================================================================
