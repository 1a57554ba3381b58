------------------------- MODULE LineEditor_proofs --------------------------
(***************************************************************************)
(* The keyboard of a session, for any characters, keys, completions, any   *)
(* length of lines, history and pages, and any number of lines entered;    *)
(* and the ring of cfg/nn_cli_history.c behind the history, for every size  *)
(* and every word that holds twice the size.                               *)
(***************************************************************************)
EXTENDS SessionHistory, SequenceTheorems, WellFoundedInduction, TLAPS

\* What fits in the buffer.
Texts == {t \in Seq(Chars) : Len(t) <= MaxLine}

Nodes == [kind : {"keyword", "argument"}, name : Seq(Chars)]

-----------------------------------------------------------------------------
(***************************************************************************)
(* Sequences of characters                                                 *)
(***************************************************************************)

LEMMA Inserted ==
    ASSUME NEW s \in Seq(Chars), NEW k \in 0 .. Len(s), NEW c \in Chars
    PROVE  /\ InsertAt(s, k + 1, c) \in Seq(Chars)
           /\ Len(InsertAt(s, k + 1, c)) = Len(s) + 1
           /\ \A i \in 1 .. Len(s) + 1 :
                InsertAt(s, k + 1, c)[i] =
                    IF i <= k THEN s[i] ELSE IF i = k + 1 THEN c ELSE s[i - 1]
  <1> DEFINE a == SubSeq(s, 1, (k + 1) - 1)
             b == SubSeq(s, k + 1, Len(s))
  <1>1. InsertAt(s, k + 1, c) = (a \o <<c>>) \o b
    BY Zenon DEF InsertAt
  <1>2. a \in Seq(Chars) /\ Len(a) = k /\ \A i \in 1 .. k : a[i] = s[i]
    BY SubSeqProperties
  <1>3. b \in Seq(Chars) /\ Len(b) = Len(s) - k /\ \A i \in 1 .. Len(s) - k : b[i] = s[i + k]
    BY SubSeqProperties
  <1> HIDE DEF a, b
  <1>4. /\ a \o <<c>> \in Seq(Chars) /\ Len(a \o <<c>>) = k + 1
        /\ \A i \in 1 .. k + 1 : (a \o <<c>>)[i] = IF i <= k THEN s[i] ELSE c
    <2> DEFINE d == <<c>>
    <2>1. d \in Seq(Chars) /\ Len(d) = 1 /\ d[1] = c
      OBVIOUS
    <2> HIDE DEF d
    <2>2. /\ a \o d \in Seq(Chars) /\ Len(a \o d) = Len(a) + Len(d)
          /\ \A i \in 1 .. Len(a) + Len(d) :
               (a \o d)[i] = IF i <= Len(a) THEN a[i] ELSE d[i - Len(a)]
      BY <1>2, <2>1, ConcatProperties
    <2>3. /\ a \o d \in Seq(Chars) /\ Len(a \o d) = k + 1
          /\ \A i \in 1 .. k + 1 : (a \o d)[i] = IF i <= k THEN s[i] ELSE c
      BY <2>2, <1>2, <2>1
    <2> QED BY <2>3 DEF d
  <1> DEFINE e == a \o <<c>>
  <1> HIDE DEF e
  <1>5. e \in Seq(Chars) /\ Len(e) = k + 1
        /\ \A i \in 1 .. k + 1 : e[i] = IF i <= k THEN s[i] ELSE c
    BY <1>4 DEF e
  <1>6. InsertAt(s, k + 1, c) = e \o b
    BY <1>1 DEF e
  <1>7. /\ e \o b \in Seq(Chars) /\ Len(e \o b) = Len(e) + Len(b)
        /\ \A i \in 1 .. Len(e) + Len(b) :
             (e \o b)[i] = IF i <= Len(e) THEN e[i] ELSE b[i - Len(e)]
    BY <1>3, <1>5, ConcatProperties
  <1>8. ASSUME NEW i \in 1 .. Len(s) + 1
        PROVE  (e \o b)[i] = IF i <= k THEN s[i] ELSE IF i = k + 1 THEN c ELSE s[i - 1]
    <2>1. i > k + 1 => i - (k + 1) \in 1 .. Len(s) - k
      OBVIOUS
    <2>2. i > k + 1 => b[i - (k + 1)] = s[(i - (k + 1)) + k]
      BY <1>3, <2>1
    <2>3. (i - (k + 1)) + k = i - 1
      OBVIOUS
    <2>4. (e \o b)[i] = IF i <= k + 1 THEN e[i] ELSE b[i - (k + 1)]
      BY <1>3, <1>5, <1>7
    <2>5. i <= k + 1 => e[i] = IF i <= k THEN s[i] ELSE c
      BY <1>5
    <2> QED BY <2>2, <2>3, <2>4, <2>5
  <1>9. Len(e \o b) = Len(s) + 1
    BY <1>3, <1>5, <1>7
  <1> HIDE DEF e
  <1> QED BY <1>6, <1>7, <1>8, <1>9, Zenon

LEMMA Removed ==
    ASSUME NEW s \in Seq(Chars), NEW k \in 1 .. Len(s)
    PROVE  /\ RemoveAt(s, k) \in Seq(Chars)
           /\ Len(RemoveAt(s, k)) = Len(s) - 1
           /\ \A i \in 1 .. Len(s) - 1 :
                RemoveAt(s, k)[i] = IF i < k THEN s[i] ELSE s[i + 1]
  <1> DEFINE a == SubSeq(s, 1, k - 1)
             b == SubSeq(s, k + 1, Len(s))
  <1>1. RemoveAt(s, k) = a \o b
    BY DEF RemoveAt
  <1>2. a \in Seq(Chars) /\ Len(a) = k - 1 /\ \A i \in 1 .. k - 1 : a[i] = s[i]
    BY SubSeqProperties
  <1>3. b \in Seq(Chars) /\ Len(b) = Len(s) - k /\ \A i \in 1 .. Len(s) - k : b[i] = s[i + k]
    BY SubSeqProperties
  <1> HIDE DEF a, b
  <1>4. /\ a \o b \in Seq(Chars) /\ Len(a \o b) = Len(a) + Len(b)
        /\ \A i \in 1 .. Len(a) + Len(b) :
             (a \o b)[i] = IF i <= Len(a) THEN a[i] ELSE b[i - Len(a)]
    BY <1>2, <1>3, ConcatProperties
  <1> QED BY <1>1, <1>2, <1>3, <1>4

\* The text of a row that shows the characters of s from its first column on.
Row(s) == [c \in Columns |-> IF c + 1 \in DOMAIN s THEN s[c + 1] ELSE Space]

LEMMA BlankIs ==
    ASSUME NEW p
    PROVE  Blank(p) = [text |-> Row(<<>>), col |-> 0, prompted |-> p]
  BY DEF Blank, Row

LEMMA RedrawnIs ==
    ASSUME NEW s \in Texts
    PROVE  Redrawn(s) = [text |-> Row(s), col |-> Len(s), prompted |-> TRUE]
  <1>1. /\ Blank(TRUE).col = 0 /\ Blank(TRUE).prompted = TRUE
        /\ \A c \in Columns : Blank(TRUE).text[c] = Space
    BY DEF Blank
  <1>2. Redrawn(s) =
          [text |-> [c \in Columns |-> IF c - Blank(TRUE).col + 1 \in DOMAIN s
                                       THEN s[c - Blank(TRUE).col + 1]
                                       ELSE Blank(TRUE).text[c]],
           col |-> Blank(TRUE).col + Len(s), prompted |-> Blank(TRUE).prompted]
    BY DEF Redrawn, Put
  <1>3. \A c \in Columns : c - 0 + 1 = c + 1
    BY DEF Columns
  <1>4. [c \in Columns |-> IF c - Blank(TRUE).col + 1 \in DOMAIN s
                           THEN s[c - Blank(TRUE).col + 1]
                           ELSE Blank(TRUE).text[c]] = Row(s)
    BY <1>1, <1>3, Zenon DEF Row
  <1>5. Blank(TRUE).col + Len(s) = Len(s)
    <2>1. s \in Seq(Chars)
      BY DEF Texts
    <2>2. Len(s) \in Nat /\ 0 + Len(s) = Len(s)
      BY <2>1
    <2> QED BY <1>1, <2>2, Zenon
  <1> QED BY <1>1, <1>2, <1>4, <1>5, Zenon

LEMMA RowType ==
    ASSUME NEW s \in Seq(Chars)
    PROVE  Row(s) \in [Columns -> Chars]
  BY EditorAssumption DEF Row

Screens == [text : [Columns -> Chars], col : Int, prompted : BOOLEAN]

LEMMA BackIs ==
    ASSUME NEW scr \in Screens, NEW n \in Int
    PROVE  /\ Back(scr, n) \in Screens
           /\ Back(scr, n) = [text |-> scr.text, col |-> scr.col - n, prompted |-> scr.prompted]
  <1>1. scr.text \in [Columns -> Chars] /\ scr.col \in Int /\ scr.prompted \in BOOLEAN
    BY DEF Screens
  <1>2. Back(scr, n) = [text |-> scr.text, col |-> scr.col - n, prompted |-> scr.prompted]
    BY DEF Back, Screens
  <1>3. scr.col - n \in Int
    BY <1>1
  <1>4. [text |-> scr.text, col |-> scr.col - n, prompted |-> scr.prompted] \in Screens
    BY <1>1, <1>3, Zenon DEF Screens
  <1> QED BY <1>2, <1>4, Zenon

LEMMA PutType ==
    ASSUME NEW scr \in Screens, NEW s \in Seq(Chars)
    PROVE  Put(scr, s) \in Screens
  <1>1. scr.text \in [Columns -> Chars] /\ scr.col \in Int /\ scr.prompted \in BOOLEAN
    BY DEF Screens
  <1>2. \A i \in DOMAIN s : s[i] \in Chars
    OBVIOUS
  <1>3. [c \in Columns |-> IF c - scr.col + 1 \in DOMAIN s
                           THEN s[c - scr.col + 1] ELSE scr.text[c]] \in [Columns -> Chars]
    BY <1>1, <1>2, Zenon
  <1>4. scr.col + Len(s) \in Int
    BY <1>1
  <1> QED BY <1>1, <1>3, <1>4, Zenon DEF Put, Screens

\* The characters redraw_from_cursor sends before it goes back.
LEMMA RestIs ==
    ASSUME NEW b \in Seq(Chars), NEW from \in 0 .. Len(b)
    PROVE  LET rest == SubSeq(b, from + 1, Len(b)) \o <<Space>>
           IN  /\ rest \in Seq(Chars) /\ Len(rest) = Len(b) - from + 1
               /\ DOMAIN rest = 1 .. Len(b) - from + 1
               /\ \A i \in 1 .. Len(b) - from + 1 :
                    rest[i] = IF i <= Len(b) - from THEN b[i + from] ELSE Space
  <1> DEFINE a == SubSeq(b, from + 1, Len(b))
             d == <<Space>>
  <1>1. d \in Seq(Chars) /\ Len(d) = 1 /\ d[1] = Space
    BY EditorAssumption
  <1>2. a \in Seq(Chars) /\ Len(a) = Len(b) - from
        /\ \A i \in 1 .. Len(b) - from : a[i] = b[i + from]
    BY SubSeqProperties
  <1> HIDE DEF a, d
  <1>3. /\ a \o d \in Seq(Chars) /\ Len(a \o d) = Len(a) + Len(d)
        /\ \A i \in 1 .. Len(a) + Len(d) :
             (a \o d)[i] = IF i <= Len(a) THEN a[i] ELSE d[i - Len(a)]
    BY <1>1, <1>2, ConcatProperties
  <1>4. ASSUME NEW i \in 1 .. Len(b) - from + 1
        PROVE  (a \o d)[i] = IF i <= Len(b) - from THEN b[i + from] ELSE Space
    <2>1. i > Len(b) - from => i - Len(a) = 1
      <3>1. Len(b) \in Nat /\ Len(a) = Len(b) - from
        BY <1>2
      <3> QED BY <3>1
    <2>2. (a \o d)[i] = IF i <= Len(a) THEN a[i] ELSE d[i - Len(a)]
      BY <1>1, <1>2, <1>3
    <2> QED BY <1>1, <1>2, <2>1, <2>2
  <1>5. Len(a \o d) = Len(b) - from + 1
    BY <1>1, <1>2, <1>3
  <1>6. DOMAIN (a \o d) = 1 .. Len(b) - from + 1
    BY <1>3, <1>5
  <1> QED BY <1>3, <1>4, <1>5, <1>6 DEF a, d

LEMMA RedrawFromType ==
    ASSUME NEW scr \in Screens, NEW b \in Seq(Chars), NEW from \in 0 .. Len(b)
    PROVE  RedrawFrom(scr, b, from) \in Screens
  <1> DEFINE rest == SubSeq(b, from + 1, Len(b)) \o <<Space>>
  <1>1. rest \in Seq(Chars)
    BY RestIs
  <1> HIDE DEF rest
  <1>2. Put(scr, rest) \in Screens
    BY <1>1, PutType
  <1>3. Len(b) - from + 1 \in Int
    OBVIOUS
  <1>4. Back(Put(scr, rest), Len(b) - from + 1) \in Screens
    BY <1>2, <1>3, BackIs
  <1> QED BY <1>4, Zenon DEF RedrawFrom, rest

\* Drawn from a column up to which the row already shows the buffer, and with
\* nothing shown behind its end, the row shows the buffer and the cursor stays.
LEMMA RedrawFromIs ==
    ASSUME NEW b \in Texts, NEW from \in 0 .. Len(b), NEW scr \in Screens,
           scr.col = from,
           \A c \in Columns : c < from => scr.text[c] = b[c + 1],
           \A c \in Columns : c > Len(b) => scr.text[c] = Space
    PROVE  RedrawFrom(scr, b, from) = [text |-> Row(b), col |-> from, prompted |-> scr.prompted]
  <1> DEFINE rest == SubSeq(b, from + 1, Len(b)) \o <<Space>>
             n == Len(b) - from + 1
  <1>1. b \in Seq(Chars) /\ Len(b) \in Nat /\ DOMAIN b = 1 .. Len(b)
    BY DEF Texts
  <1>2. /\ rest \in Seq(Chars) /\ Len(rest) = n /\ DOMAIN rest = 1 .. n
        /\ \A i \in 1 .. n : rest[i] = IF i <= Len(b) - from THEN b[i + from] ELSE Space
    BY <1>1, RestIs
  <1> HIDE DEF rest
  <1>3. ASSUME NEW c \in Columns
        PROVE  (IF c - from + 1 \in DOMAIN rest THEN rest[c - from + 1] ELSE scr.text[c])
                  = (IF c + 1 \in DOMAIN b THEN b[c + 1] ELSE Space)
    <2>1. c \in Nat
      BY EditorAssumption DEF Columns
    <2>2. CASE c < from
      BY <1>1, <1>2, <2>1, <2>2
    <2>3. CASE from <= c /\ c <= Len(b)
      <3>1. c - from + 1 \in 1 .. n
        BY <1>1, <2>1, <2>3
      <3>2. rest[c - from + 1] = IF c - from + 1 <= Len(b) - from
                                 THEN b[(c - from + 1) + from] ELSE Space
        BY <1>2, <3>1
      <3>3. (c - from + 1) + from = c + 1
        BY <2>1
      <3>4. c - from + 1 <= Len(b) - from <=> c + 1 \in DOMAIN b
        BY <1>1, <2>1, <2>3
      <3> QED BY <1>2, <3>1, <3>2, <3>3, <3>4, Zenon
    <2>4. CASE c > Len(b)
      BY <1>1, <1>2, <2>1, <2>4
    <2> QED BY <1>1, <2>1, <2>2, <2>3, <2>4
  <1>4. Put(scr, rest) = [text |-> Row(b), col |-> from + n, prompted |-> scr.prompted]
    BY <1>2, <1>3, Zenon DEF Put, Row
  <1>5. Put(scr, rest) \in Screens
    BY <1>2, PutType
  <1>6. Back(Put(scr, rest), n) = [text |-> Row(b), col |-> (from + n) - n, prompted |-> scr.prompted]
    <2>1. n \in Int
      BY <1>1
    <2>2. Back(Put(scr, rest), n) = [text |-> Put(scr, rest).text, col |-> Put(scr, rest).col - n,
                                     prompted |-> Put(scr, rest).prompted]
      BY <1>5, <2>1, BackIs
    <2>3. /\ Put(scr, rest).text = Row(b) /\ Put(scr, rest).col = from + n
          /\ Put(scr, rest).prompted = scr.prompted
      BY <1>4
    <2> QED BY <2>2, <2>3, Zenon
  <1>7. (from + n) - n = from
    BY <1>1
  <1> QED BY <1>6, <1>7, Zenon DEF RedrawFrom, rest

-----------------------------------------------------------------------------
(***************************************************************************)
(* Words and completions                                                   *)
(***************************************************************************)

LEMMA MinOfTwo ==
    ASSUME NEW a \in Nat, NEW b \in Nat
    PROVE  Min({a, b}) = IF a <= b THEN a ELSE b
  <1> DEFINE m == IF a <= b THEN a ELSE b
             Least(x) == \A y \in {a, b} : x <= y
  <1>1. m \in {a, b} /\ Least(m)
    OBVIOUS
  <1>2. ASSUME NEW x \in {a, b}, Least(x) PROVE x = m
    BY <1>2
  <1> HIDE DEF m, Least
  <1>3. (CHOOSE x \in {a, b} : Least(x)) = m
    BY <1>1, <1>2, Zenon
  <1>4. Min({a, b}) = CHOOSE x \in {a, b} : Least(x)
    BY Zenon DEF Min, Least
  <1> QED BY <1>3, <1>4 DEF m

LEMMA MaxIsIn ==
    ASSUME NEW n \in Nat, NEW S \in SUBSET (1 .. n), S # {}
    PROVE  Max(S) \in S
  <1> DEFINE T == {n - x : x \in S}
  <1>1. T \subseteq Nat /\ T # {}
    <2>1. \A x \in S : n - x \in Nat
      OBVIOUS
    <2>2. PICK x \in S : TRUE
      OBVIOUS
    <2> QED BY <2>1, <2>2, Zenon
  <1>2. IsWellFoundedOn(OpToRel(<, Nat), Nat)
    BY NatLessThanWellFounded, Zenon
  <1> HIDE DEF T
  <1>3. PICK t \in T : \A u \in T : ~(<<u, t>> \in OpToRel(<, Nat))
    BY <1>1, <1>2, WFMin, Zenon
  <1>4. \A u \in T : t <= u
    <2>1. \A u \in T : ~(u < t)
      BY <1>1, <1>3, Zenon DEF OpToRel
    <2> QED BY <1>1, <2>1
  <1>5. PICK x \in S : t = n - x
    BY DEF T
  <1>6. \A y \in S : x >= y
    <2> SUFFICES ASSUME NEW y \in S PROVE x >= y
      OBVIOUS
    <2>1. n - y \in T
      BY DEF T
    <2>2. n - x <= n - y
      BY <1>4, <1>5, <2>1
    <2> QED BY <2>2
  <1> QED BY <1>6, Zenon DEF Max

\* What is kept of a text is a part of it, from its beginning on.
LEMMA UpToLastWordIs ==
    ASSUME NEW text \in Seq(Chars)
    PROVE  LET kept == UpToLastWord(text)
           IN  /\ kept \in Seq(Chars) /\ Len(kept) \in 0 .. Len(text)
               /\ \A i \in 1 .. Len(kept) : kept[i] = text[i]
  <1> DEFINE blanks == {i \in DOMAIN text : text[i] = Space}
  <1>1. CASE blanks = {}
    <2>1. UpToLastWord(text) = <<>>
      BY <1>1, Zenon DEF UpToLastWord
    <2> QED BY <2>1
  <1>2. CASE blanks # {}
    <2>1. blanks \in SUBSET (1 .. Len(text)) /\ Len(text) \in Nat
      OBVIOUS
    <2>2. Max(blanks) \in 1 .. Len(text)
      BY <1>2, <2>1, MaxIsIn
    <2>3. UpToLastWord(text) = SubSeq(text, 1, Max(blanks))
      BY <1>2, Zenon DEF UpToLastWord
    <2> DEFINE m == Max(blanks)
    <2> HIDE DEF blanks, m
    <2>4. m \in 1 .. Len(text)
      BY <2>2 DEF m, blanks
    <2>5. /\ SubSeq(text, 1, m) \in Seq(Chars) /\ Len(SubSeq(text, 1, m)) = m
          /\ \A i \in 1 .. m : SubSeq(text, 1, m)[i] = text[i]
      BY <2>4, SubSeqProperties
    <2>6. UpToLastWord(text) = SubSeq(text, 1, m)
      BY <2>3 DEF m, blanks
    <2> QED BY <2>4, <2>5, <2>6
  <1> QED BY <1>1, <1>2

LEMMA PrefixIs ==
    ASSUME NEW s \in Seq(Chars), NEW t \in Seq(Chars)
    PROVE  IsPrefix(s, t) <=> Len(s) <= Len(t) /\ \A i \in 1 .. Len(s) : s[i] = t[i]
  <1> DEFINE a == SubSeq(s, 1, Len(s))
             b == SubSeq(t, 1, Len(s))
  <1>1. a \in Seq(Chars) /\ Len(a) = Len(s) /\ \A i \in 1 .. Len(s) : a[i] = s[i]
    BY SubSeqProperties
  <1>2. Len(s) <= Len(t) => /\ b \in Seq(Chars) /\ Len(b) = Len(s)
                            /\ \A i \in 1 .. Len(s) : b[i] = t[i]
    BY SubSeqProperties
  <1>3. IsPrefix(s, t) <=> Len(s) <= Len(t) /\ a = b
    BY Zenon DEF IsPrefix
  <1> HIDE DEF a, b
  <1>4. ASSUME Len(s) <= Len(t) PROVE a = b <=> \A i \in 1 .. Len(s) : s[i] = t[i]
    <2>1. (\A i \in 1 .. Len(s) : a[i] = b[i]) => a = b
      BY <1>1, <1>2, <1>4, SeqEqual
    <2> QED BY <1>1, <1>2, <1>4, <2>1, Zenon
  <1> QED BY <1>3, <1>4, Zenon

\* A keyword that begins with the last word of a text continues the text.
LEMMA KeywordContinues ==
    ASSUME NEW text \in Texts, NEW name \in Seq(Chars), IsPrefix(LastWord(text), name)
    PROVE  LET full == UpToLastWord(text) \o name \o <<Space>>
               done == SubSeq(full, 1, Min({Len(full), MaxLine}))
           IN  done \in Texts /\ IsPrefix(text, done)
  <1> DEFINE u == UpToLastWord(text)
             w == LastWord(text)
             d == <<Space>>
             e == u \o name
             full == e \o d
             m == Min({Len(full), MaxLine})
             done == SubSeq(full, 1, m)
  <1>1. text \in Seq(Chars) /\ Len(text) \in Nat /\ Len(text) <= MaxLine
    BY DEF Texts
  <1>2. u \in Seq(Chars) /\ Len(u) \in 0 .. Len(text) /\ \A i \in 1 .. Len(u) : u[i] = text[i]
    BY <1>1, UpToLastWordIs
  <1>3. w = SubSeq(text, Len(u) + 1, Len(text))
    BY DEF LastWord
  <1>4. d \in Seq(Chars) /\ Len(d) = 1
    BY EditorAssumption
  <1> HIDE DEF u, w, d
  <1>5. w \in Seq(Chars) /\ Len(w) = Len(text) - Len(u)
        /\ \A i \in 1 .. Len(text) - Len(u) : w[i] = text[i + Len(u)]
    BY <1>1, <1>2, <1>3, SubSeqProperties
  <1>6. Len(w) <= Len(name) /\ \A i \in 1 .. Len(w) : w[i] = name[i]
    BY <1>5, PrefixIs DEF w
  <1>7. /\ e \in Seq(Chars) /\ Len(e) = Len(u) + Len(name)
        /\ \A i \in 1 .. Len(u) + Len(name) : e[i] = IF i <= Len(u) THEN u[i] ELSE name[i - Len(u)]
    BY <1>2, ConcatProperties
  <1> HIDE DEF e
  <1>8. /\ full \in Seq(Chars) /\ Len(full) = Len(e) + Len(d)
        /\ \A i \in 1 .. Len(e) + Len(d) : full[i] = IF i <= Len(e) THEN e[i] ELSE d[i - Len(e)]
    <2>1. e \in Seq(Chars) /\ d \in Seq(Chars)
      BY <1>4, <1>7
    <2> QED BY <2>1, ConcatProperties, Zenon
  <1> HIDE DEF full
  <1>9. Len(text) <= Len(e) /\ Len(full) = Len(e) + 1 /\ Len(full) \in Nat /\ Len(e) \in Nat
    BY <1>1, <1>2, <1>4, <1>5, <1>6, <1>7, <1>8
  <1>10. ASSUME NEW i \in 1 .. Len(text) PROVE full[i] = text[i]
    <2>1. full[i] = e[i]
      BY <1>1, <1>4, <1>8, <1>9
    <2>2. e[i] = IF i <= Len(u) THEN u[i] ELSE name[i - Len(u)]
      BY <1>1, <1>2, <1>5, <1>6, <1>7
    <2>3. CASE i <= Len(u)
      BY <1>2, <2>1, <2>2, <2>3
    <2>4. CASE i > Len(u)
      <3>1. i - Len(u) \in 1 .. Len(w) /\ (i - Len(u)) + Len(u) = i
        BY <1>1, <1>2, <1>5, <2>4
      <3>2. name[i - Len(u)] = text[(i - Len(u)) + Len(u)]
        BY <1>5, <1>6, <3>1
      <3> QED BY <1>2, <2>1, <2>2, <2>4, <3>1, <3>2
    <2> QED BY <1>2, <2>3, <2>4
  <1>11. m = IF Len(full) <= MaxLine THEN Len(full) ELSE MaxLine
    BY <1>9, MinOfTwo, EditorAssumption
  <1>12. m \in Nat /\ m <= MaxLine /\ m <= Len(full) /\ Len(text) <= m
    BY <1>1, <1>9, <1>11, EditorAssumption
  <1> HIDE DEF m
  <1>13. done \in Seq(Chars) /\ Len(done) = m /\ \A i \in 1 .. m : done[i] = full[i]
    BY <1>8, <1>12, SubSeqProperties
  <1> HIDE DEF done
  <1>14. done \in Texts
    BY <1>12, <1>13 DEF Texts
  <1>15. \A i \in 1 .. Len(text) : text[i] = done[i]
    BY <1>1, <1>10, <1>12, <1>13
  <1>16. IsPrefix(text, done)
    BY <1>1, <1>12, <1>13, <1>15, PrefixIs
  <1> QED BY <1>14, <1>16 DEF done, m, full, e, u, d

\* What TAB makes of a text with one node: a line that still begins with it,
\* but for the blank an argument takes away.
LEMMA AppliedKeeps ==
    ASSUME NEW text \in Texts, NEW node \in Nodes,
           ~Trailing(text) /\ node.kind = "keyword" => IsPrefix(LastWord(text), node.name)
    PROVE  LET applied == Applied(node, text, Trailing(text))
           IN  /\ applied \in Texts
               /\ \/ IsPrefix(text, applied)
                  \/ Trailing(text) /\ applied = Front(text)
  <1>1. text \in Seq(Chars) /\ Len(text) \in Nat /\ Len(text) <= MaxLine
    BY DEF Texts
  <1>2. node.name \in Seq(Chars) /\ node.kind \in {"keyword", "argument"}
    BY DEF Nodes
  <1>3. CASE node.kind = "keyword" /\ ~Trailing(text)
    <2>1. Applied(node, text, Trailing(text)) =
            LET full == UpToLastWord(text) \o node.name \o <<Space>>
            IN  SubSeq(full, 1, Min({Len(full), MaxLine}))
      BY <1>3, Zenon DEF Applied
    <2> QED BY <1>2, <1>3, <2>1, KeywordContinues, Zenon
  <1>4. CASE node.kind = "argument" /\ Trailing(text)
    <2>1. Applied(node, text, Trailing(text)) = Front(text)
      BY <1>4 DEF Applied
    <2>2. Len(text) # 0
      BY <1>1, <1>4 DEF Trailing
    <2> DEFINE k == Len(text) - 1
    <2>3. k \in Nat /\ k <= Len(text) /\ k <= MaxLine
      BY <1>1, <2>2, EditorAssumption
    <2>4. Front(text) = SubSeq(text, 1, k)
      BY Zenon DEF Front
    <2> HIDE DEF k
    <2>5. SubSeq(text, 1, k) \in Seq(Chars) /\ Len(SubSeq(text, 1, k)) = k
      BY <1>1, <2>3, SubSeqProperties
    <2>6. Front(text) \in Texts
      BY <2>3, <2>4, <2>5 DEF Texts
    <2> QED BY <1>4, <2>1, <2>6
  <1>5. CASE ~(node.kind = "keyword" /\ ~Trailing(text)) /\ ~(node.kind = "argument" /\ Trailing(text))
    <2>1. Applied(node, text, Trailing(text)) = text
      BY <1>5, Zenon DEF Applied
    <2>2. IsPrefix(text, text)
      BY <1>1, PrefixIs
    <2> QED BY <2>1, <2>2
  <1> QED BY <1>3, <1>4, <1>5, Zenon

\* The nodes found for a text are nodes, of keywords that continue it.
LEMMA CompletionsAre ==
    ASSUME NEW text \in Texts
    PROVE  /\ Completions(text) \in Seq(Nodes)
           /\ \A i \in DOMAIN Completions(text) :
                ~Trailing(text) /\ Completions(text)[i].kind = "keyword" =>
                    IsPrefix(LastWord(text), Completions(text)[i].name)
  <1>1. Len(text) \in 0 .. MaxLine /\ text \in [1 .. Len(text) -> Chars]
    BY EditorAssumption DEF Texts
  <1> QED BY <1>1, CompletionsAssumption, Zenon DEF Nodes

-----------------------------------------------------------------------------
(***************************************************************************)
(* The invariant                                                           *)
(***************************************************************************)

LineTypes == line \in Texts /\ cursor \in 0 .. Len(line)

\* A cycle goes round the nodes of the text it began with, two at least.
TabTypes ==
    /\ tab \in [cycling : BOOLEAN, index : Nat, original : Texts]
    /\ tab.cycling => /\ Len(Completions(tab.original)) > 1
                      /\ tab.index < Len(Completions(tab.original))

BrowseTypes ==
    /\ history \in Seq(Texts) /\ Len(history) <= HistorySize
    /\ browse \in -1 .. Len(history) - 1
    /\ temp \in Texts

OtherTypes ==
    /\ state \in {"NORMAL", "ESC", "CSI"}
    /\ pager \in Nat /\ shown \in Nat /\ commands \in 0 .. MaxCommands
    /\ screen \in Screens
    /\ ghost \in [skewed : BOOLEAN, draft : Texts, drafted : BOOLEAN, stale : BOOLEAN]

\* While a page is on, no line is being edited.
PagedInv == pager > 0 => line = <<>> /\ cursor = 0

\* Whoever recalls an entry has pressed Up since the prompt, and then the saved
\* text is the one it was pressed on.
DraftInv ==
    /\ ghost.drafted => browse # -1
    /\ browse # -1 /\ ~ghost.stale => ghost.drafted /\ temp = ghost.draft

IInv ==
    /\ LineTypes /\ TabTypes /\ BrowseTypes /\ OtherTypes
    /\ PagedInv /\ RowShowsLine /\ DraftInv /\ NoMoreThanAPage

LEMMA EmptyIsText == <<>> \in Texts /\ Len(<<>>) = 0
  BY EditorAssumption DEF Texts

LEMMA LeftIsText ==
    ASSUME LineTypes
    PROVE  LeftOfCursor \in Texts /\ Len(LeftOfCursor) = cursor
  <1>1. line \in Seq(Chars) /\ Len(line) <= MaxLine /\ cursor \in 0 .. Len(line)
    BY DEF LineTypes, Texts
  <1>2. SubSeq(line, 1, cursor) \in Seq(Chars) /\ Len(SubSeq(line, 1, cursor)) = cursor
    BY <1>1, SubSeqProperties
  <1>3. Len(SubSeq(line, 1, cursor)) <= MaxLine
    BY <1>1, <1>2, EditorAssumption
  <1> QED BY <1>2, <1>3, Zenon DEF LeftOfCursor, Texts

LEMMA InitInv == Init => IInv
  <1> SUFFICES ASSUME Init PROVE IInv
    OBVIOUS
  <1>1. LineTypes /\ PagedInv /\ DraftInv
    BY EmptyIsText DEF Init, LineTypes, PagedInv, DraftInv
  <1>2. TabTypes
    BY EmptyIsText DEF Init, TabTypes, NoTab
  <1>3. BrowseTypes
    <2>1. <<>> \in Seq(Texts)
      OBVIOUS
    <2> QED BY <2>1, EmptyIsText, EditorAssumption DEF Init, BrowseTypes
  <1>4. Row(<<>>) \in [Columns -> Chars]
    <2>1. <<>> \in Seq(Chars)
      OBVIOUS
    <2> QED BY <2>1, RowType
  <1>5. screen \in Screens
    <2>1. [text |-> Row(<<>>), col |-> 0, prompted |-> TRUE] \in Screens
      BY <1>4 DEF Screens
    <2> QED BY <2>1, BlankIs, Zenon DEF Init
  <1>6. OtherTypes
    <2>1. state \in {"NORMAL", "ESC", "CSI"} /\ pager \in Nat /\ shown \in Nat
      BY DEF Init
    <2>2. commands \in 0 .. MaxCommands
      BY EditorAssumption DEF Init
    <2>3. ghost \in [skewed : BOOLEAN, draft : Texts, drafted : BOOLEAN, stale : BOOLEAN]
      BY EmptyIsText, Zenon DEF Init
    <2> QED BY <1>5, <2>1, <2>2, <2>3, Zenon DEF OtherTypes
  <1>7. RowShowsLine
    <2>1. screen.text = Row(<<>>) /\ screen.col = 0 /\ screen.prompted
      BY BlankIs DEF Init
    <2>2. Redrawn(line).text = Row(<<>>)
      BY RedrawnIs, EmptyIsText DEF Init
    <2> QED BY <2>1, <2>2 DEF Init, RowShowsLine
  <1>8. NoMoreThanAPage
    BY EditorAssumption DEF Init, NoMoreThanAPage
  <1> QED BY <1>1, <1>2, <1>3, <1>6, <1>7, <1>8 DEF IInv

-----------------------------------------------------------------------------
(***************************************************************************)
(* What TAB does                                                           *)
(***************************************************************************)

\* The text completed is a text, and pressed again it is the one the cycle
\* began with.
LEMMA TabTextIs ==
    ASSUME LineTypes, TabTypes
    PROVE  /\ TabText \in Texts
           /\ NextMatch(Len(Completions(TabText))) \in Nat
           /\ Len(Completions(TabText)) > 1 =>
                NextMatch(Len(Completions(TabText))) < Len(Completions(TabText))
  <1>1. TabText \in Texts
    BY LeftIsText DEF TabText, TabTypes
  <1>2. Completions(TabText) \in Seq(Nodes)
    BY <1>1, CompletionsAre
  <1> DEFINE n == Len(Completions(TabText))
  <1>3. n \in Nat
    BY <1>2
  <1>4. tab.cycling => n > 1 /\ tab.index \in Nat
    BY DEF TabText, TabTypes
  <1> HIDE DEF n
  <1>5. NextMatch(n) \in Nat /\ (n > 1 => NextMatch(n) < n)
    <2>1. CASE tab.cycling
      <3>1. NextMatch(n) = (tab.index + 1) % n
        BY <2>1 DEF NextMatch
      <3>2. tab.index + 1 \in Nat /\ n > 0
        BY <1>3, <1>4, <2>1
      <3> QED BY <1>3, <3>1, <3>2
    <2>2. CASE ~tab.cycling
      <3>1. NextMatch(n) = 0
        BY <2>2 DEF NextMatch
      <3> QED BY <1>3, <3>1
    <2> QED BY <2>1, <2>2
  <1> QED BY <1>1, <1>5 DEF n

\* What TAB leaves is a text that continues the one it was pressed on.
LEMMA TabKeeps ==
    ASSUME LineTypes, TabTypes, Tab
    PROVE  /\ line' \in Texts
           /\ \/ IsPrefix(TabText, line')
              \/ Trailing(TabText) /\ line' = Front(TabText)
           /\ TabTypes'
  <1> DEFINE nodes == Completions(TabText)
             next == NextMatch(Len(nodes))
  <1>1. /\ TabText \in Texts /\ next \in Nat /\ (Len(nodes) > 1 => next < Len(nodes))
    BY TabTextIs
  <1>2. nodes \in Seq(Nodes)
    BY <1>1, CompletionsAre
  <1>3. ASSUME NEW i \in DOMAIN nodes
        PROVE  LET applied == Applied(nodes[i], TabText, Trailing(TabText))
               IN  /\ applied \in Texts
                   /\ \/ IsPrefix(TabText, applied)
                      \/ Trailing(TabText) /\ applied = Front(TabText)
    <2>1. nodes[i] \in Nodes
      BY <1>2
    <2>2. ~Trailing(TabText) /\ nodes[i].kind = "keyword"
            => IsPrefix(LastWord(TabText), nodes[i].name)
      BY <1>1, CompletionsAre
    <2> QED BY <1>1, <2>1, <2>2, AppliedKeeps
  <1>4. CASE Len(nodes) > 1
    <2>1. /\ line' = Applied(nodes[next + 1], TabText, Trailing(TabText))
          /\ tab' = [cycling |-> TRUE, index |-> next, original |-> TabText]
      BY <1>4, Zenon DEF Tab
    <2>2. next + 1 \in DOMAIN nodes
      BY <1>1, <1>2, <1>4
    <2>3. TabTypes'
      <3>1. tab' \in [cycling : BOOLEAN, index : Nat, original : Texts]
        BY <1>1, <2>1
      <3>2. tab'.index = next /\ tab'.original = TabText
        BY <2>1
      <3> QED BY <1>1, <1>4, <3>1, <3>2, Zenon DEF TabTypes
    <2> QED BY <1>3, <2>1, <2>2, <2>3, Zenon
  <1>5. CASE ~(Len(nodes) > 1)
    <2>1. /\ line' = IF nodes = <<>> THEN LeftOfCursor
                     ELSE Applied(nodes[1], LeftOfCursor, Trailing(TabText))
          /\ tab' = [tab EXCEPT !.cycling = FALSE]
      BY <1>5, Zenon DEF Tab
    <2>2. TabText = LeftOfCursor /\ ~tab.cycling
      BY <1>5 DEF TabText, TabTypes
    <2>3. TabTypes'
      BY <2>1 DEF TabTypes
    <2>4. CASE nodes = <<>>
      <3>1. line' = TabText
        BY <2>1, <2>2, <2>4, Zenon
      <3>2. IsPrefix(TabText, TabText)
        BY <1>1, PrefixIs DEF Texts
      <3> QED BY <1>1, <2>3, <3>1, <3>2
    <2>5. CASE nodes # <<>>
      <3>1. 1 \in DOMAIN nodes
        BY <1>2, <2>5
      <3>2. line' = Applied(nodes[1], TabText, Trailing(TabText))
        BY <2>1, <2>2, <2>5, Zenon
      <3> QED BY <1>3, <2>3, <3>1, <3>2, Zenon
    <2> QED BY <2>4, <2>5
  <1> QED BY <1>4, <1>5

-----------------------------------------------------------------------------
(***************************************************************************)
(* The line and the history                                                *)
(***************************************************************************)

\* What the arrows load from the history, or from the text saved, is a text.
LEMMA LoadedIsText ==
    ASSUME BrowseTypes, NEW i \in 1 .. Len(history)
    PROVE  history[i] \in Texts
  BY DEF BrowseTypes

LEMMA UpKeeps ==
    ASSUME LineTypes, BrowseTypes, ArrowUp
    PROVE  /\ LineTypes' /\ BrowseTypes'
           /\ UNCHANGED <<line, cursor, screen, browse>>
                \/ /\ screen' = Redrawn(line') /\ cursor' = Len(line')
                   /\ browse' # browse
  <1>1. history' = history
    BY DEF ArrowUp, Arrow
  <1>2. CASE browse + 1 < Len(history)
    <2>1. /\ browse' = browse + 1 /\ temp' = IF browse = -1 THEN line ELSE temp
          /\ line' = history[browse' + 1] /\ cursor' = Len(history[browse' + 1])
          /\ screen' = Redrawn(history[browse' + 1])
      BY <1>2, Zenon DEF ArrowUp, Load
    <2>2. browse' \in -1 .. Len(history) - 1 /\ browse' + 1 \in 1 .. Len(history)
          /\ browse' # browse
      BY <1>2, <2>1 DEF BrowseTypes
    <2>3. line' \in Texts
      BY <2>1, <2>2, LoadedIsText
    <2>4. BrowseTypes'
      BY <1>1, <2>1, <2>2 DEF BrowseTypes, LineTypes
    <2>5. cursor' = Len(line') /\ screen' = Redrawn(line')
      BY <2>1, Zenon
    <2>6. cursor' \in 0 .. Len(line')
      BY <2>3, <2>5 DEF Texts
    <2> QED BY <2>2, <2>3, <2>4, <2>5, <2>6, Zenon DEF LineTypes
  <1>3. CASE ~(browse + 1 < Len(history))
    <2>1. UNCHANGED <<browse, temp, line, cursor, screen>>
      BY <1>3, Zenon DEF ArrowUp, editing
    <2> QED BY <1>1, <2>1 DEF LineTypes, BrowseTypes
  <1> QED BY <1>2, <1>3

LEMMA DownKeeps ==
    ASSUME LineTypes, BrowseTypes, ArrowDown
    PROVE  /\ LineTypes' /\ BrowseTypes'
           /\ UNCHANGED <<line, cursor, screen, browse>>
                \/ /\ screen' = Redrawn(line') /\ cursor' = Len(line')
                   /\ browse' # browse
           /\ browse = 0 => line' = temp
  <1>1. history' = history /\ temp' = temp
    BY DEF ArrowDown, Arrow
  <1>2. CASE browse # -1
    <2> DEFINE text == IF browse > 0 THEN history[browse] ELSE temp
    <2>1. /\ browse' = browse - 1
          /\ line' = text /\ cursor' = Len(text) /\ screen' = Redrawn(text)
      BY <1>2, Zenon DEF ArrowDown, Load
    <2>2. browse' \in -1 .. Len(history) - 1 /\ browse' # browse
          /\ (browse > 0 => browse \in 1 .. Len(history))
      BY <1>2, <2>1 DEF BrowseTypes
    <2>3. text \in Texts
      BY <2>2, LoadedIsText DEF BrowseTypes
    <2>4. BrowseTypes'
      BY <1>1, <2>1, <2>2 DEF BrowseTypes
    <2>5. cursor' = Len(line') /\ screen' = Redrawn(line') /\ line' \in Texts
      BY <2>1, <2>3, Zenon
    <2>6. cursor' \in 0 .. Len(line')
      BY <2>5 DEF Texts
    <2>7. browse = 0 => line' = temp
      BY <2>1
    <2> QED BY <2>2, <2>4, <2>5, <2>6, <2>7, Zenon DEF LineTypes
  <1>3. CASE browse = -1
    <2>1. UNCHANGED <<browse, line, cursor, screen>>
      BY <1>3, Zenon DEF ArrowDown, editing
    <2> QED BY <1>1, <1>3, <2>1 DEF LineTypes, BrowseTypes
  <1> QED BY <1>2, <1>3

\* Every key leaves a line that fits, and the cursor in it.
LEMMA LineKept ==
    ASSUME IInv, [Next]_vars
    PROVE  LineTypes'
  <1>1. line \in Seq(Chars) /\ Len(line) <= MaxLine /\ cursor \in 0 .. Len(line)
    BY DEF IInv, LineTypes, Texts
  <1>2. ASSUME NEW c \in Typed, Regular(c) PROVE LineTypes'
    <2>1. /\ Len(line) < MaxLine /\ cursor' = cursor + 1 /\ c \in Chars
          /\ line' = InsertAt(line, cursor + 1, c)
      BY <1>2, EditorAssumption DEF Regular, HasRoom
    <2>2. line' \in Seq(Chars) /\ Len(line') = Len(line) + 1
      BY <1>1, <2>1, Inserted
    <2> QED BY <1>1, <2>1, <2>2, EditorAssumption DEF LineTypes, Texts
  <1>3. CASE Backspace
    <2>1. CASE cursor = 0
      BY <1>1, <1>3, <2>1 DEF Backspace, LineTypes, Texts
    <2>2. CASE cursor # 0
      <3>1. cursor' = cursor - 1 /\ line' = RemoveAt(line, cursor)
        BY <1>3, <2>2 DEF Backspace
      <3>2. line' \in Seq(Chars) /\ Len(line') = Len(line) - 1
        BY <1>1, <2>2, <3>1, Removed
      <3> QED BY <1>1, <2>2, <3>1, <3>2, EditorAssumption DEF LineTypes, Texts
    <2> QED BY <2>1, <2>2
  <1>4. CASE ArrowUp \/ ArrowDown
    BY <1>4, UpKeeps, DownKeeps DEF IInv
  <1>5. CASE ArrowLeft \/ ArrowRight
    BY <1>1, <1>5 DEF ArrowLeft, ArrowRight, LineTypes, Texts
  <1>6. CASE Tab
    <2>1. line' \in Texts /\ cursor' = Len(line')
      BY <1>6, TabKeeps DEF IInv, Tab
    <2> QED BY <2>1 DEF LineTypes, Texts
  <1>7. CASE Help
    <2>1. line' = LeftOfCursor /\ cursor' = cursor
      BY <1>7 DEF Help
    <2>2. line' \in Texts /\ Len(line') = cursor'
      BY <2>1, LeftIsText DEF IInv
    <2> QED BY <1>1, <2>1, <2>2 DEF LineTypes
  <1>8. CASE Enter
    BY <1>8, EmptyIsText DEF Enter, LineTypes
  <1>9. CASE \/ Refused \/ Escape \/ AfterEscape \/ OtherSequence \/ EnterNothing
             \/ PagerPage \/ PagerLine \/ PagerQuit \/ UNCHANGED vars
    <2>1. UNCHANGED <<line, cursor>>
      BY <1>9 DEF Refused, Escape, AfterEscape, OtherSequence, EnterNothing, PagerPage, PagerLine,
                  PagerShows, PagerQuit, editing, vars
    <2> QED BY <1>1, <2>1 DEF LineTypes, Texts
  <1> QED BY <1>2, <1>3, <1>4, <1>5, <1>6, <1>7, <1>8, <1>9 DEF Next, OtherKey

LEMMA TabKept ==
    ASSUME IInv, [Next]_vars
    PROVE  TabTypes'
  <1>1. CASE Tab
    BY <1>1, TabKeeps DEF IInv
  <1>2. CASE EndCycling
    BY <1>2 DEF EndCycling, IInv, TabTypes
  <1>3. CASE UNCHANGED tab
    BY <1>3 DEF IInv, TabTypes
  <1> QED BY <1>1, <1>2, <1>3 DEF Next, OtherKey, Regular, Refused, Backspace, Escape,
             AfterEscape, OtherSequence,
             ArrowUp, ArrowDown, ArrowLeft, ArrowRight, Arrow, Help, Enter, EnterNothing,
             PagerPage, PagerLine, PagerShows, PagerQuit, vars

LEMMA RememberedAreTexts ==
    ASSUME NEW known \in Seq(Texts), Len(known) <= HistorySize, NEW cmd \in Texts
    PROVE  /\ Recent!Remember(known, cmd) \in Seq(Texts)
           /\ Len(Recent!Remember(known, cmd)) <= HistorySize
  <1>1. CASE Recent!Repeats(known, cmd)
    BY <1>1 DEF Recent!Remember
  <1>2. CASE ~Recent!Repeats(known, cmd)
    <2> DEFINE n == Recent!KeptLength(known)
               new == [i \in 1 .. n |-> IF i = 1 THEN cmd ELSE known[i - 1]]
    <2>1. n \in Nat /\ n <= HistorySize /\ n <= Len(known) + 1
      BY EditorAssumption DEF Recent!KeptLength
    <2>2. Recent!Remember(known, cmd) = new
      BY <1>2 DEF Recent!Remember
    <2> HIDE DEF n
    <2>3. \A i \in 1 .. n : i # 1 => known[i - 1] \in Texts
      BY <2>1
    <2>4. new \in [1 .. n -> Texts]
      BY <2>3
    <2>5. new \in Seq(Texts) /\ Len(new) = n
      BY <2>1, <2>4, IsASeq, LenProperties
    <2> QED BY <2>1, <2>2, <2>5
  <1> QED BY <1>1, <1>2

LEMMA BrowseKept ==
    ASSUME IInv, [Next]_vars
    PROVE  BrowseTypes'
  <1>1. CASE ArrowUp \/ ArrowDown
    BY <1>1, UpKeeps, DownKeeps DEF IInv
  <1>2. CASE Enter
    <2>1. history' = Recent!Remember(history, line) /\ browse' = -1 /\ temp' = temp
      BY <1>2 DEF Enter
    <2>2. history' \in Seq(Texts) /\ Len(history') <= HistorySize
      BY <2>1, RememberedAreTexts DEF IInv, BrowseTypes, LineTypes
    <2>3. browse' \in -1 .. Len(history') - 1
      BY <2>1, <2>2
    <2> QED BY <2>1, <2>2, <2>3, Zenon DEF BrowseTypes, IInv
  <1>3. CASE UNCHANGED <<history, browse, temp>>
    BY <1>3 DEF IInv, BrowseTypes
  <1> QED BY <1>1, <1>2, <1>3 DEF Next, OtherKey, Regular, Refused, Backspace, Escape,
             AfterEscape, OtherSequence,
             ArrowLeft, ArrowRight, Arrow, Tab, Help, EnterNothing,
             PagerPage, PagerLine, PagerShows, PagerQuit, browsing, vars

\* Output of n lines, and n more lines of a page: a page at most.
LEMMA ShownIs ==
    ASSUME NEW n \in Nat, NEW m \in Nat
    PROVE  /\ Min({n, m}) \in Nat /\ Min({n, m}) <= n /\ Min({n, m}) <= m
           /\ n - Min({n, m}) \in Nat /\ m - Min({n, m}) \in Nat
  BY MinOfTwo

LEMMA PageKept ==
    ASSUME IInv, [Next]_vars
    PROVE  pager' \in Nat /\ shown' \in Nat /\ NoMoreThanAPage' /\ PagedInv'
  <1>1. /\ pager \in Nat /\ shown \in Nat /\ shown <= PageSize /\ PageSize \in Nat
        /\ 0 <= PageSize /\ 1 <= PageSize
    BY EditorAssumption DEF IInv, OtherTypes, NoMoreThanAPage
  <1>2. CASE Enter
    <2>1. PICK n \in Nat : Output(n)
      BY <1>2, EditorAssumption DEF Enter
    <2>2. shown' = Min({n, PageSize}) /\ pager' = n - shown'
      BY <2>1 DEF Output
    <2>3. shown' \in Nat /\ shown' <= PageSize /\ pager' \in Nat
      BY <1>1, <2>2, ShownIs
    <2> QED BY <1>2, <2>3 DEF Enter, NoMoreThanAPage, PagedInv
  <1>3. CASE PagerPage \/ PagerLine
    <2>1. PICK n \in {1, PageSize} : PagerShows(n)
      BY <1>3 DEF PagerPage, PagerLine
    <2>2. /\ pager > 0 /\ shown' = Min({n, pager}) /\ pager' = pager - shown'
          /\ UNCHANGED <<line, cursor>>
      BY <2>1 DEF PagerShows, editing
    <2>3. n \in Nat /\ n <= PageSize
      BY <1>1, <2>1
    <2>4. shown' \in Nat /\ shown' <= PageSize /\ pager' \in Nat
      BY <1>1, <2>2, <2>3, ShownIs
    <2> QED BY <2>2, <2>4 DEF NoMoreThanAPage, PagedInv, IInv
  <1>4. CASE PagerQuit
    BY <1>1, <1>4 DEF PagerQuit, NoMoreThanAPage, PagedInv
  <1>5. CASE pager' = pager /\ pager = 0 /\ shown' \in {0, shown}
    BY <1>1, <1>5 DEF NoMoreThanAPage, PagedInv
  <1>6. CASE UNCHANGED vars
    BY <1>1, <1>6 DEF vars, editing, paging, NoMoreThanAPage, PagedInv, IInv
  <1> QED BY <1>2, <1>3, <1>4, <1>5, <1>6 DEF Next, OtherKey, Regular, Refused, Backspace, Escape,
             AfterEscape,
             OtherSequence, ArrowUp, ArrowDown, ArrowLeft, ArrowRight, Arrow, Tab, Help,
             EnterNothing, Editing, paging

\* The saved text stays the one Up was pressed on.
LEMMA DraftKept ==
    ASSUME IInv, [Next]_vars
    PROVE  /\ ghost' \in [skewed : BOOLEAN, draft : Texts, drafted : BOOLEAN, stale : BOOLEAN]
           /\ DraftInv'
  <1> DEFINE Ghosts == [skewed : BOOLEAN, draft : Texts, drafted : BOOLEAN, stale : BOOLEAN]
  <1>1. ghost \in Ghosts /\ DraftInv /\ line \in Texts /\ browse \in -1 .. Len(history) - 1
        /\ Len(history) \in Nat
    BY DEF IInv, OtherTypes, LineTypes, BrowseTypes
  <1>2. CASE ArrowUp
    <2>1. ghost' = [ghost EXCEPT !.skewed = ghost.skewed /\ browse' = browse,
                                 !.draft = IF ghost.drafted THEN ghost.draft ELSE line,
                                 !.drafted = ghost.drafted \/ Len(history) > 0]
      BY <1>2 DEF ArrowUp
    <2>2. ghost' \in Ghosts
      BY <1>1, <2>1, Zenon
    <2>3. /\ ghost'.draft = IF ghost.drafted THEN ghost.draft ELSE line
          /\ ghost'.drafted <=> ghost.drafted \/ Len(history) > 0
          /\ ghost'.stale = ghost.stale
      BY <1>1, <2>1, Zenon
    <2>4. CASE browse + 1 < Len(history)
      <3>1. browse' = browse + 1 /\ temp' = IF browse = -1 THEN line ELSE temp
        BY <1>2, <2>4 DEF ArrowUp
      <3>2. browse' # -1 /\ Len(history) > 0
        BY <1>1, <2>4, <3>1
      <3> QED BY <1>1, <2>2, <2>3, <3>1, <3>2, Zenon DEF DraftInv
    <2>5. CASE ~(browse + 1 < Len(history))
      <3>1. browse' = browse /\ temp' = temp
        BY <1>2, <2>5 DEF ArrowUp
      <3>2. Len(history) > 0 => browse # -1
        BY <1>1, <2>5
      <3> QED BY <1>1, <2>2, <2>3, <3>1, <3>2, Zenon DEF DraftInv
    <2> QED BY <2>4, <2>5
  <1>3. CASE ArrowDown
    <2>1. /\ temp' = temp /\ (browse = -1 => browse' = -1)
          /\ ghost' = [ghost EXCEPT !.skewed = ghost.skewed /\ browse' = browse,
                                    !.draft = IF browse' = -1 THEN <<>> ELSE ghost.draft,
                                    !.drafted = ghost.drafted /\ browse' # -1]
      BY <1>3 DEF ArrowDown
    <2>2. ghost' \in Ghosts
      BY <1>1, <2>1, EmptyIsText, Zenon
    <2>3. /\ ghost'.draft = IF browse' = -1 THEN <<>> ELSE ghost.draft
          /\ ghost'.drafted <=> ghost.drafted /\ browse' # -1
          /\ ghost'.stale = ghost.stale
      BY <1>1, <2>1, Zenon
    <2> QED BY <1>1, <2>1, <2>2, <2>3, Zenon DEF DraftInv
  <1>4. CASE Enter
    <2>1. browse' = -1
          /\ ghost' = [ghost EXCEPT !.skewed = FALSE, !.draft = <<>>,
                                    !.drafted = FALSE, !.stale = FALSE]
      BY <1>4 DEF Enter
    <2> QED BY <1>1, <2>1, EmptyIsText, Zenon DEF DraftInv
  <1>5. CASE EnterNothing
    <2>1. /\ browse' = browse
          /\ ghost' = [ghost EXCEPT !.skewed = FALSE, !.draft = <<>>, !.drafted = FALSE,
                                    !.stale = ghost.stale \/ browse # -1]
      BY <1>5 DEF EnterNothing, browsing
    <2> QED BY <1>1, <2>1, EmptyIsText, Zenon DEF DraftInv
  <1>6. CASE /\ \E b \in BOOLEAN : ghost' = [ghost EXCEPT !.skewed = b]
             /\ UNCHANGED <<browse, temp>>
    BY <1>1, <1>6, Zenon DEF DraftInv
  <1>7. CASE UNCHANGED <<ghost, browse, temp>>
    BY <1>1, <1>7 DEF DraftInv
  <1>8. ASSUME NEW c \in Typed, Regular(c)
        PROVE  /\ \E b \in BOOLEAN : ghost' = [ghost EXCEPT !.skewed = b]
               /\ UNCHANGED <<browse, temp>>
    <2>1. ghost' = [ghost EXCEPT !.skewed = ghost.skewed \/ cursor < Len(line)]
          /\ UNCHANGED <<browse, temp>>
      BY <1>8 DEF Regular, browsing
    <2> QED BY <2>1, Zenon
  <1>9. CASE Tab \/ Help
    BY <1>6, <1>9 DEF Tab, Help, Straightened, browsing
  <1>10. CASE \/ Refused \/ Backspace \/ Escape \/ AfterEscape \/ OtherSequence \/ ArrowLeft \/ ArrowRight
              \/ PagerPage \/ PagerLine \/ PagerQuit \/ UNCHANGED vars
    BY <1>7, <1>10 DEF Refused, Backspace, Escape, AfterEscape, OtherSequence, ArrowLeft, ArrowRight,
       PagerPage, PagerLine, PagerShows, PagerQuit, browsing, vars
  <1> QED BY <1>2, <1>3, <1>4, <1>5, <1>6, <1>8, <1>9, <1>10 DEF Next, OtherKey

-----------------------------------------------------------------------------
(***************************************************************************)
(* The row of the terminal                                                 *)
(***************************************************************************)

\* A row drawn from its prompt shows the line, with the cursor at its end.
LEMMA DrawnRow ==
    ASSUME NEW s \in Texts
    PROVE  /\ Redrawn(s) \in Screens
           /\ Redrawn(s).prompted = TRUE /\ Redrawn(s).col = Len(s) /\ Redrawn(s).text = Row(s)
  <1>1. Redrawn(s) = [text |-> Row(s), col |-> Len(s), prompted |-> TRUE]
    BY RedrawnIs
  <1>2. s \in Seq(Chars) /\ Len(s) \in Int
    BY DEF Texts
  <1>3. Row(s) \in [Columns -> Chars]
    BY <1>2, RowType
  <1>4. [text |-> Row(s), col |-> Len(s), prompted |-> TRUE] \in Screens
    BY <1>2, <1>3, Zenon DEF Screens
  <1>5. Redrawn(s) \in Screens
    BY <1>1, <1>4, Zenon
  <1> QED BY <1>1, <1>5

LEMMA BlankRow ==
    ASSUME NEW p \in BOOLEAN
    PROVE  /\ Blank(p) \in Screens
           /\ Blank(p).prompted = p /\ Blank(p).col = 0 /\ Blank(p).text = Row(<<>>)
  <1>1. Blank(p) = [text |-> Row(<<>>), col |-> 0, prompted |-> p]
    BY BlankIs
  <1>2. Row(<<>>) \in [Columns -> Chars]
    <2>1. <<>> \in Seq(Chars)
      OBVIOUS
    <2> QED BY <2>1, RowType
  <1>3. [text |-> Row(<<>>), col |-> 0, prompted |-> p] \in Screens
    BY <1>2 DEF Screens
  <1>4. Blank(p) \in Screens
    BY <1>1, <1>3, Zenon
  <1> QED BY <1>1, <1>4

\* The row shows the line, in the terms of the lemmas.
RowIs(scr, s, at) == scr.prompted /\ scr.col = at /\ scr.text = Row(s)

LEMMA RowShowsIs ==
    ASSUME line \in Texts
    PROVE  RowShowsLine <=> (pager = 0 /\ ~ghost.skewed => RowIs(screen, line, cursor))
  BY DrawnRow DEF RowShowsLine, RowIs

\* A row that shows a text shows blanks behind it.
LEMMA RowBehind ==
    ASSUME NEW s \in Texts
    PROVE  /\ \A c \in Columns : c < Len(s) => Row(s)[c] = s[c + 1]
           /\ \A c \in Columns : c >= Len(s) => Row(s)[c] = Space
  <1>1. Len(s) \in Nat /\ DOMAIN s = 1 .. Len(s)
    BY DEF Texts
  <1>2. \A c \in Columns : c \in Nat
    BY EditorAssumption DEF Columns
  <1>3. \A c \in Columns : Row(s)[c] = IF c + 1 \in DOMAIN s THEN s[c + 1] ELSE Space
    BY DEF Row
  <1> QED BY <1>1, <1>2, <1>3

\* A character echoed at the end of the line.
LEMMA EchoShows ==
    ASSUME NEW s \in Texts, NEW t \in Texts, NEW c \in Chars, NEW scr \in Screens,
           RowIs(scr, s, Len(s)), Len(t) = Len(s) + 1,
           \A i \in 1 .. Len(t) : t[i] = IF i <= Len(s) THEN s[i] ELSE c
    PROVE  RowIs(Put(scr, <<c>>), t, Len(t))
  <1> DEFINE d == <<c>>
  <1>1. d \in Seq(Chars) /\ Len(d) = 1 /\ DOMAIN d = 1 .. 1 /\ d[1] = c
    OBVIOUS
  <1> HIDE DEF d
  <1>2. Len(s) \in Nat /\ DOMAIN t = 1 .. Len(s) + 1 /\ DOMAIN s = 1 .. Len(s)
    BY DEF Texts
  <1>3. scr.prompted /\ scr.col = Len(s) /\ scr.text = Row(s)
    BY DEF RowIs
  <1>4. ASSUME NEW x \in Columns
        PROVE  (IF x - scr.col + 1 \in DOMAIN d THEN d[x - scr.col + 1] ELSE scr.text[x])
                 = (IF x + 1 \in DOMAIN t THEN t[x + 1] ELSE Space)
    <2>1. x \in Nat /\ scr.col \in Nat /\ DOMAIN t = 1 .. scr.col + 1
      BY <1>2, <1>3, EditorAssumption DEF Columns
    <2>2. scr.text[x] = IF x < scr.col THEN s[x + 1] ELSE Space
      BY <1>2, <1>3, <2>1, RowBehind
    <2>3. CASE x = scr.col
      <3>1. x - scr.col + 1 = 1
        BY <2>1, <2>3
      <3>2. t[x + 1] = c /\ x + 1 \in DOMAIN t
        BY <1>2, <1>3, <2>3
      <3> QED BY <1>1, <3>1, <3>2
    <2>4. CASE x < scr.col
      <3>1. x - scr.col + 1 \notin DOMAIN d
        BY <1>1, <2>1, <2>4
      <3>2. t[x + 1] = s[x + 1] /\ x + 1 \in DOMAIN t
        BY <1>2, <1>3, <2>1, <2>4
      <3> QED BY <2>2, <2>4, <3>1, <3>2
    <2>5. CASE x > scr.col
      <3>1. x - scr.col + 1 \notin DOMAIN d /\ x + 1 \notin DOMAIN t /\ ~(x < scr.col)
        BY <1>1, <2>1, <2>5
      <3> QED BY <2>2, <3>1
    <2>6. x < scr.col \/ x = scr.col \/ x > scr.col
      BY <2>1
    <2> QED BY <2>3, <2>4, <2>5, <2>6, Zenon
  <1>5. Put(scr, d) = [text |-> Row(t), col |-> Len(s) + 1, prompted |-> scr.prompted]
    <2>1. [x \in Columns |-> IF x - scr.col + 1 \in DOMAIN d
                             THEN d[x - scr.col + 1] ELSE scr.text[x]] = Row(t)
      BY <1>4, Zenon DEF Row
    <2>2. scr.col + Len(d) = Len(s) + 1
      BY <1>1, <1>3
    <2> QED BY <2>1, <2>2, Zenon DEF Put
  <1>6. RowIs(Put(scr, d), t, Len(t))
    BY <1>3, <1>5 DEF RowIs
  <1> QED BY <1>6 DEF d

\* A character deleted: what was right of it moves one column to the left.
LEMMA DeletionShows ==
    ASSUME NEW s \in Texts, NEW k \in 1 .. Len(s), NEW scr \in Screens, RowIs(scr, s, k)
    PROVE  RowIs(RedrawFrom(Back(scr, 1), RemoveAt(s, k), k - 1), RemoveAt(s, k), k - 1)
  <1> DEFINE t == RemoveAt(s, k)
             moved == Back(scr, 1)
  <1>1. s \in Seq(Chars) /\ Len(s) \in Nat /\ Len(s) <= MaxLine
    BY DEF Texts
  <1>2. t \in Seq(Chars) /\ Len(t) = Len(s) - 1 /\ \A i \in 1 .. Len(s) - 1 : i < k => t[i] = s[i]
    BY <1>1, Removed
  <1>3. scr.prompted /\ scr.col = k /\ scr.text = Row(s)
    BY DEF RowIs
  <1>4. moved \in Screens /\ moved.col = k - 1 /\ moved.text = Row(s) /\ moved.prompted
    BY <1>3, BackIs
  <1> HIDE DEF t, moved
  <1>5. t \in Texts /\ k - 1 \in 0 .. Len(t)
    BY <1>1, <1>2, EditorAssumption DEF Texts
  <1>6. \A c \in Columns : c \in Nat
    BY EditorAssumption DEF Columns
  <1>7. \A c \in Columns : c < k - 1 => moved.text[c] = t[c + 1]
    BY <1>1, <1>2, <1>4, <1>6, RowBehind
  <1>8. \A c \in Columns : c > Len(t) => moved.text[c] = Space
    BY <1>1, <1>2, <1>4, <1>6, RowBehind
  <1>9. RedrawFrom(moved, t, k - 1) = [text |-> Row(t), col |-> k - 1, prompted |-> moved.prompted]
    BY <1>4, <1>5, <1>7, <1>8, RedrawFromIs
  <1>10. RowIs(RedrawFrom(moved, t, k - 1), t, k - 1)
    BY <1>4, <1>9 DEF RowIs
  <1> QED BY <1>10 DEF t, moved

\* At the end of the line the code sends "\b \b", which is that redraw.
LEMMA LastDeletion ==
    ASSUME NEW t \in Seq(Chars), NEW scr
    PROVE  Back(Put(scr, <<Space>>), 1) = RedrawFrom(scr, t, Len(t))
  <1>1. SubSeq(t, Len(t) + 1, Len(t)) = <<>>
    BY SubSeqEmpty
  <1>2. <<>> \o <<Space>> = <<Space>>
    OBVIOUS
  <1>3. Len(t) - Len(t) + 1 = 1
    OBVIOUS
  <1> QED BY <1>1, <1>2, <1>3, Zenon DEF RedrawFrom

\* What every key leaves on the row: a row of characters and, unless it was
\* skewed by an insertion, the line.
RowKept == screen' \in Screens /\ RowShowsLine'

LEMMA RedrawnKeeps ==
    ASSUME line' \in Texts, screen' = Redrawn(line'), cursor' = Len(line')
    PROVE  RowKept
  <1>1. screen' \in Screens /\ RowIs(screen', line', cursor')
    BY DrawnRow DEF RowIs
  <1>2. Redrawn(line').text = Row(line')
    BY DrawnRow
  <1> QED BY <1>1, <1>2 DEF RowKept, RowShowsLine, RowIs

LEMMA BlankKeeps ==
    ASSUME line' = <<>>, cursor' = 0, screen' = Blank(pager' = 0)
    PROVE  RowKept
  <1>1. screen' \in Screens /\ screen'.col = 0 /\ screen'.text = Row(<<>>)
        /\ (pager' = 0 => screen'.prompted)
    BY BlankRow
  <1>2. Redrawn(line').text = Row(<<>>)
    BY DrawnRow, EmptyIsText
  <1> QED BY <1>1, <1>2 DEF RowKept, RowShowsLine

\* A handler that sends only what changed.
LEMMA SentKeeps ==
    ASSUME NEW scr, screen' = Sent(scr), screen \in Screens, line' \in Texts,
           ghost.skewed \in BOOLEAN, scr \in Screens,
           ~ghost.skewed /\ ~ghost'.skewed => RowIs(scr, line', cursor'),
           ghost.skewed => ghost'.skewed
    PROVE  RowKept
  <1>1. CASE ghost.skewed
    BY <1>1 DEF Sent, RowKept, RowShowsLine
  <1>2. CASE ~ghost.skewed
    <2>1. screen' = scr
      BY <1>2 DEF Sent
    <2>2. Redrawn(line').text = Row(line')
      BY DrawnRow
    <2> QED BY <1>2, <2>1, <2>2 DEF RowKept, RowShowsLine, RowIs
  <1> QED BY <1>1, <1>2

LEMMA RegularRow ==
    ASSUME IInv, NEW c \in Typed, Regular(c), LineTypes'
    PROVE  RowKept
  <1>1. /\ line \in Texts /\ line \in Seq(Chars) /\ cursor \in 0 .. Len(line) /\ screen \in Screens
        /\ c \in Chars /\ line' \in Texts /\ ghost.skewed \in BOOLEAN /\ pager = 0
    BY EditorAssumption DEF IInv, LineTypes, OtherTypes, Texts, Regular, Editing
  <1>2. /\ line' = InsertAt(line, cursor + 1, c) /\ cursor' = cursor + 1
        /\ ghost'.skewed = (ghost.skewed \/ cursor < Len(line))
    BY DEF Regular, IInv, OtherTypes
  <1>3. /\ line' \in Seq(Chars) /\ Len(line') = Len(line) + 1
        /\ \A i \in 1 .. Len(line) + 1 :
             line'[i] = IF i <= cursor THEN line[i] ELSE IF i = cursor + 1 THEN c ELSE line[i - 1]
    <2>1. line' = InsertAt(line, cursor + 1, c)
      BY <1>2
    <2>2. line \in Seq(Chars) /\ cursor \in 0 .. Len(line) /\ c \in Chars
      BY <1>1
    <2> DEFINE new == InsertAt(line, cursor + 1, c)
    <2>3. /\ new \in Seq(Chars) /\ Len(new) = Len(line) + 1
          /\ \A i \in 1 .. Len(line) + 1 :
               new[i] = IF i <= cursor THEN line[i] ELSE IF i = cursor + 1 THEN c ELSE line[i - 1]
      BY <2>2, Inserted
    <2> HIDE DEF new
    <2> QED BY <2>1, <2>3 DEF new
  <1>4. CASE cursor < Len(line)
    <2>1. screen' = Sent(RedrawFrom(screen, line', cursor' - 1))
      BY <1>4 DEF Regular
    <2>2. cursor' - 1 \in 0 .. Len(line')
      BY <1>1, <1>2, <1>3
    <2>3. RedrawFrom(screen, line', cursor' - 1) \in Screens
      BY <1>1, <1>3, <2>2, RedrawFromType
    <2> QED BY <1>1, <1>2, <1>4, <2>1, <2>3, SentKeeps
  <1>5. CASE ~(cursor < Len(line))
    <2>1. screen' = Sent(Put(screen, <<c>>))
      BY <1>5 DEF Regular
    <2>2. cursor = Len(line) /\ cursor' = Len(line')
      BY <1>1, <1>2, <1>3, <1>5
    <2>3. Put(screen, <<c>>) \in Screens
      <3>1. <<c>> \in Seq(Chars)
        BY <1>1
      <3> QED BY <1>1, <3>1, PutType
    <2>4. ASSUME ~ghost.skewed PROVE RowIs(Put(screen, <<c>>), line', cursor')
      <3>1. RowIs(screen, line, Len(line))
        BY <1>1, <2>2, <2>4, RowShowsIs DEF IInv
      <3>2. \A i \in 1 .. Len(line') : line'[i] = IF i <= Len(line) THEN line[i] ELSE c
        BY <1>1, <1>3, <2>2
      <3> QED BY <1>1, <1>3, <2>2, <3>1, <3>2, EchoShows
    <2> QED BY <1>1, <1>2, <2>1, <2>3, <2>4, SentKeeps
  <1> QED BY <1>4, <1>5

LEMMA BackspaceRow ==
    ASSUME IInv, Backspace, LineTypes'
    PROVE  RowKept
  <1>1. /\ line \in Texts /\ line \in Seq(Chars) /\ cursor \in 0 .. Len(line) /\ screen \in Screens
        /\ line' \in Texts /\ ghost.skewed \in BOOLEAN /\ pager = 0
        /\ UNCHANGED <<ghost, pager>>
    BY DEF IInv, LineTypes, OtherTypes, Texts, Backspace, Editing
  <1>2. CASE cursor = 0
    <2>1. UNCHANGED <<line, cursor, screen>>
      BY <1>2 DEF Backspace
    <2> QED BY <1>1, <2>1 DEF RowKept, RowShowsLine, IInv
  <1>3. CASE cursor # 0
    <2> DEFINE scr == RedrawFrom(Back(screen, 1), line', cursor')
    <2>1. line' = RemoveAt(line, cursor) /\ cursor' = cursor - 1
      BY <1>3 DEF Backspace
    <2>2. line' \in Seq(Chars) /\ Len(line') = Len(line) - 1
      BY <1>1, <1>3, <2>1, Removed
    <2>3. cursor' \in 0 .. Len(line') /\ cursor \in 1 .. Len(line)
      BY <1>1, <1>3, <2>1, <2>2
    <2>4. screen' = Sent(scr)
      <3>1. CASE cursor < Len(line)
        BY <1>3, <3>1 DEF Backspace
      <3>2. CASE ~(cursor < Len(line))
        <4>1. cursor' = Len(line')
          BY <1>1, <2>1, <2>2, <3>2
        <4>2. screen' = Sent(Back(Put(Back(screen, 1), <<Space>>), 1))
          BY <1>3, <3>2 DEF Backspace
        <4>3. Back(Put(Back(screen, 1), <<Space>>), 1) = RedrawFrom(Back(screen, 1), line', Len(line'))
          BY <2>2, LastDeletion
        <4> QED BY <4>1, <4>2, <4>3, Zenon
      <3> QED BY <3>1, <3>2
    <2>5. scr \in Screens
      <3>1. Back(screen, 1) \in Screens
        BY <1>1, BackIs
      <3> QED BY <2>2, <2>3, <3>1, RedrawFromType, Zenon
    <2>6. ASSUME ~ghost.skewed PROVE RowIs(scr, line', cursor')
      <3>1. RowIs(screen, line, cursor)
        BY <1>1, <2>6, RowShowsIs DEF IInv
      <3>2. RowIs(RedrawFrom(Back(screen, 1), RemoveAt(line, cursor), cursor - 1),
                  RemoveAt(line, cursor), cursor - 1)
        BY <1>1, <2>3, <3>1, DeletionShows
      <3> QED BY <2>1, <3>2, Zenon
    <2> HIDE DEF scr
    <2> QED BY <1>1, <2>4, <2>5, <2>6, SentKeeps
  <1> QED BY <1>2, <1>3

LEMMA LeftRightRow ==
    ASSUME IInv, ArrowLeft \/ ArrowRight
    PROVE  RowKept
  <1>1. /\ line \in Texts /\ cursor \in Int /\ screen \in Screens
        /\ ghost.skewed \in BOOLEAN /\ pager = 0 /\ UNCHANGED <<line, ghost, pager>>
    BY DEF IInv, LineTypes, OtherTypes, Texts, ArrowLeft, ArrowRight, Arrow, paging
  <1>2. CASE UNCHANGED <<cursor, screen>>
    BY <1>1, <1>2 DEF RowKept, RowShowsLine, IInv
  <1>3. ASSUME NEW n \in {-1, 1}, cursor' = cursor - n, screen' = Sent(Back(screen, n))
        PROVE  RowKept
    <2>1. Back(screen, n) \in Screens
          /\ Back(screen, n) = [text |-> screen.text, col |-> screen.col - n,
                                prompted |-> screen.prompted]
      BY <1>1, BackIs
    <2>2. ASSUME ~ghost.skewed PROVE RowIs(Back(screen, n), line', cursor')
      <3>1. RowIs(screen, line, cursor)
        BY <1>1, <2>2, RowShowsIs DEF IInv
      <3> QED BY <1>1, <1>3, <2>1, <3>1 DEF RowIs
    <2> QED BY <1>1, <1>3, <2>1, <2>2, SentKeeps
  <1>4. CASE ArrowLeft
    BY <1>2, <1>3, <1>4 DEF ArrowLeft
  <1>5. CASE ArrowRight
    <2>1. CASE cursor < Len(line)
      <3>1. cursor' = cursor - (-1) /\ screen' = Sent(Back(screen, -1))
        BY <1>1, <1>5, <2>1 DEF ArrowRight
      <3> QED BY <1>3, <3>1
    <2>2. CASE ~(cursor < Len(line))
      BY <1>2, <1>5, <2>2 DEF ArrowRight
    <2> QED BY <2>1, <2>2
  <1> QED BY <1>4, <1>5

LEMMA RowStep ==
    ASSUME IInv, [Next]_vars, LineTypes'
    PROVE  RowKept
  <1>1. CASE \E c \in Typed : Regular(c)
    BY <1>1, RegularRow
  <1>2. CASE Backspace
    BY <1>2, BackspaceRow
  <1>3. CASE ArrowLeft \/ ArrowRight
    BY <1>3, LeftRightRow
  <1>4. CASE ArrowUp \/ ArrowDown
    <2>1. \/ UNCHANGED <<line, cursor, screen, browse>>
          \/ screen' = Redrawn(line') /\ cursor' = Len(line')
      BY <1>4, UpKeeps, DownKeeps DEF IInv
    <2>2. CASE UNCHANGED <<line, cursor, screen, browse>>
      <3>1. ghost'.skewed = ghost.skewed /\ pager' = pager
        BY <1>4, <2>2 DEF ArrowUp, ArrowDown, Arrow, paging, IInv, OtherTypes
      <3> QED BY <2>2, <3>1 DEF RowKept, RowShowsLine, IInv, OtherTypes
    <2> QED BY <2>1, <2>2, RedrawnKeeps DEF LineTypes
  <1>5. CASE Tab
    BY <1>5, RedrawnKeeps DEF Tab, LineTypes
  <1>6. CASE Help
    <2>1. line' = LeftOfCursor /\ cursor' = cursor /\ screen' = Redrawn(line')
      BY <1>6 DEF Help
    <2>2. cursor' = Len(line')
      BY <2>1, LeftIsText DEF IInv
    <2> QED BY <2>1, <2>2, RedrawnKeeps DEF LineTypes
  <1>7. CASE Enter \/ EnterNothing \/ PagerPage \/ PagerLine \/ PagerQuit
    <2>1. line' = <<>> /\ cursor' = 0
      <3>1. line = <<>> => cursor = 0
        BY EmptyIsText DEF IInv, LineTypes
      <3>2. pager > 0 => line = <<>> /\ cursor = 0
        BY DEF IInv, PagedInv
      <3> QED BY <1>7, <3>1, <3>2, Zenon DEF Enter, EnterNothing, PagerPage, PagerLine, PagerShows,
                 PagerQuit, editing
    <2>2. screen' = Blank(pager' = 0)
      BY <1>7 DEF Enter, Output, EnterNothing, Editing, PagerPage, PagerLine, PagerShows, PagerQuit
    <2> QED BY <2>1, <2>2, BlankKeeps
  <1>8. CASE Refused \/ Escape \/ AfterEscape \/ OtherSequence \/ UNCHANGED vars
    <2>1. UNCHANGED <<line, cursor, screen, ghost, pager>>
      BY <1>8 DEF Refused, Escape, AfterEscape, OtherSequence, Arrow, editing, paging, vars
    <2> QED BY <2>1 DEF RowKept, RowShowsLine, IInv, OtherTypes
  <1> QED BY <1>1, <1>2, <1>3, <1>4, <1>5, <1>6, <1>7, <1>8 DEF Next, OtherKey

-----------------------------------------------------------------------------
(***************************************************************************)
(* The theorems                                                            *)
(***************************************************************************)

LEMMA NextInv == IInv /\ [Next]_vars => IInv'
  <1> SUFFICES ASSUME IInv, [Next]_vars PROVE IInv'
    OBVIOUS
  <1>1. LineTypes'
    BY LineKept
  <1>2. TabTypes' /\ BrowseTypes'
    BY TabKept, BrowseKept
  <1>3. pager' \in Nat /\ shown' \in Nat /\ NoMoreThanAPage' /\ PagedInv'
    BY PageKept
  <1>4. DraftInv'
        /\ ghost' \in [skewed : BOOLEAN, draft : Texts, drafted : BOOLEAN, stale : BOOLEAN]
    BY DraftKept
  <1>5. screen' \in Screens /\ RowShowsLine'
    BY <1>1, RowStep DEF RowKept
  <1>6. state' \in {"NORMAL", "ESC", "CSI"}
    <2>1. state \in {"NORMAL", "ESC", "CSI"}
      BY DEF IInv, OtherTypes
    <2> QED BY <2>1 DEF Next, OtherKey, Regular, Refused, Backspace, Escape,
             AfterEscape, OtherSequence, ArrowUp,
               ArrowDown, ArrowLeft, ArrowRight, Arrow, Tab, Help, Enter, EnterNothing, PagerPage,
               PagerLine, PagerShows, PagerQuit, vars
  <1>7. commands' \in 0 .. MaxCommands
    <2>1. commands \in 0 .. MaxCommands /\ MaxCommands \in Nat
      BY EditorAssumption DEF IInv, OtherTypes
    <2>2. commands' = commands \/ (commands < MaxCommands /\ commands' = commands + 1)
      BY DEF Next, OtherKey, Regular, Refused, Backspace, Escape,
             AfterEscape, OtherSequence, ArrowUp,
             ArrowDown, ArrowLeft, ArrowRight, Arrow, Tab, Help, Enter, EnterNothing, PagerPage,
             PagerLine, PagerShows, PagerQuit, paging, vars
    <2> QED BY <2>1, <2>2
  <1>8. OtherTypes'
    BY <1>3, <1>4, <1>5, <1>6, <1>7, Zenon DEF OtherTypes
  <1> QED BY <1>1, <1>2, <1>3, <1>4, <1>5, <1>8, Zenon DEF IInv

\* IInv is invariant: what every theorem below rests on.
THEOREM Invariance == Spec => []IInv
  BY InitInv, NextInv, PTL DEF Spec

\* The line fits the buffer with its terminating zero, the cursor is in the
\* line, a cycle of TAB points at a node there is and the browse index at an
\* entry there is, after any keys (nn_cli_process_input).
THEOREM TypeCorrect == Spec => []TypeOK
  <1>1. IInv => TypeOK
    <2> SUFFICES ASSUME IInv PROVE TypeOK
      OBVIOUS
    <2>1. Len(line) <= MaxLine /\ cursor \in 0 .. Len(line)
      BY DEF IInv, LineTypes, Texts
    <2>2. tab.cycling \in BOOLEAN /\ tab.original \in Texts /\ tab.index \in Nat
      BY DEF IInv, TabTypes
    <2>3. Len(tab.original) <= MaxLine /\ Len(Completions(tab.original)) \in Nat
      BY <2>2, CompletionsAre DEF Texts
    <2>4. tab.cycling => tab.index \in 0 .. Len(Completions(tab.original)) - 1
      BY <2>2, <2>3 DEF IInv, TabTypes
    <2>5. Len(history) <= HistorySize /\ browse \in -1 .. Len(history) - 1
      BY DEF IInv, BrowseTypes
    <2>6. /\ state \in {"NORMAL", "ESC", "CSI"} /\ pager \in Nat /\ shown \in Nat
          /\ commands \in 0 .. MaxCommands /\ DOMAIN screen.text = Columns
      BY DEF IInv, OtherTypes, Screens
    <2> QED BY <2>1, <2>2, <2>3, <2>4, <2>5, <2>6, Zenon DEF TypeOK
  <1> QED BY <1>1, Invariance, PTL

\* The row of the terminal shows the line and its cursor, whatever was typed,
\* deleted, recalled, completed or paged, unless a character went in before
\* others since the row was drawn.
THEOREM RowIsTheLine == Spec => []RowShowsLine
  <1>1. IInv => RowShowsLine
    BY DEF IInv
  <1> QED BY <1>1, Invariance, PTL

\* No key makes more than a page scroll by (nn_cli_pager_output,
\* pager_send_lines), for any length of output and of the page.
THEOREM APageAtMost == Spec => []NoMoreThanAPage
  <1>1. IInv => NoMoreThanAPage
    BY DEF IInv
  <1> QED BY <1>1, Invariance, PTL

\* Down from the newest entry gives back the text Up was first pressed on
\* (handle_arrow_up, handle_arrow_down), for any history.
THEOREM DraftIsKept == Spec => DraftComesBack
  <1>1. IInv => [ArrowDown /\ browse = 0 /\ ~ghost.stale => line' = ghost.draft]_vars
    <2> SUFFICES ASSUME IInv, ArrowDown, browse = 0, ~ghost.stale PROVE line' = ghost.draft
      OBVIOUS
    <2>1. line' = temp
      BY DownKeeps DEF IInv
    <2>2. temp = ghost.draft
      BY DEF IInv, DraftInv
    <2> QED BY <2>1, <2>2
  <1> QED BY <1>1, Invariance, PTL DEF DraftComesBack

\* TAB keeps the text it completes (tab_apply_match), for every tree of
\* commands and also where the buffer cuts the keyword off.
THEOREM TabContinues == Spec => TabKeepsText
  <1>1. IInv => [Tab => \/ IsPrefix(TabText, line')
                        \/ Trailing(TabText) /\ line' = Front(TabText)]_vars
    BY TabKeeps DEF IInv
  <1> QED BY <1>1, Invariance, PTL DEF TabKeepsText

\* The history a user browses is the last commands entered, the newest first,
\* without repetitions in a row: what HistoryRing implements with its ring.
THEOREM HistoryIsRecent == Spec => Recent!Spec
  <1>1. Init => Recent!Init
    BY DEF Init, Recent!Init
  <1>2. IInv /\ [Next]_vars => [Recent!Next]_history
    <2> SUFFICES ASSUME IInv, [Next]_vars PROVE [Recent!Next]_history
      OBVIOUS
    <2>1. CASE Enter
      <3>1. line \in Seq(Chars) \ {<<>>} /\ history' = Recent!Remember(history, line)
        BY <2>1 DEF IInv, LineTypes, Texts, Enter
      <3> QED BY <3>1 DEF Recent!Next
    <2>2. CASE UNCHANGED history
      BY <2>2
    <2> QED BY <2>1, <2>2 DEF Next, OtherKey, Regular, Refused, Backspace, Escape,
             AfterEscape, OtherSequence,
               ArrowUp, ArrowDown, ArrowLeft, ArrowRight, Arrow, Tab, Help, EnterNothing,
               PagerPage, PagerLine, PagerShows, PagerQuit, browsing, vars
  <1> QED BY <1>1, <1>2, Invariance, PTL DEF Spec, Recent!Spec

-----------------------------------------------------------------------------
(***************************************************************************)
(* The ring the history is kept in                                         *)
(***************************************************************************)

\* The remainder of a number that is less than twice the divisor.
LEMMA RemainderBelowTwice ==
    ASSUME NEW n \in Nat \ {0}, NEW x \in 0 .. 2 * n - 1
    PROVE  x % n = IF x < n THEN x ELSE x - n
  <1>1. CASE x < n
    BY <1>1, SMT
  <1>2. CASE x >= n
    BY <1>2, SMT
  <1> QED BY <1>1, <1>2

\* The word does not matter, and the ring is walked backwards once.
LEMMA SlotIs ==
    ASSUME NEW c \in Slots, NEW r \in Slots
    PROVE  Slot(c, r) = IF r < c THEN c - 1 - r ELSE c - 1 - r + Size
  <1> DEFINE x == c - 1 - r + Size
  <1>1. x \in 0 .. 2 * Size - 1
    BY RingAssumption, SMT DEF Slots
  <1>2. x % Word = x
    BY <1>1, RingAssumption, SMT
  <1>3. x % Size = IF x < Size THEN x ELSE x - Size
    BY <1>1, RingAssumption, RemainderBelowTwice
  <1> HIDE DEF x
  <1>4. Slot(c, r) = IF x < Size THEN x ELSE x - Size
    <2>1. Slot(c, r) = (x % Word) % Size
      BY DEF Slot, x
    <2> QED BY <2>1, <1>2, <1>3
  <1> QED BY <1>4, RingAssumption, SMT DEF Slots, x

\* The place after current_idx is in the ring, and seen from it the entry at
\* current_idx is the newest and every other entry is one older.
LEMMA NextSlot ==
    ASSUME NEW c \in Slots
    PROVE  /\ (c + 1) % Size \in Slots
           /\ Slot((c + 1) % Size, 0) = c
           /\ \A r \in Slots \ {0} : Slot((c + 1) % Size, r) = Slot(c, r - 1)
           /\ \A r \in Slots : Slot(c, r) \in Slots
           /\ \A r \in Slots : r # Size - 1 => Slot(c, r) # c
  <1> DEFINE d == (c + 1) % Size
  <1>1. d = IF c + 1 < Size THEN c + 1 ELSE 0
    <2> DEFINE y == c + 1
    <2>1. y \in 0 .. 2 * Size - 1
      BY RingAssumption, SMT DEF Slots
    <2> HIDE DEF y
    <2>2. y % Size = IF y < Size THEN y ELSE y - Size
      BY <2>1, RingAssumption, RemainderBelowTwice
    <2>3. d = IF y < Size THEN y ELSE y - Size
      BY <2>2 DEF y
    <2> QED BY <2>3, RingAssumption, SMT DEF Slots, y
  <1> HIDE DEF d
  <1>2. d \in Slots /\ 0 \in Slots
    BY <1>1, RingAssumption, SMT DEF Slots
  <1>3. Slot(d, 0) = c
    BY <1>1, <1>2, SlotIs, RingAssumption, SMT DEF Slots
  <1>4. ASSUME NEW r \in Slots \ {0} PROVE Slot(d, r) = Slot(c, r - 1)
    <2>1. r \in Slots /\ r - 1 \in Slots
      BY RingAssumption, SMT DEF Slots
    <2>2. Slot(d, r) = IF r < d THEN d - 1 - r ELSE d - 1 - r + Size
      BY <1>2, <2>1, SlotIs
    <2>3. Slot(c, r - 1) = IF r - 1 < c THEN c - 1 - (r - 1) ELSE c - 1 - (r - 1) + Size
      BY <2>1, SlotIs
    <2> QED BY <1>1, <2>2, <2>3, RingAssumption, SMT DEF Slots
  <1>5. ASSUME NEW r \in Slots PROVE Slot(c, r) \in Slots /\ (r # Size - 1 => Slot(c, r) # c)
    <2>1. Slot(c, r) = IF r < c THEN c - 1 - r ELSE c - 1 - r + Size
      BY SlotIs
    <2> QED BY <2>1, RingAssumption, SMT DEF Slots
  <1> QED BY <1>2, <1>3, <1>4, <1>5 DEF d

-----------------------------------------------------------------------------
LEMMA RingTypes ==
    /\ RingInit => RingTypeOK
    /\ RingTypeOK /\ [RingNext]_ringVars => RingTypeOK'
  <1>1. RingInit => RingTypeOK
    BY RingAssumption, SMT DEF RingInit, RingTypeOK, Slots
  <1>2. ASSUME RingTypeOK, [RingNext]_ringVars PROVE RingTypeOK'
    <2>1. ASSUME NEW cmd \in Commands, Add(cmd) PROVE RingTypeOK'
      <3>1. entries' \in [Slots -> Commands \cup {None}]
        BY <1>2, <2>1 DEF Add, RingTypeOK
      <3>2. current_idx' \in Slots
        BY <1>2, <2>1, NextSlot DEF Add, RingTypeOK
      <3>3. count' \in 0 .. Size
        BY <1>2, <2>1, RingAssumption, SMT DEF Add, Counted, RingTypeOK
      <3> QED BY <3>1, <3>2, <3>3 DEF RingTypeOK
    <2>2. CASE UNCHANGED ringVars
      BY <1>2, <2>2 DEF ringVars, RingTypeOK
    <2> QED BY <1>2, <2>1, <2>2 DEF RingNext, AddRepetition
  <1> QED BY <1>1, <1>2

\* Types are kept: the place of the next command stays in the ring, the count
\* at most at its size (nn_cli_session_history_add, line 64).
THEOREM RingTypeCorrect == RingSpec => []RingTypeOK
  BY RingTypes, PTL DEF RingSpec

\* The entries in use are those the readers can reach: none of them is NULL.
THEOREM EntriesInUse == RingSpec => []InUse
  <1>1. RingInit => InUse
    <2> SUFFICES ASSUME RingInit, NEW r \in 0 .. Size - 1
                 PROVE  (entries[Actual(r)] # None) <=> (r < count)
      BY DEF InUse
    <2>1. 0 \in Slots /\ r \in Slots
      BY RingAssumption, SMT DEF Slots
    <2>2. Actual(r) \in Slots
      BY <2>1, NextSlot DEF RingInit, Actual
    <2>3. entries[Actual(r)] = None
      BY <2>2 DEF RingInit
    <2> QED BY <2>1, <2>3, SMT DEF RingInit, Slots
  <1>2. RingTypeOK /\ InUse /\ [RingNext]_ringVars => InUse'
    <2> SUFFICES ASSUME RingTypeOK, InUse, [RingNext]_ringVars PROVE InUse'
      OBVIOUS
    <2>1. ASSUME NEW cmd \in Commands, Add(cmd) PROVE InUse'
      <3> SUFFICES ASSUME NEW r \in Slots
                   PROVE  (entries'[Slot(current_idx', r)] # None) <=> (r < count')
        BY DEF InUse, Actual, Slots
      <3>1. /\ current_idx \in Slots /\ current_idx' = (current_idx + 1) % Size
            /\ entries \in [Slots -> Commands \cup {None}]
            /\ entries' = [entries EXCEPT ![current_idx] = cmd]
            /\ count \in 0 .. Size
            /\ count' = IF count < Size THEN count + 1 ELSE count
        BY <2>1 DEF Add, RingTypeOK, Counted
      <3>2. CASE r = 0
        <4>1. entries'[Slot(current_idx', r)] = cmd
          BY <3>1, <3>2, NextSlot
        <4>2. r < count'
          BY <3>1, <3>2, RingAssumption, SMT
        <4> QED BY <4>1, <4>2, RingAssumption
      <3>3. CASE r # 0
        <4>1. r - 1 \in Slots /\ r - 1 # Size - 1
          BY <3>3, RingAssumption, SMT DEF Slots
        <4>2. Slot(current_idx', r) = Slot(current_idx, r - 1)
          BY <3>1, <3>3, NextSlot
        <4>3. Slot(current_idx, r - 1) \in Slots /\ Slot(current_idx, r - 1) # current_idx
          BY <3>1, <4>1, NextSlot
        <4>4. entries'[Slot(current_idx', r)] = entries[Slot(current_idx, r - 1)]
          BY <3>1, <4>2, <4>3
        <4>5. (entries[Slot(current_idx, r - 1)] # None) <=> (r - 1 < count)
          BY <4>1 DEF InUse, Actual, Slots
        <4>6. (r - 1 < count) <=> (r < count')
          BY <3>1, <3>3, RingAssumption, SMT DEF Slots
        <4> QED BY <4>4, <4>5, <4>6
      <3> QED BY <3>2, <3>3
    <2>2. CASE UNCHANGED ringVars
      BY <2>2 DEF ringVars, InUse, Actual
    <2> QED BY <2>1, <2>2 DEF RingNext, AddRepetition
  <1> QED BY <1>1, <1>2, RingTypeCorrect, PTL DEF RingSpec

-----------------------------------------------------------------------------
\* Before and after an addition, Past is what RecentCommands remembers.
LEMMA PastRemembers ==
    ASSUME RingTypeOK, NEW cmd \in Commands, Add(cmd)
    PROVE  Past' = RecentInRing!Remember(Past, cmd)
  <1>1. /\ current_idx \in Slots /\ current_idx' = (current_idx + 1) % Size
        /\ entries \in [Slots -> Commands \cup {None}]
        /\ entries' = [entries EXCEPT ![current_idx] = cmd]
        /\ count \in 0 .. Size
        /\ count' = IF count < Size THEN count + 1 ELSE count
    BY DEF Add, RingTypeOK, Counted
  <1>2. Past = [i \in 1 .. count |-> entries[Slot(current_idx, i - 1)]]
    BY <1>1, SMT DEF Past, Get, Actual
  <1>3. Past' = [i \in 1 .. count' |-> entries'[Slot(current_idx', i - 1)]]
    BY <1>1, SMT DEF Past, Get, Actual
  <1>4. Len(Past) = count
    BY <1>1, <1>2, SMT
  <1>5. ~RecentInRing!Repeats(Past, cmd)
    <2>1. SUFFICES ASSUME SkipsRepeats, Past # <<>>, Past[1] = cmd PROVE FALSE
      BY DEF RecentInRing!Repeats
    <2>2. count > 0
      <3>1. count # 0
        BY <1>2, <2>1, SMT
      <3> QED BY <1>1, <3>1, SMT
    <2>3. Past[1] = entries[Slot(current_idx, 0)]
      BY <1>1, <1>2, <2>2, SMT
    <2> QED BY <2>1, <2>2, <2>3 DEF Add, RepeatsLast, Actual
  <1>6. RecentInRing!KeptLength(Past) = count'
    BY <1>1, <1>4, RingAssumption, SMT DEF RecentInRing!KeptLength
  <1>7. ASSUME NEW i \in 1 .. count'
        PROVE  entries'[Slot(current_idx', i - 1)]
                 = IF i = 1 THEN cmd ELSE Past[i - 1]
    <2>1. CASE i = 1
      <3>1. Slot(current_idx', i - 1) = current_idx
        BY <1>1, <2>1, NextSlot
      <3> QED BY <1>1, <2>1, <3>1
    <2>2. CASE i # 1
      <3>1. /\ i - 1 \in Slots \ {0} /\ (i - 1) - 1 \in Slots
            /\ (i - 1) - 1 # Size - 1 /\ i - 1 \in 1 .. count
        BY <1>1, <2>2, RingAssumption, SMT DEF Slots
      <3>2. Slot(current_idx', i - 1) = Slot(current_idx, (i - 1) - 1)
        BY <1>1, <3>1, NextSlot
      <3>3. /\ Slot(current_idx, (i - 1) - 1) \in Slots
            /\ Slot(current_idx, (i - 1) - 1) # current_idx
        BY <1>1, <3>1, NextSlot
      <3>4. entries'[Slot(current_idx', i - 1)] = entries[Slot(current_idx, (i - 1) - 1)]
        BY <1>1, <3>2, <3>3
      <3>5. Past[i - 1] = entries[Slot(current_idx, (i - 1) - 1)]
        BY <1>2, <3>1
      <3> QED BY <2>2, <3>4, <3>5
    <2> QED BY <2>1, <2>2
  <1> QED
    <2>1. RecentInRing!Remember(Past, cmd)
            = [i \in 1 .. count' |-> IF i = 1 THEN cmd ELSE Past[i - 1]]
      BY <1>5, <1>6 DEF RecentInRing!Remember
    <2> QED BY <1>3, <1>7, <2>1

\* Up, Down and "show history" see the last Size commands, the newest first,
\* however often the ring and the word went round.
THEOREM RingImplementsRecent == RingSpec => ImplementsRecent
  <1>1. RingInit => RecentInRing!Init
    <2> SUFFICES ASSUME RingInit PROVE Past = <<>>
      BY DEF RecentInRing!Init
    <2>1. count = 0
      BY DEF RingInit
    <2> QED BY <2>1, SMT DEF Past
  <1>2. RingTypeOK /\ [RingNext]_ringVars => [RecentInRing!Next]_Past
    <2> SUFFICES ASSUME RingTypeOK, [RingNext]_ringVars PROVE [RecentInRing!Next]_Past
      OBVIOUS
    <2>1. ASSUME NEW cmd \in Commands, Add(cmd) PROVE RecentInRing!Next
      BY <2>1, PastRemembers DEF RecentInRing!Next
    <2>2. ASSUME NEW cmd \in Commands, AddRepetition(cmd) PROVE Past' = Past
      BY <2>2 DEF AddRepetition, ringVars, Past, Get, Actual
    <2>3. CASE UNCHANGED ringVars
      BY <2>3 DEF ringVars, Past, Get, Actual
    <2> QED BY <2>1, <2>2, <2>3 DEF RingNext
  <1> QED BY <1>1, <1>2, RingTypeCorrect, PTL DEF RingSpec, ImplementsRecent, RecentInRing!Spec

-----------------------------------------------------------------------------
(***************************************************************************)
(* The keyboard and the ring together                                      *)
(***************************************************************************)

\* What Enter carries out fits the buffer, and is a command of the ring.
LEMMA EnteredIsCommand ==
    ASSUME IInv, line # <<>>
    PROVE  line \in Commands
  <1>1. line \in Seq(Chars) /\ Len(line) \in Nat /\ Len(line) <= MaxLine /\ MaxLine \in Nat
    BY EditorAssumption DEF IInv, LineTypes, Texts
  <1>2. Len(line) # 0
    BY <1>1, EmptySeq
  <1>3. Len(line) \in 1 .. MaxLine /\ line \in [1 .. Len(line) -> Chars]
    BY <1>1, <1>2
  <1> QED BY <1>3, SessionAssumption

\* A step of the session is a step, or a stutter, of its two parts.
LEMMA SessionParts ==
    ASSUME IInv, [SessionNext]_sessionVars
    PROVE  [Next]_vars /\ [RingNext]_ringVars
  <1>1. CASE EnterAndRemember
    <2>1. Enter /\ line # <<>> /\ (Add(line) \/ AddRepetition(line))
      BY <1>1 DEF EnterAndRemember, Enter
    <2>2. line \in Commands
      BY <2>1, EnteredIsCommand
    <2> QED BY <2>1, <2>2 DEF Next, RingNext
  <1>2. CASE Browse(OtherKey)
    BY <1>2 DEF Browse, Next
  <1>3. CASE UNCHANGED sessionVars
    BY <1>3 DEF sessionVars
  <1> QED BY <1>1, <1>2, <1>3 DEF SessionNext

\* In a session, what the arrows read from the ring is the history LineEditor
\* recalls (nn_cli_handler.c:1057, handle_arrow_up), after any keys, for lines,
\* histories and words of any size: the editor stands on the ring.
THEOREM RingIsHistory == SessionSpec => [](Past = history)
  <1> DEFINE Joined == IInv /\ RingTypeOK /\ Past = history
  <1>1. SessionInit => Joined
    <2> SUFFICES ASSUME SessionInit PROVE Joined
      OBVIOUS
    <2>1. IInv /\ RingTypeOK
      BY InitInv, RingTypes DEF SessionInit
    <2>2. count = 0 /\ history = <<>>
      BY DEF SessionInit, RingInit, Init
    <2>3. Past = <<>>
      BY <2>2, SMT DEF Past
    <2> QED BY <2>1, <2>2, <2>3
  <1>2. Joined /\ [SessionNext]_sessionVars => Joined'
    <2> SUFFICES ASSUME IInv, RingTypeOK, Past = history, [SessionNext]_sessionVars
                 PROVE  Joined'
      OBVIOUS
    <2>1. IInv' /\ RingTypeOK'
      BY SessionParts, NextInv, RingTypes
    <2>2. CASE EnterAndRemember
      <3>1. line # <<>> /\ history' = Recent!Remember(history, line)
        BY <2>2 DEF EnterAndRemember, Enter
      <3>2. line \in Commands
        BY <3>1, EnteredIsCommand
      <3>3. \A known, cmd : Recent!Remember(known, cmd) = RecentInRing!Remember(known, cmd)
        BY SessionAssumption DEF Recent!Remember, Recent!Repeats, Recent!KeptLength,
             RecentInRing!Remember, RecentInRing!Repeats, RecentInRing!KeptLength
      <3>4. CASE Add(line)
        <4>1. Past' = RecentInRing!Remember(Past, line)
          BY <3>2, <3>4, PastRemembers
        <4> QED BY <2>1, <3>1, <3>3, <4>1
      <3>5. CASE AddRepetition(line)
        <4>1. Past' = Past
          BY <3>5 DEF AddRepetition, ringVars, Past, Get, Actual
        <4>2. SkipsRepeats /\ count > 0 /\ entries[Actual(0)] = line
          BY <3>5 DEF AddRepetition, RepeatsLast
        <4>3. Past # <<>> /\ Past[1] = line
          <5>1. count \in Nat /\ 1 \in 1 .. count /\ ~(0 >= count)
            BY <4>2, RingAssumption DEF RingTypeOK
          <5>2. Past[1] = Get(1 - 1) /\ DOMAIN Past = 1 .. count
            BY <5>1 DEF Past
          <5>3. Get(0) = line
            BY <4>2, <5>1 DEF Get
          <5>4. Past # <<>>
            <6>1. 1 \in DOMAIN Past
              BY <5>1, <5>2
            <6>2. DOMAIN <<>> = {}
              BY SMT
            <6> QED BY <6>1, <6>2, Zenon
          <5>5. 1 - 1 = 0
            BY SMT
          <5>6. Past[1] = line
            BY <5>2, <5>3, <5>5, Zenon
          <5> QED BY <5>4, <5>6
        <4>4. Recent!Remember(history, line) = history
          BY <4>3 DEF Recent!Remember, Recent!Repeats
        <4> QED BY <2>1, <3>1, <4>1, <4>4
      <3> QED BY <2>2, <3>4, <3>5 DEF EnterAndRemember
    <2>3. CASE Browse(OtherKey)
      <3>1. Past' = Past
        BY <2>3 DEF Browse, ringVars, Past, Get, Actual
      <3>2. history' = history
        BY <2>3 DEF Browse, OtherKey, Regular, Refused, Backspace, Escape, AfterEscape,
             OtherSequence, ArrowUp, ArrowDown, ArrowLeft, ArrowRight, Arrow, Tab, Help,
             EnterNothing, PagerPage, PagerLine, PagerShows, PagerQuit, browsing
      <3> QED BY <2>1, <3>1, <3>2
    <2>4. CASE UNCHANGED sessionVars
      <3>1. Past' = Past /\ history' = history
        BY <2>4 DEF sessionVars, vars, browsing, ringVars, Past, Get, Actual
      <3> QED BY <2>1, <3>1
    <2> QED BY <2>2, <2>3, <2>4 DEF SessionNext
  <1>3. Joined => Past = history
    OBVIOUS
  <1> QED BY <1>1, <1>2, <1>3, PTL DEF SessionSpec
==============================================================================
