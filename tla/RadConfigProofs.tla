-------------------------- MODULE RadConfigProofs ---------------------------
(* rad_config, for files of any length, any size of the line buffer and of   *)
(* the table, and any entries, comments and mistakes: split finds the fields *)
(* of a line as they were written, fgets the lines of a file, and rad_config *)
(* the servers of an administrator who wrote them down.                      *)
(*                                                                           *)
(* What split, NumberOf and Config compute is the last value of a recursive  *)
(* function.  SplitsTo and ReadsTo say of any function that its steps lead   *)
(* from one state to another; steps are put behind each other with SplitsOn  *)
(* and ReadsOn, and SplitIs and ConfigReads say that the recursive function  *)
(* ends where such steps lead.                                               *)
EXTENDS RadConfig, NaturalSets, SequenceTheorems

-----------------------------------------------------------------------------
(* split.                                                                    *)

(* A sequence grows by one element at a time.                                *)
LEMMA GrowsByOne ==
  ASSUME NEW B, NEW s \in Seq(B)
  PROVE  /\ SubSeq(s, 1, 0) = << >> /\ SubSeq(s, 1, Len(s)) = s
         /\ \A i \in 0..Len(s) : SubSeq(s, 1, i) \in Seq(B) /\ Len(SubSeq(s, 1, i)) = i
         /\ \A i \in 1..Len(s) : SubSeq(s, 1, i) = Append(SubSeq(s, 1, i - 1), s[i])
<1>1. SubSeq(s, 1, 0) = << >> /\ SubSeq(s, 1, Len(s)) = s
  BY SubSeqEmpty, SubSeqFull
<1>2. ASSUME NEW i \in 0..Len(s) PROVE SubSeq(s, 1, i) \in Seq(B) /\ Len(SubSeq(s, 1, i)) = i
  <2>1. \A j \in 1..i : s[j] \in B
    OBVIOUS
  <2> QED BY <2>1, SubSeqProperties
<1>3. ASSUME NEW i \in 1..Len(s) PROVE SubSeq(s, 1, i) = Append(SubSeq(s, 1, i - 1), s[i])
  <2>1. 1 \in 1..Len(s) /\ i \in 1..Len(s) /\ i - 1 \in 0..Len(s) /\ s[i] \in B
    OBVIOUS
  <2>2. SubSeq(s, 1, i) = SubSeq(s, 1, i - 1) \o <<s[i]>>
    BY <2>1, SubSeqRecursiveSecond
  <2> QED BY <1>2, <2>1, <2>2, AppendIsConcat
<1> QED BY <1>1, <1>2, <1>3

(* One element, and two.                                                     *)
LEMMA ShortSequences ==
  ASSUME NEW B, NEW c \in B, NEW d \in B
  PROVE  <<c>> \in Seq(B) /\ <<c, d>> \in Seq(B) /\ <<c, d>> = <<c>> \o <<d>>
<1>1. <<c>> \in Seq(B) /\ <<c, d>> \in Seq(B) /\ <<c, d>> = Append(<<c>>, d)
  OBVIOUS
<1> QED BY <1>1, AppendIsConcat

(* Symbols of a file.                                                        *)
LEMMA SymbolsOfFiles ==
  /\ "QUOTE" \in Symbols /\ "ESCAPE" \in Symbols /\ " " \in Symbols /\ "TAB" \in Symbols
  /\ ":" \in Symbols /\ "LF" \in Symbols /\ "CR" \in Symbols
  /\ "auth" \in Symbols /\ "acct" \in Symbols
  BY SymbolsAssumption DEF SymbolsAssumption

(* What split knows in the middle of a line.                                 *)
At(mode, fields) == [mode |-> mode, fields |-> fields]

Texts == Seq(Seq(Symbols))

(* Reading s takes split from one of these to another.                       *)
SplitsTo(start, s, end) ==
  \E f : /\ f[0] = start /\ f[Len(s)] = end
         /\ \A i \in 1..Len(s) : f[i] = SplitStep(f[i - 1], s[i])

(* Split is where reading the whole line leads.                              *)
LEMMA SplitIs ==
  ASSUME NEW s \in Seq(Symbols), NEW end, SplitsTo(At("space", << >>), s, end)
  PROVE  Split(s) = end
<1> DEFINE start == At("space", << >>)
           Step(f, i) == IF i = 0 THEN start ELSE SplitStep(f[i - 1], s[i])
<1>0. PICK n \in Nat : n = Len(s)
  OBVIOUS
<1> DEFINE F(f) == [i \in 0..n |-> Step(f, i)]
           after == CHOOSE f : f = F(f)
<1>1. PICK g : /\ g[0] = start /\ g[n] = end
               /\ \A i \in 1..n : g[i] = SplitStep(g[i - 1], s[i])
  BY <1>0 DEF SplitsTo
<1> DEFINE h == [i \in 0..n |-> g[i]]
<1> HIDE DEF start
<1>2. \A i \in 0..n : h[i] = Step(h, i)
  BY <1>1
<1>3. h = F(h)
  <2>1. h = [i \in 0..n |-> h[i]]
    OBVIOUS
  <2> HIDE DEF h, Step
  <2> QED BY <1>2, <2>1
<1> HIDE DEF h
<1>4. after = F(after)
  <2> HIDE DEF F
  <2> QED BY <1>3
<1>5. Split(s) = after[n]
  BY <1>0 DEF Split, start, At
<1>6. \A i \in 0..n : after[i] = Step(after, i)
  <2> HIDE DEF Step
  <2> QED BY <1>4
<1> HIDE DEF after, F
<1> DEFINE S == {k \in Nat : k <= n => after[k] = g[k]}
<1>7. 0 \in S
  BY <1>1, <1>6
<1>8. ASSUME NEW k \in Nat, k \in S PROVE k + 1 \in S
  BY <1>1, <1>6, <1>8
<1>9. n \in S
  <2> HIDE DEF S
  <2> QED BY <1>7, <1>8, SetInduction
<1> QED BY <1>1, <1>5, <1>9

(* Reading on.                                                               *)
LEMMA SplitsOn ==
  ASSUME NEW s \in Seq(Symbols), NEW t \in Seq(Symbols), NEW a, NEW b, NEW c,
         SplitsTo(a, s, b), SplitsTo(b, t, c)
  PROVE  s \o t \in Seq(Symbols) /\ SplitsTo(a, s \o t, c)
<1>1. PICK f : /\ f[0] = a /\ f[Len(s)] = b
               /\ \A i \in 1..Len(s) : f[i] = SplitStep(f[i - 1], s[i])
  BY DEF SplitsTo
<1>2. PICK g : /\ g[0] = b /\ g[Len(t)] = c
               /\ \A i \in 1..Len(t) : g[i] = SplitStep(g[i - 1], t[i])
  BY DEF SplitsTo
<1>3. PICK m \in Nat : m = Len(s)
  OBVIOUS
<1>4. PICK n \in Nat : n = Len(t)
  OBVIOUS
<1>5. /\ s \o t \in Seq(Symbols)
      /\ Len(s \o t) = m + n
      /\ \A i \in 1..m : (s \o t)[i] = s[i]
      /\ \A i \in 1..n : (s \o t)[m + i] = t[i]
  BY <1>3, <1>4
<1> DEFINE st == s \o t
           h == [i \in 0..(m + n) |-> IF i <= m THEN f[i] ELSE g[i - m]]
<1> HIDE DEF st
<1>6. h[0] = a /\ h[m + n] = c
  <2>1. h[0] = f[0]
    BY <1>3
  <2>2. CASE n = 0
    <3>1. h[m + n] = f[m]
      BY <1>3, <2>2
    <3> QED BY <1>1, <1>2, <1>3, <1>4, <2>1, <2>2, <3>1
  <2>3. CASE n # 0
    <3>1. h[m + n] = g[n]
      BY <1>3, <1>4, <2>3
    <3> QED BY <1>1, <1>2, <1>4, <2>1, <3>1
  <2> QED BY <2>2, <2>3
<1>7. ASSUME NEW i \in 1..(m + n) PROVE h[i] = SplitStep(h[i - 1], st[i])
  <2>1. CASE i <= m
    <3>1. i \in 1..m /\ h[i] = f[i] /\ h[i - 1] = f[i - 1]
      BY <2>1
    <3>2. st[i] = s[i]
      BY <1>5, <3>1 DEF st
    <3> HIDE DEF h
    <3> QED BY <1>1, <1>3, <3>1, <3>2
  <2>2. CASE ~(i <= m)
    <3>1. PICK j \in 1..n : i = m + j
      <4>1. i - m \in 1..n /\ i = m + (i - m)
        BY <2>2
      <4> QED BY <4>1
    <3>2. h[i] = g[j] /\ h[i - 1] = g[j - 1]
      <4>1. h[i] = g[j]
        BY <3>1
      <4>2. CASE j = 1
        <5>1. h[i - 1] = f[m] /\ j - 1 = 0
          BY <3>1, <4>2
        <5> QED BY <1>1, <1>2, <1>3, <4>1, <5>1
      <4>3. CASE j # 1
        BY <3>1, <4>1, <4>3
      <4> QED BY <4>2, <4>3
    <3>3. st[i] = t[j]
      BY <1>5, <3>1 DEF st
    <3> HIDE DEF h
    <3> QED BY <1>2, <1>4, <3>1, <3>2, <3>3
  <2> QED BY <2>1, <2>2
<1> HIDE DEF h
<1>8. SplitsTo(a, st, c)
  <2>1. Len(st) = m + n
    BY <1>5 DEF st
  <2> QED BY <1>6, <1>7, <2>1 DEF SplitsTo
<1> QED BY <1>5, <1>8 DEF st

(* One character leads one step on.                                          *)
LEMMA SplitsOne ==
  ASSUME NEW c, NEW start PROVE SplitsTo(start, <<c>>, SplitStep(start, c))
<1> DEFINE s == <<c>>
           f == [i \in 0..1 |-> IF i = 0 THEN start ELSE SplitStep(start, c)]
<1>1. Len(s) = 1 /\ s[1] = c
  OBVIOUS
<1>2. f[0] = start /\ f[1] = SplitStep(start, c)
  OBVIOUS
<1> HIDE DEF f
<1>3. \A i \in 1..1 : i = 1 /\ i - 1 = 0
  OBVIOUS
<1> HIDE DEF s
<1>4. SplitsTo(start, s, SplitStep(start, c))
  BY <1>1, <1>2, <1>3 DEF SplitsTo
<1> QED BY <1>4 DEF s

(* No characters lead nowhere.                                               *)
LEMMA SplitsNone == ASSUME NEW start PROVE SplitsTo(start, << >>, start)
<1> DEFINE f == [i \in 0..0 |-> start]
           none == << >>
<1>1. f[0] = start /\ Len(none) = 0
  BY EmptySeq
<1> HIDE DEF f, none
<1>2. \A i \in 1..Len(none) : f[i] = SplitStep(f[i - 1], none[i])
  BY <1>1
<1>3. SplitsTo(start, none, start)
  BY <1>1, <1>2 DEF SplitsTo
<1> QED BY <1>3 DEF none

(* What stays where it is.                                                   *)
LEMMA SplitsNowhere ==
  ASSUME NEW s \in Seq(Symbols), NEW start, \A i \in 1..Len(s) : SplitStep(start, s[i]) = start
  PROVE  SplitsTo(start, s, start)
<1>0. PICK n \in Nat : n = Len(s)
  OBVIOUS
<1> DEFINE f == [i \in 0..n |-> start]
<1>1. f[0] = start /\ f[n] = start /\ \A i \in 1..n : f[i] = start /\ f[i - 1] = start
  OBVIOUS
<1> HIDE DEF f
<1> QED BY <1>0, <1>1 DEF SplitsTo

(* Errors and comments go on to the end of the line.                         *)
LEMMA SplitEnds ==
  ASSUME NEW s \in Seq(Symbols), NEW mode \in {"error", "comment"}, NEW fields
  PROVE  SplitsTo(At(mode, fields), s, At(mode, fields))
<1>1. \A c : SplitStep(At(mode, fields), c) = At(mode, fields)
  BY DEF SplitStep, At
<1> QED BY <1>1, SplitsNowhere

(* A blank ends a word, and a quoted string that is complete.                *)
LEMMA SplitsBlank ==
  ASSUME NEW c \in Blank, NEW mode \in {"space", "word", "closed"}, NEW fields
  PROVE  SplitStep(At(mode, fields), c) = At("space", fields)
  BY DEF SplitStep, At, Blank

(* What a field begins with.                                                 *)
LEMMA SplitsOpen ==
  ASSUME NEW c, c \notin Blank, c # "#", NEW fields
  PROVE  SplitStep(At("space", fields), c) =
           IF Len(fields) >= MAXFIELDS THEN At("error", fields)
           ELSE IF c = "QUOTE" THEN At("quoted", Append(fields, << >>))
           ELSE At("word", Append(fields, <<c>>))
<1> DEFINE st == At("space", fields)
<1>1. st.mode = "space" /\ st.fields = fields /\ \A m : [st EXCEPT !.mode = m] = At(m, fields)
  BY DEF At
<1> HIDE DEF st
<1>2. SplitStep(st, c) =
        IF Len(st.fields) >= MAXFIELDS THEN [st EXCEPT !.mode = "error"]
        ELSE IF c = "QUOTE" THEN [mode |-> "quoted", fields |-> Append(st.fields, << >>)]
        ELSE [mode |-> "word", fields |-> Append(st.fields, <<c>>)]
  BY <1>1 DEF SplitStep
<1> QED BY <1>1, <1>2 DEF At, st

(* The characters of a word.                                                 *)
LEMMA WordHas ==
  ASSUME NEW word, IsWord(word)
  PROVE  /\ word \in Seq(Symbols) /\ word # << >> /\ Len(word) \in Nat \ {0}
         /\ word[1] \notin Blank /\ word[1] # "#" /\ word[1] # "QUOTE"
         /\ \A i \in 1..Len(word) : word[i] \notin Blank
<1>1. word \in Seq(Symbols) /\ word # << >> /\ word[1] # "#" /\ word[1] # "QUOTE"
  BY DEF IsWord
<1>2. Len(word) \in Nat \ {0}
  BY <1>1, EmptySeq
<1>3. \A i \in 1..Len(word) : word[i] \notin Blank
  BY <1>1 DEF IsWord, ToSet
<1>4. 1 \in 1..Len(word)
  BY <1>2
<1> QED BY <1>1, <1>2, <1>3, <1>4

(* A word is a field.                                                        *)
LEMMA SplitsWord ==
  ASSUME NEW word, IsWord(word), NEW fields \in Texts, Len(fields) < MAXFIELDS
  PROVE  SplitsTo(At("space", fields), word, At("word", Append(fields, word)))
<1>1. word \in Seq(Symbols) /\ Len(word) > 0
  BY DEF IsWord
<1>2. PICK n \in Nat : n = Len(word) /\ n > 0
  BY <1>1
<1> DEFINE Upto(i) == SubSeq(word, 1, i)
           f == [i \in 0..n |-> IF i = 0 THEN At("space", fields)
                                ELSE At("word", Append(fields, Upto(i)))]
<1>3. /\ Upto(n) = word
      /\ \A i \in 1..n : Upto(i) = Append(Upto(i - 1), word[i]) /\ Upto(i - 1) \in Seq(Symbols)
      /\ Upto(0) = << >>
  BY <1>1, <1>2, GrowsByOne
<1> HIDE DEF Upto
<1>4. f[0] = At("space", fields) /\ f[n] = At("word", Append(fields, word))
  BY <1>2, <1>3
<1>5. ASSUME NEW i \in 1..n PROVE f[i] = SplitStep(f[i - 1], word[i])
  <2>1. word[i] \notin Blank
    BY <1>1, <1>2 DEF IsWord, ToSet
  <2>2. CASE i = 1
    <3>1. f[i] = At("word", Append(fields, Upto(1))) /\ f[i - 1] = At("space", fields)
      BY <2>2
    <3>2. Upto(1) = <<word[1]>>
      <4>1. 1 \in 1..n /\ 1 - 1 = 0
        BY <1>2
      <4>2. Upto(1) = Append(<< >>, word[1])
        BY <1>3, <4>1
      <4>3. word[1] \in Symbols
        BY <1>1
      <4> QED BY <4>2, <4>3
    <3>3. word[1] # "#" /\ word[1] # "QUOTE"
      BY DEF IsWord
    <3>4. Append(fields, <<word[1]>>) = Append(fields, Upto(1))
      BY <3>2
    <3>5. SplitStep(At("space", fields), word[1]) = At("word", Append(fields, <<word[1]>>))
      <4>1. ~(Len(fields) >= MAXFIELDS)
        BY DEF MAXFIELDS, Texts
      <4>2. word[1] \notin Blank
        BY <2>1, <2>2
      <4> QED BY <3>3, <4>1, <4>2, SplitsOpen
    <3> HIDE DEF f
    <3> QED BY <2>2, <3>1, <3>4, <3>5
  <2>3. CASE i # 1
    <3>1. f[i] = At("word", Append(fields, Upto(i)))
      BY <2>3
    <3>2. f[i - 1] = At("word", Append(fields, Upto(i - 1)))
      BY <2>3
    <3>3. Upto(i) = Append(Upto(i - 1), word[i]) /\ Upto(i - 1) \in Seq(Symbols)
      BY <1>3
    <3> DEFINE u == Upto(i - 1)
               w == Append(fields, u)
    <3> HIDE DEF u, f
    <3>4. /\ w \in Texts /\ Last(w) = u /\ Front(w) = fields
      BY <3>3 DEF u, Texts, Last, Front
    <3> HIDE DEF w
    <3>5. SplitStep(At("word", w), word[i]) = At("word", Append(fields, Append(u, word[i])))
      BY <2>1, <3>4 DEF SplitStep, At
    <3> QED BY <3>1, <3>2, <3>3, <3>5 DEF u, w
  <2> QED BY <2>2, <2>3
<1> HIDE DEF f
<1> QED BY <1>2, <1>4, <1>5 DEF SplitsTo

(* Characters inside a quoted string: escaped ones, and others.              *)
LEMMA SplitsQuotedChar ==
  ASSUME NEW c, NEW fields \in Texts, NEW u \in Seq(Symbols)
  PROVE  /\ c \notin {"QUOTE", "ESCAPE"} =>
              SplitStep(At("quoted", Append(fields, u)), c)
                = At("quoted", Append(fields, Append(u, c)))
         /\ SplitStep(At("quoted", Append(fields, u)), "ESCAPE")
              = At("escape", Append(fields, u))
         /\ SplitStep(At("escape", Append(fields, u)), c)
              = IF c \in {"QUOTE", "ESCAPE"} THEN At("quoted", Append(fields, Append(u, c)))
                ELSE At("error", Append(fields, u))
         /\ SplitStep(At("quoted", Append(fields, u)), "QUOTE")
              = At(IF u = << >> THEN "error" ELSE "closed", Append(fields, u))
<1> DEFINE w == Append(fields, u)
<1>1. /\ w \in Texts /\ Last(w) = u /\ Front(w) = fields
  BY DEF Texts, Last, Front
<1> HIDE DEF w
<1>2. c \notin {"QUOTE", "ESCAPE"} =>
        SplitStep(At("quoted", w), c) = At("quoted", Append(fields, Append(u, c)))
  BY <1>1 DEF SplitStep, At
<1>3. SplitStep(At("quoted", w), "ESCAPE") = At("escape", w)
  BY <1>1 DEF SplitStep, At
<1>4. SplitStep(At("escape", w), c)
        = IF c \in {"QUOTE", "ESCAPE"} THEN At("quoted", Append(fields, Append(u, c)))
          ELSE At("error", w)
  BY <1>1 DEF SplitStep, At
<1>5. SplitStep(At("quoted", w), "QUOTE") = At(IF u = << >> THEN "error" ELSE "closed", w)
  BY <1>1 DEF SplitStep, At
<1> QED BY <1>2, <1>3, <1>4, <1>5 DEF w

(* A symbol as Escaped has it.                                               *)
LEMMA SplitsEscapedChar ==
  ASSUME NEW c \in Symbols, NEW fields \in Texts, NEW u \in Seq(Symbols)
  PROVE  SplitsTo(At("quoted", Append(fields, u)),
                  IF c \in {"QUOTE", "ESCAPE"} THEN <<"ESCAPE", c>> ELSE <<c>>,
                  At("quoted", Append(fields, Append(u, c))))
<1>1. CASE c \notin {"QUOTE", "ESCAPE"}
  <2>1. SplitsTo(At("quoted", Append(fields, u)), <<c>>,
                 SplitStep(At("quoted", Append(fields, u)), c))
    BY SplitsOne
  <2> QED BY <1>1, <2>1, SplitsQuotedChar
<1>2. CASE c \in {"QUOTE", "ESCAPE"}
  <2>1. SplitsTo(At("quoted", Append(fields, u)), <<"ESCAPE">>, At("escape", Append(fields, u)))
    <3>1. SplitsTo(At("quoted", Append(fields, u)), <<"ESCAPE">>,
                   SplitStep(At("quoted", Append(fields, u)), "ESCAPE"))
      BY SplitsOne
    <3> QED BY <3>1, SplitsQuotedChar
  <2>2. SplitsTo(At("escape", Append(fields, u)), <<c>>,
                 At("quoted", Append(fields, Append(u, c))))
    <3>1. SplitsTo(At("escape", Append(fields, u)), <<c>>,
                   SplitStep(At("escape", Append(fields, u)), c))
      BY SplitsOne
    <3> QED BY <1>2, <3>1, SplitsQuotedChar
  <2>3. <<"ESCAPE">> \in Seq(Symbols) /\ <<c>> \in Seq(Symbols)
        /\ <<"ESCAPE", c>> = <<"ESCAPE">> \o <<c>>
    BY ShortSequences, SymbolsOfFiles
  <2>4. SplitsTo(At("quoted", Append(fields, u)), <<"ESCAPE">> \o <<c>>,
                 At("quoted", Append(fields, Append(u, c))))
    BY <2>1, <2>2, <2>3, SplitsOn
  <2> QED BY <1>2, <2>3, <2>4
<1> QED BY <1>1, <1>2

(* What Escaped writes is what split puts into the field.                    *)
LEMMA SplitsEscaped ==
  ASSUME NEW secret \in Seq(Symbols), NEW fields \in Texts
  PROVE  /\ Escaped(secret) \in Seq(Symbols)
         /\ SplitsTo(At("quoted", Append(fields, << >>)), Escaped(secret),
                     At("quoted", Append(fields, secret)))
<1> DEFINE Piece(i) == IF secret[i] \in {"QUOTE", "ESCAPE"} THEN <<"ESCAPE", secret[i]>>
                       ELSE <<secret[i]>>
           Upto(i) == SubSeq(secret, 1, i)
           start == At("quoted", Append(fields, << >>))
           to(i) == At("quoted", Append(fields, Upto(i)))
<1>0. PICK n \in Nat : n = Len(secret)
  OBVIOUS
<1>1. ASSUME NEW i \in 1..n PROVE Piece(i) \in Seq(Symbols)
  <2>1. secret[i] \in Symbols
    BY <1>0
  <2> QED BY <2>1, ShortSequences, SymbolsOfFiles
<1>2. /\ Upto(0) = << >> /\ Upto(n) = secret
      /\ \A i \in 0..n : Upto(i) \in Seq(Symbols)
      /\ \A i \in 1..n : Upto(i) = Append(Upto(i - 1), secret[i])
  BY <1>0, GrowsByOne
<1> HIDE DEF Upto
<1>3. ASSUME NEW i \in 1..n PROVE SplitsTo(to(i - 1), Piece(i), to(i))
  <2>1. secret[i] \in Symbols /\ Upto(i - 1) \in Seq(Symbols)
        /\ Upto(i) = Append(Upto(i - 1), secret[i])
    BY <1>0, <1>2
  <2> QED BY <2>1, SplitsEscapedChar
<1> DEFINE pieces == [i \in 1..n |-> Piece(i)]
<1>4. pieces \in [1..n -> Seq(Symbols)] /\ \A i \in 1..n : pieces[i] = Piece(i)
  BY <1>1
<1>5. Escaped(secret) = FlattenSeq(pieces)
  BY <1>0 DEF Escaped
<1> HIDE DEF Piece, to, start, pieces
<1>6. PICK before \in [0..n -> Seq(Symbols)] :
        /\ before[0] = << >>
        /\ \A i \in 1..n : before[i] = before[i - 1] \o pieces[i]
        /\ FlattenSeq(pieces) = before[n]
  BY <1>4, FlattenSteps
<1> DEFINE S == {k \in Nat : k <= n => SplitsTo(start, before[k], to(k))}
<1>7. 0 \in S
  BY <1>2, <1>6, SplitsNone DEF start, to
<1>8. ASSUME NEW k \in Nat, k \in S PROVE k + 1 \in S
  <2>1. SUFFICES ASSUME k + 1 <= n PROVE SplitsTo(start, before[k + 1], to(k + 1))
    OBVIOUS
  <2>2. k + 1 \in 1..n /\ k + 1 - 1 = k /\ k \in 0..n
    BY <2>1
  <2>3. before[k + 1] = before[k] \o pieces[k + 1] /\ SplitsTo(to(k), pieces[k + 1], to(k + 1))
    <3>1. PICK i \in 1..n : i = k + 1 /\ i - 1 = k
      BY <2>2
    <3>2. before[i] = before[i - 1] \o pieces[i]
      BY <1>6
    <3>3. SplitsTo(to(i - 1), pieces[i], to(i))
      BY <1>3, <1>4
    <3> QED BY <3>1, <3>2, <3>3
  <2>4. SplitsTo(start, before[k], to(k)) /\ before[k] \in Seq(Symbols)
        /\ pieces[k + 1] \in Seq(Symbols)
    BY <1>4, <1>6, <1>8, <2>2
  <2> QED BY <2>3, <2>4, SplitsOn
<1>9. n \in S
  <2> HIDE DEF S
  <2> QED BY <1>7, <1>8, SetInduction
<1>10. SplitsTo(start, before[n], to(n)) /\ before[n] \in Seq(Symbols)
  BY <1>6, <1>9
<1> QED BY <1>2, <1>5, <1>6, <1>10 DEF start, to

(* The whole quoted string.                                                  *)
LEMMA SplitsQuoted ==
  ASSUME NEW secret \in Seq(Symbols), secret # << >>, NEW fields \in Texts,
         Len(fields) < MAXFIELDS
  PROVE  /\ Quoted(secret) \in Seq(Symbols)
         /\ SplitsTo(At("space", fields), Quoted(secret), At("closed", Append(fields, secret)))
<1> DEFINE q == <<"QUOTE">>
<1>1. q \in Seq(Symbols)
  BY ShortSequences, SymbolsOfFiles
<1>2. SplitsTo(At("space", fields), q, At("quoted", Append(fields, << >>)))
  <2>1. "QUOTE" \notin Blank /\ ~(Len(fields) >= MAXFIELDS)
    BY DEF Blank, MAXFIELDS, Texts
  <2>2. SplitStep(At("space", fields), "QUOTE") = At("quoted", Append(fields, << >>))
    BY <2>1, SplitsOpen
  <2> QED BY <2>2, SplitsOne
<1>3. SplitsTo(At("quoted", Append(fields, secret)), q, At("closed", Append(fields, secret)))
  <2>1. SplitStep(At("quoted", Append(fields, secret)), "QUOTE")
          = At("closed", Append(fields, secret))
    BY SplitsQuotedChar
  <2> QED BY <2>1, SplitsOne
<1> HIDE DEF q
<1>4. /\ q \o Escaped(secret) \in Seq(Symbols)
      /\ SplitsTo(At("space", fields), q \o Escaped(secret), At("quoted", Append(fields, secret)))
  BY <1>1, <1>2, SplitsEscaped, SplitsOn
<1>5. /\ (q \o Escaped(secret)) \o q \in Seq(Symbols)
      /\ SplitsTo(At("space", fields), (q \o Escaped(secret)) \o q,
                  At("closed", Append(fields, secret)))
  BY <1>1, <1>3, <1>4, SplitsOn
<1> QED BY <1>5 DEF Quoted, q

(* One field too many.                                                       *)
LEMMA SplitsTooMany ==
  ASSUME NEW s \in Seq(Symbols), s # << >>, s[1] \notin Blank, s[1] # "#",
         NEW fields, Len(fields) >= MAXFIELDS
  PROVE  SplitsTo(At("space", fields), s, At("error", fields))
<1>1. PICK n \in Nat : n = Len(s) /\ n > 0
  OBVIOUS
<1> DEFINE f == [i \in 0..n |-> IF i = 0 THEN At("space", fields) ELSE At("error", fields)]
<1>2. SplitStep(At("space", fields), s[1]) = At("error", fields)
  BY SplitsOpen
<1>3. \A c : SplitStep(At("error", fields), c) = At("error", fields)
  BY DEF SplitStep, At
<1>4. f[0] = At("space", fields) /\ \A i \in 1..n : f[i] = At("error", fields)
  OBVIOUS
<1> HIDE DEF f
<1>5. ASSUME NEW i \in 1..n PROVE f[i] = SplitStep(f[i - 1], s[i])
  <2>1. CASE i = 1
    BY <1>2, <1>4, <2>1
  <2>2. CASE i # 1
    <3>1. i - 1 \in 1..n
      BY <2>2
    <3> QED BY <1>3, <1>4, <3>1
  <2> QED BY <2>1, <2>2
<1> QED BY <1>1, <1>4, <1>5 DEF SplitsTo

(* A word with a blank before it, behind another word.                       *)
LEMMA SplitsNextWord ==
  ASSUME NEW word, IsWord(word), NEW fields \in Texts
  PROVE  /\ <<" ">> \o word \in Seq(Symbols)
         /\ SplitsTo(At("word", fields), <<" ">> \o word,
                     IF Len(fields) < MAXFIELDS THEN At("word", Append(fields, word))
                     ELSE At("error", fields))
<1>1. word \in Seq(Symbols) /\ <<" ">> \in Seq(Symbols)
  BY ShortSequences, SymbolsOfFiles DEF IsWord
<1>2. SplitsTo(At("word", fields), <<" ">>, At("space", fields))
  <2>1. SplitStep(At("word", fields), " ") = At("space", fields)
    BY SplitsBlank DEF Blank
  <2> QED BY <2>1, SplitsOne
<1>3. Len(fields) < MAXFIELDS \/ Len(fields) >= MAXFIELDS
  BY DEF Texts, MAXFIELDS
<1>4. CASE Len(fields) < MAXFIELDS
  <2>1. SplitsTo(At("space", fields), word, At("word", Append(fields, word)))
    BY <1>4, SplitsWord
  <2> QED BY <1>1, <1>2, <1>4, <2>1, SplitsOn
<1>5. CASE ~(Len(fields) < MAXFIELDS)
  <2>1. word # << >> /\ word[1] \notin Blank /\ word[1] # "#"
    BY WordHas
  <2>3. SplitsTo(At("space", fields), word, At("error", fields))
    BY <1>1, <1>3, <1>5, <2>1, SplitsTooMany
  <2> QED BY <1>1, <1>2, <1>5, <2>3, SplitsOn
<1> QED BY <1>4, <1>5

(* Words with blanks between them: up to MAXFIELDS are the fields.           *)
LEMMA SplitsWords ==
  ASSUME NEW words \in Texts, words # << >>, \A i \in 1..Len(words) : IsWord(words[i])
  PROVE  /\ Spaced(words) \in Seq(Symbols)
         /\ Len(words) <= MAXFIELDS =>
              SplitsTo(At("space", << >>), Spaced(words), At("word", words))
         /\ Len(words) > MAXFIELDS =>
              \E fields : SplitsTo(At("space", << >>), Spaced(words), At("error", fields))
<1> DEFINE Piece(i) == (IF i = 1 THEN << >> ELSE <<" ">>) \o words[i]
           Upto(i) == SubSeq(words, 1, i)
           start == At("space", << >>)
           to(i) == IF i <= MAXFIELDS THEN At("word", Upto(i)) ELSE At("error", Upto(MAXFIELDS))
<1>0. PICK n \in Nat : n = Len(words) /\ n > 0
  BY DEF Texts
<1>1. \A i \in 1..n : words[i] \in Seq(Symbols)
  BY <1>0 DEF Texts
<1>2. /\ Upto(0) = << >> /\ Upto(n) = words
      /\ \A i \in 0..n : Upto(i) \in Texts /\ Len(Upto(i)) = i
      /\ \A i \in 1..n : Upto(i) = Append(Upto(i - 1), words[i])
  BY <1>0, GrowsByOne DEF Texts
<1> HIDE DEF Upto
<1>3. Piece(1) = words[1] /\ words[1] \in Seq(Symbols)
  <2>1. words[1] \in Seq(Symbols)
    BY <1>0, <1>1
  <2> QED BY <2>1, ConcatEmptySeq
<1>4. \A i \in 2..n : Piece(i) = <<" ">> \o words[i] /\ Piece(i) \in Seq(Symbols)
  <2> SUFFICES ASSUME NEW i \in 2..n
               PROVE  Piece(i) = <<" ">> \o words[i] /\ Piece(i) \in Seq(Symbols)
    OBVIOUS
  <2>1. IsWord(words[i])
    BY <1>0
  <2>2. << >> \in Texts
    BY EmptySeq DEF Texts
  <2>3. <<" ">> \o words[i] \in Seq(Symbols)
    BY <2>1, <2>2, SplitsNextWord
  <2>4. i # 1
    OBVIOUS
  <2>5. Piece(i) = <<" ">> \o words[i]
    BY <2>4
  <2> QED BY <2>3, <2>5
<1> DEFINE pieces == [i \in 1..n |-> Piece(i)]
<1>5. pieces \in [1..n -> Seq(Symbols)] /\ \A i \in 1..n : pieces[i] = Piece(i)
  <2>1. \A i \in 1..n : i = 1 \/ i \in 2..n
    OBVIOUS
  <2> HIDE DEF Piece
  <2> QED BY <1>3, <1>4, <2>1
<1>6. Spaced(words) = FlattenSeq(pieces)
  BY <1>0 DEF Spaced
<1> HIDE DEF Piece, pieces
<1>7. PICK before \in [0..n -> Seq(Symbols)] :
        /\ before[0] = << >>
        /\ \A i \in 1..n : before[i] = before[i - 1] \o pieces[i]
        /\ FlattenSeq(pieces) = before[n]
  BY <1>5, FlattenSteps
<1>8. before[1] = words[1]
  <2>1. 1 \in 1..n /\ 1 - 1 = 0
    BY <1>0
  <2>2. before[1] = << >> \o words[1]
    BY <1>3, <1>5, <1>7, <2>1
  <2> QED BY <1>3, <2>2, ConcatEmptySeq
<1> DEFINE S == {k \in Nat : k + 1 <= n => SplitsTo(start, before[k + 1], to(k + 1))}
<1>9. 0 \in S
  <2>1. 1 \in 1..n /\ 1 - 1 = 0 /\ 0 + 1 = 1 /\ 1 <= MAXFIELDS
    BY <1>0 DEF MAXFIELDS
  <2>2. << >> \in Texts /\ Len(<< >>) < MAXFIELDS
    BY <1>2, EmptySeq DEF Texts, MAXFIELDS
  <2>3. IsWord(words[1])
    BY <1>0, <2>1
  <2>4. SplitsTo(start, words[1], At("word", Append(<< >>, words[1])))
    BY <2>2, <2>3, SplitsWord
  <2>5. Append(<< >>, words[1]) = Upto(1)
    BY <1>2, <2>1
  <2> QED BY <1>8, <2>1, <2>4, <2>5
<1>10. ASSUME NEW k \in Nat, k \in S PROVE k + 1 \in S
  <2>1. SUFFICES ASSUME k + 1 + 1 <= n
                 PROVE  SplitsTo(start, before[k + 1 + 1], to(k + 1 + 1))
    OBVIOUS
  <2>2. PICK i \in 2..n : i = k + 1 + 1 /\ i - 1 = k + 1 /\ i \in 1..n /\ i - 1 \in 0..n
    BY <2>1
  <2>3. SplitsTo(start, before[i - 1], to(i - 1))
    BY <1>10, <2>1, <2>2
  <2>4. before[i] = before[i - 1] \o pieces[i] /\ before[i - 1] \in Seq(Symbols)
    BY <1>7, <2>2
  <2>5. pieces[i] = <<" ">> \o words[i] /\ pieces[i] \in Seq(Symbols)
    BY <1>4, <1>5, <2>2
  <2>6. SplitsTo(to(i - 1), pieces[i], to(i))
    <3>1. CASE i - 1 < MAXFIELDS
      <4>1. to(i - 1) = At("word", Upto(i - 1)) /\ to(i) = At("word", Upto(i))
        BY <3>1 DEF MAXFIELDS
      <4>2. Upto(i - 1) \in Texts /\ Len(Upto(i - 1)) < MAXFIELDS
            /\ Upto(i) = Append(Upto(i - 1), words[i]) /\ IsWord(words[i])
        BY <1>0, <1>2, <2>2, <3>1
      <4> QED BY <2>5, <4>1, <4>2, SplitsNextWord
    <3>2. CASE i - 1 = MAXFIELDS
      <4>1. to(i - 1) = At("word", Upto(i - 1)) /\ to(i) = At("error", Upto(i - 1))
        BY <3>2 DEF MAXFIELDS
      <4>2. Upto(i - 1) \in Texts /\ ~(Len(Upto(i - 1)) < MAXFIELDS) /\ IsWord(words[i])
        BY <1>0, <1>2, <2>2, <3>2 DEF MAXFIELDS
      <4> QED BY <2>5, <4>1, <4>2, SplitsNextWord
    <3>3. CASE i - 1 > MAXFIELDS
      <4>1. to(i - 1) = At("error", Upto(MAXFIELDS)) /\ to(i) = At("error", Upto(MAXFIELDS))
        BY <3>3 DEF MAXFIELDS
      <4> QED BY <2>5, <4>1, SplitEnds
    <3> QED BY <3>1, <3>2, <3>3 DEF MAXFIELDS
  <2>8. i = k + 1 + 1
    BY <2>2
  <2> HIDE DEF to, start
  <2>9. SplitsTo(start, before[i - 1] \o pieces[i], to(i))
    BY <2>3, <2>4, <2>5, <2>6, SplitsOn
  <2>7. SplitsTo(start, before[i], to(i))
    BY <2>4, <2>9
  <2> QED BY <2>7, <2>8
<1>11. \A k \in Nat : k \in S
  <2> HIDE DEF S
  <2> QED BY <1>9, <1>10, SetInduction
<1>12. SplitsTo(start, before[n], to(n)) /\ before[n] \in Seq(Symbols)
  <2>1. n - 1 \in Nat /\ n - 1 + 1 = n
    BY <1>0
  <2>2. n - 1 \in S
    BY <1>11, <2>1
  <2> QED BY <1>7, <2>1, <2>2
<1> QED BY <1>0, <1>2, <1>6, <1>7, <1>12 DEF MAXFIELDS

-----------------------------------------------------------------------------
(* Numbers and hosts.                                                        *)

(* The digits are ten different symbols, none of which means anything else.  *)
LEMMA DigitsDiffer ==
  /\ \A i, j \in 1..10 : Digits[i] = Digits[j] => i = j
  /\ \A i \in 1..10 : /\ Digits[i] \in Symbols /\ Digits[i] \in ToSet(Digits)
                      /\ Digits[i] # " " /\ Digits[i] # "TAB" /\ Digits[i] # "#"
                      /\ Digits[i] # "QUOTE" /\ Digits[i] # ":" /\ Digits[i] # "-"
                      /\ Digits[i] # "LF" /\ Digits[i] # "CR" /\ Digits[i] # "+"
<1> DEFINE D == Digits
<1>1. /\ D[1] = "0" /\ D[2] = "1" /\ D[3] = "2" /\ D[4] = "3" /\ D[5] = "4"
      /\ D[6] = "5" /\ D[7] = "6" /\ D[8] = "7" /\ D[9] = "8" /\ D[10] = "9"
      /\ DOMAIN D = 1..10
  BY DEF Digits
<1> HIDE DEF D
<1>2. \A i \in 1..10 : i \in {1, 2, 3, 4, 5, 6, 7, 8, 9, 10}
  OBVIOUS
<1>3. ASSUME NEW i \in 1..10, NEW j \in 1..10, D[i] = D[j] PROVE i = j
  BY <1>1, <1>2, <1>3
<1>4. ASSUME NEW i \in 1..10
      PROVE  /\ D[i] # " " /\ D[i] # "TAB" /\ D[i] # "#" /\ D[i] # "QUOTE"
             /\ D[i] # ":" /\ D[i] # "-" /\ D[i] # "LF" /\ D[i] # "CR" /\ D[i] # "+"
  BY <1>1, <1>2
<1>5. \A i \in 1..10 : D[i] \in ToSet(D)
  BY <1>1 DEF ToSet
<1>6. \A i \in 1..10 : D[i] \in Symbols
  BY SymbolsAssumption DEF SymbolsAssumption, D
<1> QED BY <1>3, <1>4, <1>5, <1>6 DEF D

(* v[i] is what the first i of the digits d come to.                         *)
Counts(s, n, d, v) ==
  /\ n \in Nat /\ Len(s) = n /\ Unsigned(s) = s /\ ~Negative(s)
  /\ \A i \in 1..n : d[i] \in 1..10 /\ s[i] = Digits[d[i]]
  /\ v[0] = 0 /\ \A i \in 1..n : v[i] = 10 * v[i - 1] + d[i] - 1
  /\ \A i \in 0..n : v[i] \in Int

(* Reading digits from the left.                                             *)
LEMMA NumberSteps ==
  ASSUME NEW s, NEW n, NEW d, NEW v, Counts(s, n, d, v)
  PROVE  NumberOf(s) = v[n]
<1> USE DEF Counts
<1> DEFINE digits == Unsigned(s)
           Digit(c) == CHOOSE e \in 1..10 : Digits[e] = c
           Step(f, i) == IF i = 0 THEN 0 ELSE 10 * f[i - 1] + Digit(digits[i]) - 1
           F(f) == [i \in 0..Len(digits) |-> Step(f, i)]
           value == CHOOSE f : f = F(f)
           g == [i \in 0..n |-> v[i]]
<1>n. n \in Nat
  OBVIOUS
<1>0. NumberOf(s) = IF Negative(s) THEN -value[Len(digits)] ELSE value[Len(digits)]
  BY DEF NumberOf
<1> HIDE DEF digits
<1>d. digits = s /\ Len(digits) = n
  BY DEF digits
<1>1. \A i \in 1..n : Digit(s[i]) = d[i]
  <2> SUFFICES ASSUME NEW i \in 1..n PROVE Digit(s[i]) = d[i]
    OBVIOUS
  <2>1. d[i] \in 1..10 /\ s[i] = Digits[d[i]]
    OBVIOUS
  <2>2. \A e \in 1..10 : Digits[e] = s[i] <=> e = d[i]
    BY ZenonT(30), <2>1, DigitsDiffer
  <2> QED BY <2>1, <2>2
<1> HIDE DEF Digit
<1>2. ASSUME NEW i \in 0..n PROVE g[i] = Step(g, i)
  <2>1. CASE i = 0
    BY <2>1
  <2>2. CASE i # 0
    <3>1. i \in 1..n /\ g[i] = v[i] /\ g[i - 1] = v[i - 1]
      BY <2>2
    <3> QED BY <1>1, <1>d, <2>2, <3>1
  <2> QED BY <2>1, <2>2
<1>3. g = F(g)
  <2>1. g = [i \in 0..n |-> g[i]]
    OBVIOUS
  <2> HIDE DEF g, Step
  <2> QED BY <1>2, <1>d, <2>1
<1> HIDE DEF g
<1>4. value = F(value)
  <2> HIDE DEF F
  <2> QED BY <1>3
<1> HIDE DEF value
<1>5. NumberOf(s) = value[n]
  BY <1>0, <1>d
<1>6. \A i \in 0..n : value[i] = Step(value, i)
  <2> HIDE DEF Step
  <2> QED BY <1>4, <1>d
<1> HIDE DEF F
<1> DEFINE S == {k \in Nat : k <= n => value[k] = v[k]}
<1>7. 0 \in S
  BY <1>6
<1>8. ASSUME NEW k \in Nat, k \in S PROVE k + 1 \in S
  <2>1. SUFFICES ASSUME k + 1 <= n PROVE value[k + 1] = v[k + 1]
    OBVIOUS
  <2>2. value[k] = v[k] /\ k + 1 \in 1..n /\ k + 1 \in 0..n /\ k + 1 - 1 = k /\ k + 1 # 0
    BY <1>8, <2>1
  <2>3. value[k + 1] = 10 * value[k] + d[k + 1] - 1
    BY <1>1, <1>6, <1>d, <2>2
  <2> QED BY <2>2, <2>3
<1>9. n \in S
  <2> HIDE DEF S
  <2> QED BY <1>7, <1>8, SetInduction
<1> QED BY <1>5, <1>9

(* One symbol, and two.                                                      *)
LEMMA ShortHave ==
  ASSUME NEW B, NEW c \in B, NEW d \in B
  PROVE  /\ <<c>> \in Seq(B) /\ Len(<<c>>) = 1 /\ <<c>>[1] = c
         /\ <<c, d>> \in Seq(B) /\ Len(<<c, d>>) = 2 /\ <<c, d>>[1] = c /\ <<c, d>>[2] = d
  OBVIOUS

(* strtoul finds nothing to skip in front of a symbol that is no space.      *)
LEMMA NothingSkipped ==
  ASSUME NEW s \in Seq(Symbols), NEW n \in Nat, n = Len(s), n >= 1,
         s[1] \notin Blank \cup {"CR", "LF"}
  PROVE  Unspaced(s) = s
<1> DEFINE I == {i \in 1..Len(s) : s[i] \notin Blank \cup {"CR", "LF"}}
           at == IF I # {} THEN Min(I) ELSE 0
<1>1. SelectInSeq(s, LAMBDA c : c \notin Blank \cup {"CR", "LF"}) = at
  BY DEF SelectInSeq
<1>2. 1 \in I /\ \A i \in I : i \in Nat /\ 1 <= i
  OBVIOUS
<1> HIDE DEF I
<1>3. Min(I) \in I /\ Min(I) <= 1
  BY <1>2 DEF Min
<1>4. at = 1
  BY <1>2, <1>3
<1> HIDE DEF at
<1>5. SubSeq(s, 1, Len(s)) = s
  OBVIOUS
<1> QED BY <1>1, <1>4, <1>5 DEF Unspaced

(* Digits are a number without a sign, and a word.                           *)
LEMMA DigitsAre ==
  ASSUME NEW s \in Seq(Symbols), Len(s) \in Nat \ {0},
         \A i \in 1..Len(s) : \E d \in 1..10 : s[i] = Digits[d]
  PROVE  /\ Unsigned(s) = s /\ ~Negative(s) /\ IsWord(s) /\ IsNumber(s)
         /\ \A i \in 1..Len(s) : s[i] # ":" /\ s[i] # "LF" /\ s[i] # "CR"
<1>1. \A i \in 1..Len(s) : /\ s[i] \in ToSet(Digits)
                           /\ s[i] # " " /\ s[i] # "TAB" /\ s[i] # "#" /\ s[i] # "QUOTE"
                           /\ s[i] # ":" /\ s[i] # "-" /\ s[i] # "LF" /\ s[i] # "CR"
                           /\ s[i] # "+"
  BY DigitsDiffer
<1>2. s # << >> /\ 1 \in 1..Len(s) /\ Head(s) = s[1]
  <2>1. 1 \in 1..Len(s)
    OBVIOUS
  <2>2. s # << >>
    BY EmptySeq
  <2>3. Head(s) = s[1]
    BY <2>1, <2>2, HeadTailProperties
  <2> QED BY <2>1, <2>2, <2>3
<1>3. ToSet(s) \subseteq ToSet(Digits) /\ ToSet(s) \cap Blank = {}
  <2>1. \A x \in ToSet(s) : \E i \in 1..Len(s) : x = s[i]
    BY DEF ToSet
  <2> QED BY <1>1, <2>1 DEF Blank
<1>4. Unsigned(s) = s /\ ~Negative(s)
  <2>1. Unspaced(s) = s
    <3>1. s[1] \notin Blank \cup {"CR", "LF"}
      BY <1>1, <1>2 DEF Blank
    <3>2. PICK n \in Nat : n = Len(s) /\ n >= 1
      OBVIOUS
    <3> QED BY <3>1, <3>2, NothingSkipped
  <2>2. s[1] \notin {"+", "-"}
    BY <1>1, <1>2
  <2> QED BY <1>2, <2>1, <2>2 DEF Unsigned, Negative
<1> QED BY <1>1, <1>2, <1>3, <1>4 DEF IsWord, IsNumber

(* A number is read as it is written.                                        *)
LEMMA DecimalReads ==
  ASSUME NEW n \in 0..99
  PROVE  /\ IsWord(Decimal(n)) /\ IsNumber(Decimal(n)) /\ NumberOf(Decimal(n)) = n
         /\ \A i \in 1..Len(Decimal(n)) :
              Decimal(n)[i] # ":" /\ Decimal(n)[i] # "LF" /\ Decimal(n)[i] # "CR"
<1> DEFINE Good(s) == /\ IsWord(s) /\ IsNumber(s) /\ NumberOf(s) = n
                      /\ \A i \in 1..Len(s) : s[i] # ":" /\ s[i] # "LF" /\ s[i] # "CR"
<1>1. CASE n < 10
  <2>1. PICK d \in 1..10 : d = n + 1
    BY <1>1
  <2> DEFINE s == <<Digits[d]>>
  <2>2. Decimal(n) = s
    BY <1>1, <2>1 DEF Decimal
  <2>3. s \in Seq(Symbols) /\ Len(s) = 1 /\ s[1] = Digits[d]
    BY DigitsDiffer, ShortHave
  <2> HIDE DEF s
  <2>4. \A i \in 1..Len(s) : \E e \in 1..10 : s[i] = Digits[e]
    BY <2>3
  <2>5. Len(s) \in Nat \ {0}
    BY <2>3
  <2>6. /\ Unsigned(s) = s /\ ~Negative(s) /\ IsWord(s) /\ IsNumber(s)
        /\ \A i \in 1..Len(s) : s[i] # ":" /\ s[i] # "LF" /\ s[i] # "CR"
    BY <2>3, <2>4, <2>5, DigitsAre
  <2>8. NumberOf(s) = n
    <3> DEFINE ds == [i \in 1..1 |-> d]
               v == [i \in 0..1 |-> IF i = 0 THEN 0 ELSE n]
    <3>1. \A i \in 1..1 : ds[i] \in 1..10 /\ s[i] = Digits[ds[i]]
      BY <2>3
    <3>2. /\ v[0] = 0 /\ v[1] = n
          /\ \A i \in 1..1 : v[i] = 10 * v[i - 1] + ds[i] - 1
          /\ \A i \in 0..1 : v[i] \in Int
      BY <2>1
    <3> HIDE DEF ds, v
    <3>3. Counts(s, 1, ds, v)
      BY <2>3, <2>6, <3>1, <3>2 DEF Counts
    <3> QED BY <3>2, <3>3, NumberSteps
  <2>9. Good(s)
    BY <2>6, <2>8
  <2> HIDE DEF Good
  <2>10. Good(Decimal(n))
    BY <2>2, <2>9
  <2> QED BY <2>10 DEF Good
<1>2. CASE ~(n < 10)
  <2>1. PICK c \in 1..10, d \in 1..10 : c = n \div 10 + 1 /\ d = (n % 10) + 1
                                        /\ n = 10 * (c - 1) + d - 1
    <3>1. PICK q \in 0..9, r \in 0..9 : q = n \div 10 /\ r = n % 10
      OBVIOUS
    <3>2. n = 10 * q + r
      BY <3>1
    <3>3. q + 1 \in 1..10 /\ r + 1 \in 1..10
      OBVIOUS
    <3> QED BY <3>1, <3>2, <3>3
  <2> DEFINE s == <<Digits[c], Digits[d]>>
  <2>2. Decimal(n) = s
    BY <1>2, <2>1 DEF Decimal
  <2>3. s \in Seq(Symbols) /\ Len(s) = 2 /\ s[1] = Digits[c] /\ s[2] = Digits[d]
    BY DigitsDiffer, ShortHave
  <2> HIDE DEF s
  <2>4. \A i \in 1..Len(s) : \E e \in 1..10 : s[i] = Digits[e]
    BY <2>3
  <2>5. Len(s) \in Nat \ {0}
    BY <2>3
  <2>6. /\ Unsigned(s) = s /\ ~Negative(s) /\ IsWord(s) /\ IsNumber(s)
        /\ \A i \in 1..Len(s) : s[i] # ":" /\ s[i] # "LF" /\ s[i] # "CR"
    BY <2>3, <2>4, <2>5, DigitsAre
  <2>8. NumberOf(s) = n
    <3> DEFINE ds == [i \in 1..2 |-> IF i = 1 THEN c ELSE d]
               v == [i \in 0..2 |-> IF i = 0 THEN 0 ELSE IF i = 1 THEN c - 1 ELSE n]
    <3>1. \A i \in 1..2 : ds[i] \in 1..10 /\ s[i] = Digits[ds[i]]
      BY <2>3
    <3>2. /\ v[0] = 0 /\ v[2] = n
          /\ \A i \in 1..2 : v[i] = 10 * v[i - 1] + ds[i] - 1
          /\ \A i \in 0..2 : v[i] \in Int
      BY <2>1
    <3> HIDE DEF ds, v
    <3>3. Counts(s, 2, ds, v)
      BY <2>3, <2>6, <3>1, <3>2 DEF Counts
    <3> QED BY <3>2, <3>3, NumberSteps
  <2>9. Good(s)
    BY <2>6, <2>8
  <2> HIDE DEF Good
  <2>10. Good(Decimal(n))
    BY <2>2, <2>9
  <2> QED BY <2>10 DEF Good
<1> QED BY <1>1, <1>2

(* Where a symbol is first, and where it is not.                             *)
LEMMA CutAt ==
  ASSUME NEW a \in Seq(Symbols), NEW b \in Seq(Symbols), NEW c \in Symbols,
         \A i \in 1..Len(a) : a[i] # c
  PROVE  /\ Before(a, c) = a /\ Behind(a, c) = << >>
         /\ Before(a \o (<<c>> \o b), c) = a /\ Behind(a \o (<<c>> \o b), c) = b
<1> DEFINE I(s) == {i \in 1..Len(s) : s[i] = c}
           at(s) == IF I(s) # {} THEN Min(I(s)) ELSE 0
           s == a \o (<<c>> \o b)
<1>1. \A t : SelectInSeq(t, LAMBDA x : x = c) = at(t)
  BY DEF SelectInSeq
<1>2. at(a) = 0
  OBVIOUS
<1>3. Before(a, c) = a /\ Behind(a, c) = << >>
  BY <1>1, <1>2 DEF Before, Behind
<1>4. PICK m \in Nat : m = Len(a)
  OBVIOUS
<1>5. PICK n \in Nat : n = Len(b)
  OBVIOUS
<1>6. /\ s \in Seq(Symbols) /\ Len(s) = m + 1 + n
      /\ \A i \in 1..m : s[i] = a[i]
      /\ s[m + 1] = c
      /\ \A i \in 1..n : s[m + 1 + i] = b[i]
  <2> DEFINE t == <<c>> \o b
  <2>1. t \in Seq(Symbols) /\ Len(t) = 1 + n /\ t[1] = c /\ \A i \in 1..n : t[1 + i] = b[i]
    BY <1>5
  <2> HIDE DEF t
  <2>a. PICK k \in Nat : k = Len(t) /\ k = 1 + n
    BY <2>1
  <2>b. /\ a \o t \in Seq(Symbols) /\ Len(a \o t) = m + k
        /\ \A i \in 1..m : (a \o t)[i] = a[i]
        /\ \A i \in 1..k : (a \o t)[m + i] = t[i]
    <3>1. /\ a \o t \in Seq(Symbols) /\ Len(a \o t) = Len(a) + Len(t)
          /\ \A i \in 1..Len(a) : (a \o t)[i] = a[i]
          /\ \A i \in 1..Len(t) : (a \o t)[Len(a) + i] = t[i]
      <4>1. t \in Seq(Symbols)
        BY <2>1
      <4> QED BY <4>1, JoinedSequences
    <3> QED BY <1>4, <2>a, <3>1
  <2>2. /\ a \o t \in Seq(Symbols) /\ Len(a \o t) = m + (1 + n)
        /\ \A i \in 1..m : (a \o t)[i] = a[i]
        /\ \A i \in 1..(1 + n) : (a \o t)[m + i] = t[i]
    BY <2>a, <2>b
  <2>3. (a \o t)[m + 1] = c
    <3>1. 1 \in 1..(1 + n)
      OBVIOUS
    <3> QED BY <2>1, <2>2, <3>1
  <2>4. ASSUME NEW i \in 1..n PROVE (a \o t)[m + 1 + i] = b[i]
    <3>1. 1 + i \in 1..(1 + n) /\ m + (1 + i) = m + 1 + i
      OBVIOUS
    <3>2. (a \o t)[m + (1 + i)] = t[1 + i]
      BY <2>2, <3>1
    <3> QED BY <2>1, <3>1, <3>2
  <2>5. m + (1 + n) = m + 1 + n
    OBVIOUS
  <2> QED BY <2>2, <2>3, <2>4, <2>5 DEF t
<1> HIDE DEF s
<1>7. at(s) = m + 1
  <2>1. m + 1 \in I(s) /\ \A i \in I(s) : m + 1 <= i
    <3>1. m + 1 \in 1..(m + 1 + n)
      OBVIOUS
    <3>2. m + 1 \in I(s)
      BY <1>6, <3>1
    <3>3. ASSUME NEW i \in I(s), ~(m + 1 <= i) PROVE FALSE
      <4>1. i \in 1..m
        BY <1>6, <3>3
      <4> QED BY <1>4, <1>6, <4>1
    <3>4. \A i \in I(s) : i \in Int
      BY <1>6
    <3> QED BY <3>2, <3>3, <3>4
  <2>2. Min(I(s)) \in I(s) /\ Min(I(s)) <= m + 1
    BY <2>1 DEF Min
  <2> QED BY <2>1, <2>2
<1>8. SubSeq(s, 1, m + 1 - 1) = a
  <2>1. SubSeq(s, 1, m) \in Seq(Symbols) /\ Len(SubSeq(s, 1, m)) = m
        /\ \A i \in 1..m : SubSeq(s, 1, m)[i] = s[i]
    BY <1>6
  <2>2. SubSeq(s, 1, m) = a
    BY <1>4, <1>6, <2>1, SeqEqual
  <2> QED BY <2>2
<1>9. SubSeq(s, m + 1 + 1, Len(s)) = b
  <2> DEFINE t == SubSeq(s, m + 2, m + 1 + n)
  <2>1. \A i \in (m + 2)..(m + 1 + n) : s[i] \in Symbols
    BY <1>6
  <2>2. /\ t \in Seq(Symbols) /\ Len(t) = n
        /\ \A i \in 1..n : t[i] = s[m + 2 + i - 1]
    <3>1. /\ t \in Seq(Symbols)
          /\ Len(t) = IF m + 2 <= m + 1 + n THEN (m + 1 + n) - (m + 2) + 1 ELSE 0
          /\ \A i \in 1..((m + 1 + n) - (m + 2) + 1) : t[i] = s[m + 2 + i - 1]
      BY <2>1, SubSeqProperties
    <3> QED BY <3>1
  <2> HIDE DEF t
  <2>3. \A i \in 1..n : t[i] = b[i]
    <3>1. \A i \in 1..n : m + 2 + i - 1 = m + 1 + i
      OBVIOUS
    <3> QED BY <1>6, <2>2, <3>1
  <2>4. t = b
    BY <1>5, <2>2, <2>3, SeqEqual
  <2>5. m + 1 + 1 = m + 2
    OBVIOUS
  <2> QED BY <1>6, <2>4, <2>5 DEF t
<1> HIDE DEF at
<1>10. Before(s, c) = a /\ Behind(s, c) = b
  <2>1. at(s) # 0
    BY <1>7
  <2>2. Before(s, c) = SubSeq(s, 1, at(s) - 1)
    BY <1>1, <2>1 DEF Before
  <2>3. Behind(s, c) = SubSeq(s, at(s) + 1, Len(s))
    BY <1>1, <2>1 DEF Behind
  <2> QED BY <1>7, <1>8, <1>9, <2>2, <2>3
<1> QED BY <1>3, <1>10 DEF s

-----------------------------------------------------------------------------
(* Lines.                                                                    *)

(* A sequence that is not empty begins with an element.                      *)
LEMMA BeginsWith ==
  ASSUME NEW B, NEW s \in Seq(B), s # << >>
  PROVE  /\ s[1] \in B /\ Tail(s) \in Seq(B) /\ s = <<s[1]>> \o Tail(s)
         /\ Len(Tail(s)) = Len(s) - 1 /\ (Len(s) > 1 => Tail(s) # << >> /\ Tail(s)[1] = s[2])
<1>1. Len(s) \in Nat \ {0} /\ 1 \in 1..Len(s)
  BY EmptySeq
<1>2. /\ Tail(s) \in Seq(B) /\ Len(Tail(s)) = Len(s) - 1
      /\ \A i \in 1..Len(Tail(s)) : Tail(s)[i] = s[i + 1]
  BY HeadTailProperties
<1>3. s[1] \in B /\ <<s[1]>> \in Seq(B)
  <2>1. s[1] \in B
    BY <1>1
  <2> QED BY <2>1, ShortSequences
<1>4. s = <<s[1]>> \o Tail(s)
  <2> DEFINE h == <<s[1]>>
             t == Tail(s)
             u == h \o t
  <2>1. h \in Seq(B) /\ Len(h) = 1 /\ h[1] = s[1]
    BY <1>3, ShortHave
  <2>2. t \in Seq(B)
    BY <1>2
  <2> HIDE DEF h, t
  <2>3. /\ u \in Seq(B) /\ Len(u) = Len(h) + Len(t)
        /\ \A j \in 1..Len(h) : u[j] = h[j]
        /\ \A j \in 1..Len(t) : u[Len(h) + j] = t[j]
    <3>1. h \in Seq(B)
      BY <2>1
    <3> QED BY <2>2, <3>1, JoinedSequences
  <2> HIDE DEF u
  <2>4. Len(u) = Len(s)
    BY <1>1, <1>2, <2>1, <2>3 DEF t
  <2>5. ASSUME NEW i \in 1..Len(s) PROVE s[i] = u[i]
    <3>1. CASE i = 1
      BY <2>1, <2>3, <3>1
    <3>2. CASE i # 1
      <4>1. PICK j \in 1..Len(t) : i = 1 + j
        <5>1. i - 1 \in 1..Len(t) /\ i = 1 + (i - 1)
          BY <1>1, <1>2, <3>2 DEF t
        <5> QED BY <5>1
      <4>2. u[1 + j] = t[j] /\ t[j] = s[j + 1] /\ j + 1 = 1 + j
        BY <1>2, <2>1, <2>3 DEF t
      <4> QED BY <4>1, <4>2
    <3> QED BY <3>1, <3>2
  <2>6. u = s
    BY <2>3, <2>4, <2>5, SeqEqual
  <2> QED BY <2>6 DEF u, h, t
<1>5. Len(s) > 1 => Tail(s) # << >> /\ Tail(s)[1] = s[2]
  <2> SUFFICES ASSUME Len(s) > 1 PROVE Tail(s) # << >> /\ Tail(s)[1] = s[2]
    OBVIOUS
  <2>1. Len(Tail(s)) # 0 /\ 1 \in 1..Len(Tail(s)) /\ 1 + 1 = 2
    BY <1>1, <1>2
  <2> QED BY <1>2, <2>1, EmptySeq
<1> QED BY <1>2, <1>3, <1>4, <1>5

(* How a line can be malformed.                                              *)
Failing(st) == st.mode = "error" \/ st.mode = "quoted" \/ st.mode = "escape"

(* The fields of a line that has some, with its service.                     *)
WithService(given) ==
  IF given # << >> /\ given[1] \in Services THEN given ELSE << <<"auth">> >> \o given

(* What ParseLine makes of the fields.                                       *)
LEMMA LineFails ==
  ASSUME NEW line, NEW type, NEW st, Split(line) = st,
         Failing(st) \/ (st.fields # << >> /\ Len(WithService(st.fields)) \notin 3..MAXFIELDS)
  PROVE  ParseLine(line, type) = Error
  BY DEF ParseLine, Failing, WithService, SplitFails, FieldsOf

(* A line without fields says nothing.                                       *)
LEMMA LineSkips ==
  ASSUME NEW line, NEW type, NEW st, Split(line) = st, ~Failing(st), st.fields = << >>
  PROVE  ParseLine(line, type) = Skip
  BY DEF ParseLine, Failing, SplitFails, FieldsOf

(* A line with fields gives a server to a handle of its type.                *)
LEMMA LineGives ==
  ASSUME NEW line, NEW type, NEW st, NEW fields, Split(line) = st, ~Failing(st),
         st.fields # << >>, WithService(st.fields) = fields, Len(fields) \in 3..MAXFIELDS
  PROVE  /\ fields[1] # <<type>> => ParseLine(line, type) = Skip
         /\ /\ fields[1] = <<type>>
            /\ HostOf(fields[2]) \in KnownHosts /\ IsNumber(PortOf(fields[2]))
            /\ \A i \in 4..Len(fields) : IsNumber(fields[i])
            => ParseLine(line, type) =
                 [error |-> FALSE,
                  servers |-> <<Server(HostOf(fields[2]), NumberOf(PortOf(fields[2])), fields[3],
                    IF 4 <= Len(fields) THEN NumberOf(fields[4]) ELSE TIMEOUT,
                    IF 5 <= Len(fields) THEN NumberOf(fields[5]) ELSE MAXTRIES)>>]
<1> DEFINE named == st.fields # << >> /\ st.fields[1] \in Services
<1>1. ~SplitFails(line) /\ FieldsOf(line) = st.fields
  BY DEF Failing, SplitFails, FieldsOf
<1>2. (IF named THEN st.fields ELSE << <<"auth">> >> \o st.fields) = fields
  BY DEF WithService
<1> DEFINE number(i, default) == IF i <= Len(fields) THEN NumberOf(fields[i]) ELSE default
           malformed == \/ SplitFails(line)
                        \/ st.fields # << >> /\ Len(fields) \notin 3..MAXFIELDS
           ours == st.fields # << >> /\ fields[1] = <<type>>
           invalid == \/ HostOf(fields[2]) \notin KnownHosts
                      \/ ~IsNumber(PortOf(fields[2]))
                      \/ \E i \in 4..Len(fields) : ~IsNumber(fields[i])
<1>3. ParseLine(line, type) =
        IF malformed \/ (ours /\ invalid) THEN Error
        ELSE IF ~ours THEN Skip
        ELSE [error |-> FALSE,
              servers |-> <<Server(HostOf(fields[2]), NumberOf(PortOf(fields[2])),
                                   fields[3], number(4, TIMEOUT), number(5, MAXTRIES))>>]
  BY <1>1, <1>2 DEF ParseLine
<1>4. ~malformed
  BY <1>1
<1>5. CASE fields[1] # <<type>>
  BY <1>3, <1>4, <1>5
<1>6. CASE /\ fields[1] = <<type>>
           /\ HostOf(fields[2]) \in KnownHosts /\ IsNumber(PortOf(fields[2]))
           /\ \A i \in 4..Len(fields) : IsNumber(fields[i])
  <2>1. ours /\ ~invalid
    BY <1>6
  <2> HIDE DEF ours, invalid, malformed
  <2> QED BY <1>3, <1>4, <1>6, <2>1
<1> QED BY <1>5, <1>6

(* An aside has no fields.                                                   *)
LEMMA AsideSkips ==
  ASSUME NEW line, IsAside(line), NEW type
  PROVE  ParseLine(line, type) = Skip
<1>1. PICK n \in 0..Len(line) : /\ \A i \in 1..n : line[i] \in Blank
                                /\ n < Len(line) => line[n + 1] = "#"
  BY DEF IsAside
<1>2. line \in Seq(Symbols)
  BY DEF IsAside, IsLine
<1>3. PICK k \in Nat : k = Len(line)
  BY <1>2
<1> DEFINE start == At("space", << >>)
           note == At("comment", << >>)
           f == [i \in 0..k |-> IF i <= n THEN start ELSE note]
<1>4. \A c \in Blank : SplitStep(start, c) = start
  BY SplitsBlank
<1>5. SplitStep(start, "#") = note
  BY DEF SplitStep, At, Blank
<1>6. \A c : SplitStep(note, c) = note
  BY DEF SplitStep, At
<1>7. f[0] = start /\ \A i \in 0..k : f[i] = IF i <= n THEN start ELSE note
  BY <1>1, <1>3
<1> HIDE DEF f, start, note
<1>8. ASSUME NEW i \in 1..k PROVE f[i] = SplitStep(f[i - 1], line[i])
  <2>1. i \in 0..k /\ i - 1 \in 0..k /\ n \in Int
    BY <1>1, <1>3
  <2>2. CASE i <= n
    <3>1. i \in 1..n /\ i - 1 <= n
      BY <2>1, <2>2
    <3> QED BY <1>1, <1>4, <1>7, <2>1, <2>2, <3>1
  <2>3. CASE i = n + 1
    <3>1. line[i] = "#" /\ i - 1 <= n /\ ~(i <= n)
      BY <1>1, <1>3, <2>1, <2>3
    <3> QED BY <1>5, <1>7, <2>1, <3>1
  <2>4. CASE i > n + 1
    <3>1. ~(i - 1 <= n) /\ ~(i <= n)
      BY <2>1, <2>4
    <3> QED BY <1>6, <1>7, <2>1, <3>1
  <2> QED BY <2>1, <2>2, <2>3, <2>4
<1>9. SplitsTo(start, line, f[k])
  BY <1>3, <1>7, <1>8 DEF SplitsTo
<1>10. Split(line) = f[k]
  BY <1>2, <1>9, SplitIs DEF start
<1>11. ~Failing(f[k]) /\ f[k].fields = << >>
  <2>1. f[k] = start \/ f[k] = note
    BY <1>7
  <2> QED BY <2>1 DEF start, note, At, Failing
<1> QED BY <1>10, <1>11, LineSkips

(* What fails in front of something fails with it.                           *)
LEMMA SplitsFail ==
  ASSUME NEW s \in Seq(Symbols), NEW t \in Seq(Symbols), NEW a, NEW fields,
         SplitsTo(a, s, At("error", fields))
  PROVE  s \o t \in Seq(Symbols) /\ SplitsTo(a, s \o t, At("error", fields))
  BY SplitEnds, SplitsOn

(* An escape of something else, and something behind a quoted string.        *)
LEMMA SplitsWrong ==
  ASSUME NEW s \in Seq(Symbols), s # << >>, NEW mode, NEW fields,
         SplitStep(At(mode, fields), s[1]) = At("error", fields)
  PROVE  SplitsTo(At(mode, fields), s, At("error", fields))
<1>1. s[1] \in Symbols /\ Tail(s) \in Seq(Symbols) /\ s = <<s[1]>> \o Tail(s)
  BY BeginsWith
<1> DEFINE c == s[1]
           t == Tail(s)
<1>2. <<c>> \in Seq(Symbols)
  BY <1>1, ShortSequences
<1>3. SplitsTo(At(mode, fields), <<c>>, At("error", fields))
  BY SplitsOne
<1>4. t \in Seq(Symbols) /\ s = <<c>> \o t
  BY <1>1
<1> HIDE DEF c, t
<1>5. SplitsTo(At(mode, fields), <<c>> \o t, At("error", fields))
  BY <1>2, <1>3, <1>4, SplitsFail
<1> QED BY <1>4, <1>5

(* No way a quoted string of a fault goes on makes a field of it.            *)
LEMMA BehindFails ==
  ASSUME NEW behind \in Seq(Symbols), NEW secret \in Seq(Symbols), NEW fields \in Texts,
         \/ behind = << >>
         \/ behind[1] = "ESCAPE" /\ (Len(behind) > 1 => behind[2] \notin {"QUOTE", "ESCAPE"})
         \/ behind[1] = "QUOTE" /\ (secret = << >>
                                     \/ (Len(behind) > 1 /\ behind[2] \notin Blank))
  PROVE  \E end : SplitsTo(At("quoted", Append(fields, secret)), behind, end) /\ Failing(end)
<1> DEFINE w == Append(fields, secret)
           t == Tail(behind)
<1>1. CASE behind = << >>
  <2>1. SplitsTo(At("quoted", w), << >>, At("quoted", w))
    BY SplitsNone
  <2>2. Failing(At("quoted", w))
    BY DEF Failing, At
  <2> HIDE DEF w
  <2>3. SplitsTo(At("quoted", w), behind, At("quoted", w))
    BY <1>1, <2>1
  <2> QED BY <2>2, <2>3 DEF w
<1>2. Failing(At("error", w)) /\ Failing(At("escape", w))
  BY DEF Failing, At
<1>3. CASE behind # << >>
  <2>1. /\ t \in Seq(Symbols) /\ behind = <<behind[1]>> \o t /\ Len(t) = Len(behind) - 1
        /\ (Len(behind) > 1 => t # << >> /\ t[1] = behind[2])
        /\ Len(behind) \in Nat /\ Len(t) \in Nat
    BY <1>3, BeginsWith
  <2>2. CASE behind[1] = "ESCAPE" /\ (Len(behind) > 1 => behind[2] \notin {"QUOTE", "ESCAPE"})
    <3> DEFINE c == <<"ESCAPE">>
    <3>1. SplitsTo(At("quoted", w), c, At("escape", w)) /\ c \in Seq(Symbols)
      <4>1. SplitStep(At("quoted", w), "ESCAPE") = At("escape", w)
        BY SplitsQuotedChar
      <4> QED BY <4>1, SplitsOne, ShortSequences, SymbolsOfFiles
    <3>2. behind = c \o t
      BY <2>1, <2>2
    <3> HIDE DEF c
    <3>3. CASE t = << >>
      <4>1. SplitsTo(At("escape", w), t, At("escape", w))
        <5>1. SplitsTo(At("escape", w), << >>, At("escape", w))
          BY SplitsNone
        <5> QED BY <3>3, <5>1
      <4> HIDE DEF t, w
      <4>2. SplitsTo(At("quoted", w), c \o t, At("escape", w))
        BY <2>1, <3>1, <4>1, SplitsOn
      <4> QED BY <1>2, <3>2, <4>2 DEF w
    <3>4. CASE t # << >>
      <4>1. Len(behind) > 1
        <5>1. Len(t) # 0
          BY <2>1, <3>4, EmptySeq
        <5> QED BY <2>1, <5>1
      <4>2. t[1] \notin {"QUOTE", "ESCAPE"}
        BY <2>1, <2>2, <4>1
      <4>a. PICK c2 : c2 = t[1]
        OBVIOUS
      <4>b. SplitStep(At("escape", w), c2)
              = IF c2 \in {"QUOTE", "ESCAPE"} THEN At("quoted", Append(fields, Append(secret, c2)))
                ELSE At("error", w)
        BY SplitsQuotedChar
      <4>3. SplitStep(At("escape", w), t[1]) = At("error", w)
        <5> HIDE DEF t, w
        <5> QED BY <4>2, <4>a, <4>b
      <4> HIDE DEF t, w
      <4>4. SplitsTo(At("escape", w), t, At("error", w))
        BY <2>1, <3>4, <4>3, SplitsWrong
      <4>5. SplitsTo(At("quoted", w), c \o t, At("error", w))
        BY <2>1, <3>1, <4>4, SplitsOn
      <4> QED BY <1>2, <3>2, <4>5 DEF w
    <3> QED BY <3>3, <3>4
  <2>3. CASE behind[1] = "QUOTE" /\ secret = << >>
    <3>1. SplitStep(At("quoted", w), behind[1]) = At("error", w)
      BY <2>3, SplitsQuotedChar
    <3> HIDE DEF w
    <3>2. SplitsTo(At("quoted", w), behind, At("error", w))
      BY <1>3, <3>1, SplitsWrong
    <3> QED BY <1>2, <3>2 DEF w
  <2>4. CASE behind[1] = "QUOTE" /\ secret # << >> /\ Len(behind) > 1 /\ behind[2] \notin Blank
    <3> DEFINE c == <<"QUOTE">>
    <3>1. SplitsTo(At("quoted", w), c, At("closed", w)) /\ c \in Seq(Symbols)
      <4>1. SplitStep(At("quoted", w), "QUOTE") = At("closed", w)
        BY <2>4, SplitsQuotedChar
      <4> QED BY <4>1, SplitsOne, ShortSequences, SymbolsOfFiles
    <3>2. behind = c \o t
      BY <2>1, <2>4
    <3>3. t # << >> /\ t[1] \notin Blank
      BY <2>1, <2>4
    <3> HIDE DEF c, t, w
    <3>4. SplitStep(At("closed", w), t[1]) = At("error", w)
      BY <3>3 DEF SplitStep, At
    <3>5. SplitsTo(At("closed", w), t, At("error", w))
      BY <2>1, <3>3, <3>4, SplitsWrong
    <3>6. SplitsTo(At("quoted", w), c \o t, At("error", w))
      BY <2>1, <3>1, <3>5, SplitsOn
    <3> QED BY <1>2, <3>2, <3>6 DEF w
  <2> QED BY <1>3, <2>2, <2>3, <2>4
<1> QED BY <1>1, <1>3

(* Lines with a mistake are errors, for handles of both types.               *)
LEMMA FaultFails ==
  ASSUME NEW fault, IsFault(fault), NEW type
  PROVE  ParseLine(Mistaken(fault), type) = Error
<1> DEFINE words == fault.words
           behind == fault.behind
           secret == fault.secret
           start == At("space", << >>)
<1>1. /\ words \in Texts /\ words # << >> /\ \A i \in 1..Len(words) : IsWord(words[i])
      /\ secret \in Seq(Symbols) /\ behind \in Seq(Symbols)
  BY DEF IsFault, Texts, ToSet
<1>2. PICK n \in Nat : n = Len(words) /\ n > 0
  BY <1>1, EmptySeq DEF Texts
<1>3. /\ Spaced(words) \in Seq(Symbols)
      /\ n <= MAXFIELDS => SplitsTo(start, Spaced(words), At("word", words))
      /\ n > MAXFIELDS => \E fields : SplitsTo(start, Spaced(words), At("error", fields))
  BY <1>1, <1>2, SplitsWords
<1>4. \A fields : Failing(At("error", fields))
  BY DEF Failing, At
<1>5. CASE ~fault.quoted
  <2>1. /\ Mistaken(fault) = Spaced(words)
        /\ n + (IF words[1] \in Services THEN 0 ELSE 1) \notin 3..MAXFIELDS
    <3>1. Spaced(words) \o << >> = Spaced(words)
      BY <1>3, ConcatEmptySeq
    <3> QED BY <1>2, <1>5, <3>1 DEF Mistaken, IsFault
  <2>2. CASE n <= MAXFIELDS
    <3>1. Split(Spaced(words)) = At("word", words)
      BY <1>3, <2>2, SplitIs
    <3>2. At("word", words).fields = words
      BY DEF At
    <3>3. Len(WithService(words)) = n + (IF words[1] \in Services THEN 0 ELSE 1)
      <4>1. CASE words[1] \in Services
        BY <1>1, <1>2, <4>1 DEF WithService
      <4>2. CASE words[1] \notin Services
        <5>1. <<"auth">> \in Seq(Symbols)
          BY ShortSequences, SymbolsOfFiles
        <5> DEFINE auth == <<"auth">>
        <5>2. << auth >> \in Texts /\ Len(<<auth>>) = 1
          <6>1. auth \in Seq(Symbols)
            BY <5>1
          <6> HIDE DEF auth
          <6> QED BY <6>1, ShortHave DEF Texts
        <5> DEFINE first == <<auth>>
        <5>3. Len(first \o words) = 1 + n
          <6>1. first \in Seq(Seq(Symbols)) /\ Len(first) = 1
            BY <5>2 DEF Texts
          <6>2. words \in Seq(Seq(Symbols))
            BY <1>1 DEF Texts
          <6> HIDE DEF first, words
          <6>3. Len(first \o words) = Len(first) + Len(words)
            BY <6>1, <6>2, JoinedSequences
          <6> QED BY <1>2, <6>1, <6>3
        <5>4. WithService(words) = first \o words
          BY <4>2 DEF WithService
        <5> QED BY <1>2, <4>2, <5>3, <5>4
      <4> QED BY <4>1, <4>2
    <3> HIDE DEF words
    <3>4. Len(WithService(words)) \notin 3..MAXFIELDS
      BY <2>1, <3>3
    <3> QED BY <1>1, <2>1, <3>1, <3>2, <3>4, LineFails
  <2>3. CASE n > MAXFIELDS
    <3>1. PICK fields : SplitsTo(start, Spaced(words), At("error", fields))
      BY <1>3, <2>3
    <3>2. Split(Spaced(words)) = At("error", fields)
      BY <1>3, <3>1, SplitIs
    <3> QED BY <1>4, <2>1, <3>2, LineFails
  <2> QED BY <1>2, <2>2, <2>3 DEF MAXFIELDS
<1>6. CASE fault.quoted
  <2> DEFINE blank == <<" ">>
             q == <<"QUOTE">>
             open == <<" ", "QUOTE">>
             e == Escaped(secret)
             rest == open \o e \o behind
  <2>1. /\ blank \in Seq(Symbols) /\ q \in Seq(Symbols) /\ open = blank \o q
        /\ e \in Seq(Symbols) /\ open \in Seq(Symbols)
    BY <1>1, ShortSequences, SymbolsOfFiles, SplitsEscaped
  <2>2. Mistaken(fault) = Spaced(words) \o rest
    BY <1>6 DEF Mistaken
  <2>3. IsFault(fault) => \/ behind = << >>
                          \/ behind[1] = "ESCAPE"
                               /\ (Len(behind) > 1 => behind[2] \notin {"QUOTE", "ESCAPE"})
                          \/ behind[1] = "QUOTE"
                               /\ (secret = << >> \/ (Len(behind) > 1 /\ behind[2] \notin Blank))
    BY <1>6 DEF IsFault
  <2>4. SplitsTo(At("word", words), blank, At("space", words))
    <3>1. SplitStep(At("word", words), " ") = At("space", words)
      BY SplitsBlank DEF Blank
    <3> QED BY <3>1, SplitsOne
  <2>9. rest \in Seq(Symbols) /\ Spaced(words) \o rest \in Seq(Symbols)
    <3>1. open \in Seq(Symbols) /\ e \in Seq(Symbols) /\ behind \in Seq(Symbols)
          /\ Spaced(words) \in Seq(Symbols)
      BY <1>1, <1>3, <2>1
    <3> HIDE DEF open, e, behind, words
    <3>2. open \o e \in Seq(Symbols)
      BY <3>1, JoinedSequences
    <3>3. rest \in Seq(Symbols)
      BY <3>1, <3>2, JoinedSequences
    <3> HIDE DEF rest
    <3> QED BY <3>1, <3>3, JoinedSequences
  <2>5. \E end : SplitsTo(start, Spaced(words) \o rest, end) /\ Failing(end)
    <3>0. rest \in Seq(Symbols)
      BY <2>9
    <3>1. CASE n < MAXFIELDS
      <4>1. SplitStep(At("space", words), "QUOTE") = At("quoted", Append(words, << >>))
        <5>1. "QUOTE" \notin Blank /\ ~(Len(words) >= MAXFIELDS)
          BY <1>2, <3>1 DEF Blank, MAXFIELDS
        <5> QED BY <5>1, SplitsOpen
      <4>2. SplitsTo(At("space", words), q, At("quoted", Append(words, << >>)))
        BY <4>1, SplitsOne
      <4>3. SplitsTo(At("word", words), open, At("quoted", Append(words, << >>)))
        <5>1. SplitsTo(At("word", words), blank \o q, At("quoted", Append(words, << >>)))
          <6> HIDE DEF blank, q
          <6> QED BY <2>1, <2>4, <4>2, SplitsOn
        <5> QED BY <2>1, <5>1
      <4>4. SplitsTo(At("quoted", Append(words, << >>)), e, At("quoted", Append(words, secret)))
        BY <1>1, SplitsEscaped
      <4>5. PICK end : /\ SplitsTo(At("quoted", Append(words, secret)), behind, end)
                       /\ Failing(end)
        BY <1>1, <2>3, BehindFails
      <4> HIDE DEF open, e, behind, start, secret, words
      <4>6. SplitsTo(At("word", words), open \o e, At("quoted", Append(words, secret)))
            /\ open \o e \in Seq(Symbols)
        BY <2>1, <4>3, <4>4, SplitsOn
      <4>7. SplitsTo(At("word", words), rest, end)
        BY <1>1, <4>5, <4>6, SplitsOn
      <4>8. SplitsTo(start, Spaced(words), At("word", words)) /\ Spaced(words) \in Seq(Symbols)
        BY <1>2, <1>3, <3>1 DEF MAXFIELDS
      <4> HIDE DEF rest
      <4>9. SplitsTo(start, Spaced(words) \o rest, end)
        BY <3>0, <4>7, <4>8, SplitsOn
      <4> QED BY <4>5, <4>9
    <3>2. CASE n = MAXFIELDS
      <4>1. SplitStep(At("space", words), "QUOTE") = At("error", words)
        <5>1. "QUOTE" \notin Blank /\ Len(words) >= MAXFIELDS
          BY <1>2, <3>2 DEF Blank, MAXFIELDS
        <5> QED BY <5>1, SplitsOpen
      <4>2. SplitsTo(At("space", words), q, At("error", words))
        BY <4>1, SplitsOne
      <4>3. SplitsTo(At("word", words), open, At("error", words))
        <5>1. SplitsTo(At("word", words), blank \o q, At("error", words))
          <6> HIDE DEF blank, q
          <6> QED BY <2>1, <2>4, <4>2, SplitsOn
        <5> QED BY <2>1, <5>1
      <4> HIDE DEF open, e, behind, start, secret, words
      <4>4. SplitsTo(At("word", words), open \o e, At("error", words))
            /\ open \o e \in Seq(Symbols)
        BY <2>1, <4>3, SplitsFail
      <4>5. SplitsTo(At("word", words), rest, At("error", words))
        BY <1>1, <4>4, SplitsFail
      <4>6. SplitsTo(start, Spaced(words), At("word", words)) /\ Spaced(words) \in Seq(Symbols)
        BY <1>2, <1>3, <3>2 DEF MAXFIELDS
      <4> HIDE DEF rest
      <4>7. SplitsTo(start, Spaced(words) \o rest, At("error", words))
        BY <3>0, <4>5, <4>6, SplitsOn
      <4> QED BY <1>4, <4>7
    <3>3. CASE n > MAXFIELDS
      <4>1. PICK fields : SplitsTo(start, Spaced(words), At("error", fields))
        BY <1>3, <3>3
      <4> HIDE DEF rest, start, words
      <4>2. SplitsTo(start, Spaced(words) \o rest, At("error", fields))
        BY <1>3, <3>0, <4>1, SplitsFail
      <4> QED BY <1>4, <4>2
    <3>4. n < MAXFIELDS \/ n = MAXFIELDS \/ n > MAXFIELDS
      BY DEF MAXFIELDS
    <3> HIDE DEF rest, words, start
    <3> QED BY <3>1, <3>2, <3>3, <3>4
  <2>7. PICK end : SplitsTo(start, Spaced(words) \o rest, end) /\ Failing(end)
    BY <2>5
  <2>8. Split(Spaced(words) \o rest) = end
    <3> HIDE DEF rest, words
    <3> QED BY <2>7, <2>9, SplitIs
  <2> QED BY <2>2, <2>7, <2>8, LineFails
<1>7. fault.quoted \in BOOLEAN
  BY DEF IsFault
<1> QED BY <1>5, <1>6, <1>7

(* Nothing counts as the number 0.                                           *)
LEMMA NothingReads == IsNumber(<< >>) /\ NumberOf(<< >>) = 0
<1> DEFINE s == << >>
           v == [i \in 0..0 |-> 0]
<1>1. s \in Seq(Symbols) /\ Len(s) = 0
  BY EmptySeq
<1>2. Unsigned(s) = s /\ ~Negative(s)
  <2>1. {i \in 1..Len(s) : s[i] \notin Blank \cup {"CR", "LF"}} = {}
    BY <1>1
  <2>2. SelectInSeq(s, LAMBDA c : c \notin Blank \cup {"CR", "LF"}) = 0
    BY <2>1 DEF SelectInSeq
  <2>3. Unspaced(s) = s
    BY <2>2 DEF Unspaced
  <2> QED BY <2>3 DEF Unsigned, Negative
<1>3. IsNumber(s)
  BY DEF IsNumber
<1>4. v[0] = 0
  OBVIOUS
<1> HIDE DEF s, v
<1>5. Counts(s, 0, v, v)
  BY <1>1, <1>2, <1>4 DEF Counts
<1>6. NumberOf(s) = 0
  BY <1>4, <1>5, NumberSteps
<1> QED BY <1>3, <1>6 DEF s

(* The service of an entry, as a field.                                      *)
LEMMA ServiceIsWord ==
  ASSUME NEW c \in {"auth", "acct"}
  PROVE  IsWord(<<c>>) /\ <<c>> \in Services /\ <<c>> \in Seq(Symbols)
<1> DEFINE s == <<c>>
<1>1. c \in Symbols /\ c # "#" /\ c # "QUOTE" /\ c # " " /\ c # "TAB"
  BY SymbolsOfFiles
<1>2. s \in Seq(Symbols) /\ Len(s) = 1 /\ s[1] = c
  BY <1>1, ShortHave
<1>3. s \in Services
  BY DEF Services
<1> HIDE DEF s
<1>4. s # << >> /\ \A i \in 1..Len(s) : s[i] = c
  <2>1. Len(s) # 0
    BY <1>2
  <2> QED BY <1>2, <2>1, EmptySeq
<1>5. ToSet(s) \cap Blank = {}
  <2>1. DOMAIN s = 1..Len(s)
    BY <1>2
  <2> QED BY <1>1, <1>4, <2>1 DEF ToSet, Blank
<1>6. IsWord(s)
  BY <1>1, <1>2, <1>4, <1>5 DEF IsWord
<1> QED BY <1>2, <1>3, <1>6 DEF s

(* Words one behind the other are a word, unless the second begins with a    *)
(* blank.                                                                    *)
LEMMA JoinedWord ==
  ASSUME NEW s, IsWord(s), NEW t \in Seq(Symbols), \A i \in 1..Len(t) : t[i] \notin Blank
  PROVE  IsWord(s \o t) /\ (s \o t)[1] = s[1] /\ Len(s \o t) = Len(s) + Len(t)
<1>1. /\ s \in Seq(Symbols) /\ s # << >> /\ Len(s) \in Nat \ {0}
      /\ s[1] \notin Blank /\ s[1] # "#" /\ s[1] # "QUOTE"
      /\ \A i \in 1..Len(s) : s[i] \notin Blank
  BY WordHas
<1> DEFINE u == s \o t
<1>2. /\ u \in Seq(Symbols) /\ Len(u) = Len(s) + Len(t) /\ Len(t) \in Nat
      /\ \A j \in 1..Len(s) : u[j] = s[j]
      /\ \A j \in 1..Len(t) : u[Len(s) + j] = t[j]
  BY <1>1, JoinedSequences
<1> HIDE DEF u
<1>3. 1 \in 1..Len(s) /\ Len(u) # 0
  BY <1>1, <1>2
<1>4. u # << >> /\ u[1] = s[1]
  BY <1>2, <1>3, EmptySeq
<1>5. ASSUME NEW i \in 1..Len(u) PROVE u[i] \notin Blank
  <2>1. CASE i <= Len(s)
    <3>1. i \in 1..Len(s)
      BY <1>1, <2>1
    <3> QED BY <1>1, <1>2, <3>1
  <2>2. CASE ~(i <= Len(s))
    <3>1. PICK j \in 1..Len(t) : i = Len(s) + j
      <4>1. i - Len(s) \in 1..Len(t) /\ i = Len(s) + (i - Len(s))
        BY <1>1, <1>2, <2>2
      <4> QED BY <4>1
    <3> QED BY <1>2, <3>1
  <2> QED BY <2>1, <2>2
<1>6. ToSet(u) \cap Blank = {}
  BY <1>5 DEF ToSet
<1>7. IsWord(u)
  BY <1>1, <1>2, <1>4, <1>6 DEF IsWord
<1> QED BY <1>2, <1>4, <1>7 DEF u

(* A host and a port, in a field.                                            *)
LEMMA AddressReads ==
  ASSUME NEW sv, IsWord(sv.host), ":" \notin ToSet(sv.host), sv.port \in 0..99
  PROVE  /\ IsWord(Address(sv)) /\ Len(Address(sv)) >= Len(sv.host)
         /\ HostOf(Address(sv)) = sv.host
         /\ IsNumber(PortOf(Address(sv))) /\ NumberOf(PortOf(Address(sv))) = sv.port
         /\ sv.port = 0 => Address(sv) = sv.host
         /\ sv.port # 0 => Len(Address(sv)) > 1
<1> DEFINE host == sv.host
           n == sv.port
           d == Decimal(n)
           a == Address(sv)
           Colon == <<":">>
<1>1. host \in Seq(Symbols) /\ \A i \in 1..Len(host) : host[i] # ":"
  BY DEF IsWord, ToSet
<1>2. ":" \in Symbols /\ ":" \notin Blank
  BY SymbolsOfFiles DEF Blank
<1>3. CASE n = 0
  <2>1. a = host
    <3>1. host \o << >> = host
      BY <1>1, ConcatEmptySeq
    <3> QED BY <1>3, <3>1 DEF Address
  <2>2. /\ Before(host, ":") = host /\ Behind(host, ":") = << >>
    BY <1>1, <1>2, CutAt
  <2>3. << >> \in Seq(Symbols) /\ \A i \in 1..Len(<< >>) : << >>[i] # ":"
    BY EmptySeq
  <2>4. Before(<< >>, ":") = << >>
    BY <1>2, <2>3, CutAt
  <2> HIDE DEF a, host
  <2>5. HostOf(a) = host /\ PortOf(a) = << >>
    BY <2>1, <2>2, <2>4 DEF HostOf, PortOf
  <2>6. Len(host) \in Nat
    BY <1>1
  <2> QED BY <1>3, <2>1, <2>5, <2>6, NothingReads DEF a, host
<1>4. CASE n # 0
  <2>1. /\ IsWord(d) /\ IsNumber(d) /\ NumberOf(d) = n
        /\ \A i \in 1..Len(d) : d[i] # ":"
    BY DecimalReads
  <2>2. d \in Seq(Symbols) /\ Len(d) \in Nat \ {0} /\ \A i \in 1..Len(d) : d[i] \notin Blank
    BY <2>1, WordHas
  <2>3. a = host \o (Colon \o d)
    BY <1>4 DEF Address
  <2>4. Colon \in Seq(Symbols) /\ Len(Colon) = 1 /\ Colon[1] = ":"
    BY <1>2, ShortHave
  <2> DEFINE t == Colon \o d
  <2>5. Before(host \o t, ":") = host /\ Behind(host \o t, ":") = d
    <3> HIDE DEF host, d
    <3> QED BY <1>1, <1>2, <2>2, CutAt
  <2>6. Before(d, ":") = d
    BY <1>2, <2>1, <2>2, CutAt
  <2> HIDE DEF Colon, d
  <2>7. /\ t \in Seq(Symbols) /\ Len(t) = 1 + Len(d) /\ t[1] = ":"
        /\ \A j \in 1..Len(d) : t[1 + j] = d[j]
    <3>1. /\ t \in Seq(Symbols) /\ Len(t) = Len(Colon) + Len(d)
          /\ \A j \in 1..Len(Colon) : t[j] = Colon[j]
          /\ \A j \in 1..Len(d) : t[Len(Colon) + j] = d[j]
      BY <2>2, <2>4, JoinedSequences
    <3> HIDE DEF t
    <3> QED BY <2>2, <2>4, <3>1
  <2> HIDE DEF t
  <2>8. ASSUME NEW i \in 1..Len(t) PROVE t[i] \notin Blank
    <3>1. CASE i = 1
      BY <1>2, <2>7, <3>1
    <3>2. CASE i # 1
      <4>1. PICK j \in 1..Len(d) : i = 1 + j
        <5>1. i - 1 \in 1..Len(d) /\ i = 1 + (i - 1)
          BY <2>2, <2>7, <3>2
        <5> QED BY <5>1
      <4> QED BY <2>2, <2>7, <4>1
    <3> QED BY <3>1, <3>2
  <2> HIDE DEF a, host
  <2>9. IsWord(host) /\ Len(host) \in Nat \ {0}
    BY WordHas DEF host
  <2>10. IsWord(host \o t) /\ Len(host \o t) = Len(host) + Len(t)
    BY <2>7, <2>8, <2>9, JoinedWord
  <2>11. a = host \o t
    BY <2>3 DEF t
  <2>12. Len(a) > 1 /\ Len(a) >= Len(host)
    BY <2>2, <2>7, <2>9, <2>10, <2>11
  <2>13. HostOf(a) = host /\ PortOf(a) = d
    BY <2>5, <2>6, <2>11 DEF HostOf, PortOf
  <2> QED BY <1>4, <2>1, <2>10, <2>11, <2>12, <2>13 DEF a, host
<1> QED BY <1>3, <1>4

(* What an entry is read as.                                                 *)
Given(entry, type) == IF entry.type = type THEN <<entry.server>> ELSE << >>

(* The service in front of an entry.                                         *)
LEMMA SplitsService ==
  ASSUME NEW c \in {"auth", "acct"}
  PROVE  /\ <<c, " ">> \in Seq(Symbols) /\ << <<c>> >> \in Texts
         /\ Len(<< <<c>> >>) = 1 /\ << <<c>> >>[1] = <<c>>
         /\ SplitsTo(At("space", << >>), <<c, " ">>, At("space", << <<c>> >>))
<1> DEFINE w == <<c>>
           b == <<" ">>
           start == At("space", << >>)
<1>1. IsWord(w) /\ w \in Seq(Symbols) /\ w \o b \in Seq(Symbols) /\ b \in Seq(Symbols)
      /\ <<c, " ">> = w \o b
  <2>1. IsWord(w) /\ w \in Seq(Symbols)
    BY ServiceIsWord
  <2>2. c \in Symbols /\ " " \in Symbols
    BY SymbolsOfFiles
  <2>3. b \in Seq(Symbols) /\ <<c, " ">> = w \o b /\ <<c, " ">> \in Seq(Symbols)
    BY <2>2, ShortSequences
  <2> QED BY <2>1, <2>3
<1>2. << >> \in Texts /\ Len(<< >>) < MAXFIELDS
  BY EmptySeq DEF Texts, MAXFIELDS
<1>3. SplitsTo(start, w, At("word", Append(<< >>, w)))
  BY <1>1, <1>2, SplitsWord
<1> HIDE DEF w
<1>4. Append(<< >>, w) = <<w>> /\ <<w>> \in Texts /\ Len(<<w>>) = 1 /\ <<w>>[1] = w
  <2>1. w \in Seq(Symbols)
    BY <1>1
  <2>2. Append(<< >>, w) = <<w>>
    OBVIOUS
  <2>3. <<w>> \in Seq(Seq(Symbols)) /\ Len(<<w>>) = 1 /\ <<w>>[1] = w
    BY <2>1, ShortHave
  <2> QED BY <2>2, <2>3 DEF Texts
<1>5. SplitsTo(At("word", <<w>>), b, At("space", <<w>>))
  <2>1. SplitStep(At("word", <<w>>), " ") = At("space", <<w>>)
    BY SplitsBlank DEF Blank
  <2> QED BY <2>1, SplitsOne
<1>6. SplitsTo(start, w \o b, At("space", <<w>>))
  <2> HIDE DEF b, start
  <2> QED BY <1>1, <1>3, <1>4, <1>5, SplitsOn
<1> QED BY <1>1, <1>4, <1>6 DEF w

(* Fields are put at the end.                                                *)
LEMMA Appended ==
  ASSUME NEW s \in Texts, NEW x \in Seq(Symbols)
  PROVE  /\ Append(s, x) \in Texts /\ Len(s) \in Nat /\ Len(Append(s, x)) = Len(s) + 1
         /\ Append(s, x)[Len(s) + 1] = x
         /\ \A i \in 1..Len(s) : Append(s, x)[i] = s[i]
  BY DEF Texts

(* The fields of an entry, and where its service is with them.               *)
FieldsAre(fields, type, address, secret, more) ==
  /\ Len(fields) \in {3, 5} /\ (Len(fields) = 5 <=> more # << >>)
  /\ fields[1] = <<type>> /\ fields[2] = address /\ fields[3] = secret
  /\ more # << >> => fields[4] = more[1] /\ fields[5] = more[2]

(* With its service added, an entry has the fields FieldsAre says.           *)
LEMMA ServiceAdded ==
  ASSUME NEW given \in Texts, NEW type, NEW address, NEW secret, NEW more,
         \/ FieldsAre(given, type, address, secret, more) /\ <<type>> \in Services
         \/ /\ type = "auth" /\ address \notin Services
            /\ Len(given) \in {2, 4} /\ (Len(given) = 4 <=> more # << >>)
            /\ given[1] = address /\ given[2] = secret
            /\ more # << >> => given[3] = more[1] /\ given[4] = more[2]
  PROVE  given # << >> /\ FieldsAre(WithService(given), type, address, secret, more)
<1>1. given # << >>
  <2>1. Len(given) # 0
    BY DEF FieldsAre
  <2> QED BY <2>1, EmptySeq
<1>2. CASE FieldsAre(given, type, address, secret, more) /\ <<type>> \in Services
  <2>1. WithService(given) = given
    BY <1>1, <1>2 DEF WithService, FieldsAre
  <2> QED BY <1>1, <1>2, <2>1
<1>3. CASE /\ type = "auth" /\ address \notin Services
           /\ Len(given) \in {2, 4} /\ (Len(given) = 4 <=> more # << >>)
           /\ given[1] = address /\ given[2] = secret
           /\ more # << >> => given[3] = more[1] /\ given[4] = more[2]
  <2> DEFINE auth == <<type>>
             first == <<auth>>
             all == first \o given
  <2>1. WithService(given) = all
    BY <1>3 DEF WithService
  <2>2. first \in Texts /\ Len(first) = 1 /\ first[1] = auth
    BY <1>3, SplitsService
  <2> HIDE DEF first
  <2>3. /\ Len(all) = 1 + Len(given) /\ all[1] = auth
        /\ \A j \in 1..Len(given) : all[1 + j] = given[j]
    <3>1. /\ Len(all) = Len(first) + Len(given)
          /\ \A j \in 1..Len(first) : all[j] = first[j]
          /\ \A j \in 1..Len(given) : all[Len(first) + j] = given[j]
      <4>1. first \in Seq(Seq(Symbols)) /\ given \in Seq(Seq(Symbols))
        BY <2>2 DEF Texts
      <4> QED BY <4>1, JoinedSequences
    <3> HIDE DEF all, auth
    <3> QED BY <2>2, <3>1
  <2> HIDE DEF all
  <2>4. all[1 + 1] = given[1] /\ all[1 + 2] = given[2]
    BY <1>3, <2>3
  <2>5. more # << >> => all[1 + 3] = given[3] /\ all[1 + 4] = given[4]
    BY <1>3, <2>3
  <2>6. FieldsAre(all, type, address, secret, more)
    BY <1>3, <2>3, <2>4, <2>5 DEF FieldsAre
  <2> QED BY <1>1, <2>1, <2>6
<1> QED BY <1>2, <1>3

(* What is behind the secret of an entry.                                    *)
More(sv) == IF <<sv.timeout, sv.max_tries>> = <<TIMEOUT, MAXTRIES>> THEN << >>
            ELSE << Decimal(sv.timeout), Decimal(sv.max_tries) >>

(* The symbols of an entry, and its fields.                                  *)
LEMMA EntrySplits ==
  ASSUME NEW entry, IsEntry(entry)
  PROVE  LET sv == entry.server
         IN  \E given \in Texts, mode \in {"word", "closed"} :
               /\ Split(Written(entry)) = At(mode, given) /\ given # << >>
               /\ FieldsAre(WithService(given), entry.type, Address(sv), sv.secret, More(sv))
<1> DEFINE sv == entry.server
           c == entry.type
           start == At("space", << >>)
           pre == IF entry.named THEN <<c, " ">> ELSE << >>
           F0 == IF entry.named THEN << <<c>> >> ELSE << >>
           k == IF entry.named THEN 1 ELSE 0
           h == Address(sv)
           sec == sv.secret
           q == IF entry.quoted THEN Quoted(sec) ELSE sec
           m == IF entry.quoted THEN "closed" ELSE "word"
           standard == <<sv.timeout, sv.max_tries>> = <<TIMEOUT, MAXTRIES>>
           d1 == Decimal(sv.timeout)
           d2 == Decimal(sv.max_tries)
           blank == <<" ">>
           tab == <<"TAB">>
           opts == IF standard THEN << >> ELSE tab \o d1 \o blank \o d2
           F1 == Append(F0, h)
           F2 == Append(F1, sec)
           F3 == Append(F2, d1)
           F4 == Append(F3, d2)
<1>1. /\ c \in {"auth", "acct"} /\ entry.named \in BOOLEAN /\ entry.quoted \in BOOLEAN
      /\ IsWord(sv.host) /\ ":" \notin ToSet(sv.host)
      /\ ~entry.named => c = "auth" /\ sv.host \notin Services
      /\ entry.quoted => sec \in Seq(Symbols) /\ sec # << >>
      /\ ~entry.quoted => IsWord(sec)
      /\ sv.port \in 0..99 /\ sv.timeout \in 0..99 /\ sv.max_tries \in 0..99
  BY DEF IsEntry
<1>2. Written(entry) = pre \o h \o blank \o q \o opts
  BY DEF Written
<1>3. /\ pre \in Seq(Symbols) /\ F0 \in Texts /\ Len(F0) = k /\ k \in 0..1
      /\ (entry.named => F0[1] = <<c>>)
      /\ SplitsTo(start, pre, At("space", F0))
  <2>1. CASE entry.named
    <3>1. pre = <<c, " ">> /\ F0 = << <<c>> >> /\ k = 1
      BY <2>1
    <3>2. /\ <<c, " ">> \in Seq(Symbols) /\ << <<c>> >> \in Texts
          /\ Len(<< <<c>> >>) = 1 /\ << <<c>> >>[1] = <<c>>
          /\ SplitsTo(start, <<c, " ">>, At("space", << <<c>> >>))
      <4>1. c \in {"auth", "acct"}
        BY <1>1
      <4> HIDE DEF c
      <4> QED BY <4>1, SplitsService
    <3>3. k \in 0..1
      OBVIOUS
    <3> HIDE DEF pre, F0, k
    <3>4. pre \in Seq(Symbols) /\ F0 \in Texts /\ Len(F0) = k
      BY <3>1, <3>2
    <3>5. F0[1] = <<c>>
      BY <3>1, <3>2
    <3>6. SplitsTo(start, pre, At("space", F0))
      BY <3>1, <3>2
    <3> QED BY <3>3, <3>4, <3>5, <3>6
  <2>2. CASE ~entry.named
    <3>1. << >> \in Seq(Symbols) /\ << >> \in Texts /\ Len(<< >>) = 0
      BY EmptySeq DEF Texts
    <3> QED BY <2>2, <3>1, SplitsNone
  <2> QED BY <2>1, <2>2
<1>4. /\ IsWord(h) /\ h \in Seq(Symbols)
      /\ ~entry.named => h \notin Services
  <2>1. /\ IsWord(h) /\ (sv.port = 0 => h = sv.host) /\ (sv.port # 0 => Len(h) > 1)
    BY <1>1, AddressReads
  <2>2. \A s \in Services : Len(s) = 1
    BY DEF Services
  <2>3. h \in Seq(Symbols)
    BY <2>1, WordHas
  <2>4. ~entry.named => h \notin Services
    <3>1. sv.port # 0 => h \notin Services
      <4> SUFFICES ASSUME sv.port # 0, h \in Services
                   PROVE  FALSE
        OBVIOUS
      <4>1. Len(h) > 1
        BY <2>1
      <4> HIDE DEF h
      <4>2. Len(h) = 1
        BY <2>2
      <4> QED BY <4>1, <4>2
    <3> HIDE DEF h
    <3> QED BY <1>1, <2>1, <3>1
  <2> QED BY <2>1, <2>3, <2>4
<1>5. sec \in Seq(Symbols)
  BY <1>1, WordHas
<1>6. IsWord(d1) /\ IsWord(d2) /\ d1 \in Seq(Symbols) /\ d2 \in Seq(Symbols)
  <2>1. IsWord(d1) /\ IsWord(d2)
    BY <1>1, DecimalReads
  <2> QED BY <2>1, WordHas
<1> HIDE DEF pre, F0, k, h, sec, d1, d2
<1>7. /\ F1 \in Texts /\ Len(F1) = k + 1 /\ F1[k + 1] = h
      /\ \A i \in 1..k : F1[i] = F0[i]
  BY <1>3, <1>4, Appended
<1> HIDE DEF F1
<1>8. /\ F2 \in Texts /\ Len(F2) = k + 2 /\ F2[k + 2] = sec
      /\ \A i \in 1..(k + 1) : F2[i] = F1[i]
  <2>1. k + 1 + 1 = k + 2
    BY <1>3
  <2> QED BY <1>5, <1>7, <2>1, Appended
<1> HIDE DEF F2
<1>9. /\ F3 \in Texts /\ Len(F3) = k + 3 /\ F3[k + 3] = d1
      /\ \A i \in 1..(k + 2) : F3[i] = F2[i]
  <2>1. k + 2 + 1 = k + 3
    BY <1>3
  <2>2. /\ F3 \in Texts /\ Len(F3) = Len(F2) + 1 /\ F3[Len(F2) + 1] = d1
        /\ \A i \in 1..Len(F2) : F3[i] = F2[i]
    BY <1>6, <1>8, Appended
  <2> HIDE DEF F3
  <2> QED BY <1>8, <2>1, <2>2
<1> HIDE DEF F3
<1>10. /\ F4 \in Texts /\ Len(F4) = k + 4 /\ F4[k + 4] = d2
       /\ \A i \in 1..(k + 3) : F4[i] = F3[i]
  <2>1. k + 3 + 1 = k + 4
    BY <1>3
  <2>2. /\ F4 \in Texts /\ Len(F4) = Len(F3) + 1 /\ F4[Len(F3) + 1] = d2
        /\ \A i \in 1..Len(F3) : F4[i] = F3[i]
    BY <1>6, <1>9, Appended
  <2> HIDE DEF F4
  <2> QED BY <1>9, <2>1, <2>2
<1> HIDE DEF F4
<1>11. k < MAXFIELDS /\ k + 1 < MAXFIELDS /\ k + 2 < MAXFIELDS /\ k + 3 < MAXFIELDS
  BY <1>3 DEF MAXFIELDS
<1>12. /\ pre \o h \in Seq(Symbols)
       /\ SplitsTo(start, pre \o h, At("word", F1))
  <2>1. SplitsTo(At("space", F0), h, At("word", F1))
    BY <1>3, <1>4, <1>11, SplitsWord DEF F1
  <2> HIDE DEF start
  <2> QED BY <1>3, <1>4, <2>1, SplitsOn
<1>13. " " \in Blank /\ "TAB" \in Blank /\ blank \in Seq(Symbols) /\ tab \in Seq(Symbols)
  BY ShortSequences, SymbolsOfFiles DEF Blank
<1>14. /\ pre \o h \o blank \in Seq(Symbols)
       /\ SplitsTo(start, pre \o h \o blank, At("space", F1))
  <2>1. SplitsTo(At("word", F1), blank, At("space", F1))
    <3>1. SplitStep(At("word", F1), " ") = At("space", F1)
      BY <1>13, SplitsBlank
    <3> QED BY <3>1, SplitsOne
  <2> HIDE DEF start, blank
  <2> QED BY <1>12, <1>13, <2>1, SplitsOn
<1>15. q \in Seq(Symbols) /\ SplitsTo(At("space", F1), q, At(m, F2))
  <2>1. CASE entry.quoted
    <3>1. sec \in Seq(Symbols) /\ sec # << >>
      BY <1>1, <2>1 DEF sec
    <3>2. Quoted(sec) \in Seq(Symbols) /\ SplitsTo(At("space", F1), Quoted(sec), At("closed", F2))
      BY <1>7, <1>11, <3>1, SplitsQuoted DEF F2
    <3> QED BY <2>1, <3>2
  <2>2. CASE ~entry.quoted
    <3>1. IsWord(sec)
      BY <1>1, <2>2 DEF sec
    <3>2. SplitsTo(At("space", F1), sec, At("word", F2))
      BY <1>7, <1>11, <3>1, SplitsWord DEF F2
    <3> QED BY <1>5, <2>2, <3>2
  <2> QED BY <1>1, <2>1, <2>2
<1>16. m \in {"word", "closed"}
  OBVIOUS
<1> HIDE DEF q, m
<1>17. /\ pre \o h \o blank \o q \in Seq(Symbols)
       /\ SplitsTo(start, pre \o h \o blank \o q, At(m, F2))
  <2> HIDE DEF start, blank
  <2> QED BY <1>14, <1>15, SplitsOn
<1> DEFINE entire == pre \o h \o blank \o q
           given == IF standard THEN F2 ELSE F4
           mode == IF standard THEN m ELSE "word"
<1>18. opts \in Seq(Symbols) /\ SplitsTo(At(m, F2), opts, At(mode, given))
  <2>1. CASE standard
    <3>1. << >> \in Seq(Symbols)
      BY EmptySeq
    <3> QED BY <2>1, <3>1, SplitsNone
  <2>2. CASE ~standard
    <3>1. SplitsTo(At(m, F2), tab, At("space", F2))
      <4>1. SplitStep(At(m, F2), "TAB") = At("space", F2)
        BY <1>13, <1>16, SplitsBlank
      <4> QED BY <4>1, SplitsOne
    <3>2. SplitsTo(At("space", F2), d1, At("word", F3))
      BY <1>6, <1>8, <1>11, SplitsWord DEF F3
    <3>3. SplitsTo(At("word", F3), blank, At("space", F3))
      <4>1. SplitStep(At("word", F3), " ") = At("space", F3)
        BY <1>13, SplitsBlank
      <4> QED BY <4>1, SplitsOne
    <3>4. SplitsTo(At("space", F3), d2, At("word", F4))
      BY <1>6, <1>9, <1>11, SplitsWord DEF F4
    <3> HIDE DEF tab, blank, standard
    <3>5. tab \o d1 \in Seq(Symbols) /\ SplitsTo(At(m, F2), tab \o d1, At("word", F3))
      BY <1>6, <1>13, <3>1, <3>2, SplitsOn
    <3>6. /\ tab \o d1 \o blank \in Seq(Symbols)
          /\ SplitsTo(At(m, F2), tab \o d1 \o blank, At("space", F3))
      BY <1>13, <3>3, <3>5, SplitsOn
    <3>7. /\ tab \o d1 \o blank \o d2 \in Seq(Symbols)
          /\ SplitsTo(At(m, F2), tab \o d1 \o blank \o d2, At("word", F4))
      BY <1>6, <3>4, <3>6, SplitsOn
    <3> QED BY <2>2, <3>7
  <2> QED BY <2>1, <2>2
<1>19. given \in Texts /\ mode \in {"word", "closed"}
  BY <1>8, <1>10, <1>16
<1>20. entire \o opts \in Seq(Symbols) /\ SplitsTo(start, entire \o opts, At(mode, given))
  <2>1. entire \in Seq(Symbols) /\ SplitsTo(start, entire, At(m, F2))
    BY <1>17
  <2> HIDE DEF entire, opts, start, mode, given
  <2> QED BY <1>18, <2>1, SplitsOn
<1>21. Split(Written(entry)) = At(mode, given)
  <2>1. Written(entry) = entire \o opts
    BY <1>2
  <2> HIDE DEF entire, opts, mode, given
  <2> QED BY <1>20, <2>1, SplitIs
<1>22. More(sv) = IF standard THEN << >> ELSE <<d1, d2>>
  BY DEF More, d1, d2
<1> DEFINE more == More(sv)
<1>23. /\ (standard => more = << >>)
       /\ (~standard => more # << >> /\ more[1] = d1 /\ more[2] = d2)
  BY <1>22
<1> HIDE DEF more, standard
<1>24. given # << >> /\ FieldsAre(WithService(given), c, h, sec, more)
  <2>1. CASE entry.named
    <3>1. <<c>> \in Services
      BY <1>1, ServiceIsWord
    <3>2. k = 1
      BY <2>1 DEF k
    <3>3. F2[1] = <<c>> /\ F2[2] = h /\ F2[3] = sec /\ Len(F2) = 3
      BY <1>3, <1>7, <1>8, <2>1, <3>2
    <3>4. /\ F4[1] = F2[1] /\ F4[2] = F2[2] /\ F4[3] = F2[3]
          /\ F4[4] = d1 /\ F4[5] = d2 /\ Len(F4) = 5
      BY <1>9, <1>10, <3>2
    <3>5. FieldsAre(given, c, h, sec, more)
      BY <1>23, <3>3, <3>4 DEF FieldsAre
    <3> HIDE DEF given
    <3> QED BY <1>19, <3>1, <3>5, ServiceAdded
  <2>2. CASE ~entry.named
    <3>1. c = "auth" /\ h \notin Services
      BY <1>1, <1>4, <2>2
    <3>2. k = 0
      BY <2>2 DEF k
    <3>3. F2[1] = h /\ F2[2] = sec /\ Len(F2) = 2
      BY <1>3, <1>7, <1>8, <3>2
    <3>4. /\ F4[1] = F2[1] /\ F4[2] = F2[2]
          /\ F4[3] = d1 /\ F4[4] = d2 /\ Len(F4) = 4
      BY <1>9, <1>10, <3>2
    <3>5. /\ Len(given) \in {2, 4} /\ (Len(given) = 4 <=> more # << >>)
          /\ given[1] = h /\ given[2] = sec
          /\ more # << >> => given[3] = more[1] /\ given[4] = more[2]
      BY <1>23, <3>3, <3>4
    <3> HIDE DEF given
    <3> QED BY <1>19, <3>1, <3>5, ServiceAdded
  <2> QED BY <1>1, <2>1, <2>2
<1> QED BY <1>19, <1>21, <1>24 DEF h, sec, more

(* An entry is the server it is for, or nothing at all for the other handle. *)
LEMMA EntryReads ==
  ASSUME NEW entry, IsEntry(entry), NEW type
  PROVE  ParseLine(Written(entry), type) = [error |-> FALSE, servers |-> Given(entry, type)]
<1> DEFINE sv == entry.server
           a == Address(sv)
           more == More(sv)
<1>1. PICK given \in Texts, mode \in {"word", "closed"} :
        /\ Split(Written(entry)) = At(mode, given) /\ given # << >>
        /\ FieldsAre(WithService(given), entry.type, a, sv.secret, more)
  BY EntrySplits
<1>2. PICK fields : fields = WithService(given)
  OBVIOUS
<1>3. PICK st : st = At(mode, given)
  OBVIOUS
<1>4. ~Failing(st) /\ st.fields = given
  BY <1>3 DEF At, Failing
<1>5. /\ sv = Server(sv.host, sv.port, sv.secret, sv.timeout, sv.max_tries)
      /\ sv.host \in KnownHosts /\ IsWord(sv.host) /\ ":" \notin ToSet(sv.host)
      /\ sv.port \in 0..99 /\ sv.timeout \in 0..99 /\ sv.max_tries \in 0..99
  BY DEF IsEntry
<1>6. /\ HostOf(a) = sv.host /\ IsNumber(PortOf(a)) /\ NumberOf(PortOf(a)) = sv.port
  BY <1>5, AddressReads
<1>7. /\ more = << >> => sv.timeout = TIMEOUT /\ sv.max_tries = MAXTRIES
      /\ more # << >> => /\ IsNumber(more[1]) /\ NumberOf(more[1]) = sv.timeout
                         /\ IsNumber(more[2]) /\ NumberOf(more[2]) = sv.max_tries
  <2>1. /\ IsNumber(Decimal(sv.timeout)) /\ NumberOf(Decimal(sv.timeout)) = sv.timeout
        /\ IsNumber(Decimal(sv.max_tries)) /\ NumberOf(Decimal(sv.max_tries)) = sv.max_tries
    BY <1>5, DecimalReads
  <2> QED BY <2>1 DEF More
<1>8. FieldsAre(fields, entry.type, a, sv.secret, more)
  BY <1>1, <1>2
<1> HIDE DEF a, more
<1>9. Len(fields) \in 3..MAXFIELDS
  BY <1>8 DEF FieldsAre, MAXFIELDS
<1>10. \A i \in 4..Len(fields) : IsNumber(fields[i])
  <2> SUFFICES ASSUME NEW i \in 4..Len(fields) PROVE IsNumber(fields[i])
    OBVIOUS
  <2>1. Len(fields) = 5 /\ (i = 4 \/ i = 5)
    <3>1. PICK n \in Nat : n = Len(fields) /\ (n = 3 \/ n = 5)
      BY <1>8 DEF FieldsAre
    <3>2. i \in 4..n
      BY <3>1
    <3>3. n = 5 /\ (i = 4 \/ i = 5)
      BY <3>1, <3>2
    <3> QED BY <3>1, <3>3
  <2> QED BY <1>7, <1>8, <2>1 DEF FieldsAre
<1>11. fields[1] = <<entry.type>> /\ fields[2] = a /\ fields[3] = sv.secret
  BY <1>8 DEF FieldsAre
<1>12. Split(Written(entry)) = st /\ st.fields # << >> /\ WithService(st.fields) = fields
  BY <1>1, <1>2, <1>3, <1>4
<1>13. CASE entry.type # type
  <2>1. fields[1] # <<type>>
    BY <1>11, <1>13
  <2>2. ParseLine(Written(entry), type) = Skip
    BY <1>4, <1>9, <1>12, <2>1, LineGives
  <2> QED BY <1>13, <2>2 DEF Skip, Given
<1>14. CASE entry.type = type
  <2>1. fields[1] = <<type>>
    BY <1>11, <1>14
  <2> DEFINE timeout == IF 4 <= Len(fields) THEN NumberOf(fields[4]) ELSE TIMEOUT
             tries == IF 5 <= Len(fields) THEN NumberOf(fields[5]) ELSE MAXTRIES
  <2>2. HostOf(fields[2]) = sv.host /\ sv.host \in KnownHosts /\ IsNumber(PortOf(fields[2]))
        /\ NumberOf(PortOf(fields[2])) = sv.port
    BY <1>5, <1>6, <1>11
  <2>3. ParseLine(Written(entry), type) =
          [error |-> FALSE,
           servers |-> <<Server(HostOf(fields[2]), NumberOf(PortOf(fields[2])), fields[3],
                                timeout, tries)>>]
    BY <1>4, <1>9, <1>10, <1>12, <2>1, <2>2, LineGives
  <2>4. timeout = sv.timeout /\ tries = sv.max_tries
    <3>1. CASE more = << >>
      <4>1. Len(fields) = 3
        BY <1>8, <3>1 DEF FieldsAre
      <4> QED BY <1>7, <3>1, <4>1
    <3>2. CASE more # << >>
      <4>1. Len(fields) = 5 /\ fields[4] = more[1] /\ fields[5] = more[2]
        BY <1>8, <3>2 DEF FieldsAre
      <4> QED BY <1>7, <3>2, <4>1
    <3> QED BY <3>1, <3>2
  <2> HIDE DEF timeout, tries
  <2>5. Server(HostOf(fields[2]), NumberOf(PortOf(fields[2])), fields[3], timeout, tries) = sv
    BY <1>5, <1>11, <2>2, <2>4
  <2> QED BY <1>14, <2>3, <2>5 DEF Given
<1> QED BY <1>13, <1>14

-----------------------------------------------------------------------------
(* rad_config leaves a table of servers, whatever it reads.                  *)

IsSequence(s) == s \in Seq(ToSet(s))

(* A table rad_config can leave: it has room, and every host was found.      *)
IsTable(s) ==
  /\ IsSequence(s)
  /\ Len(s) <= MAXSERVERS
  /\ \A i \in 1..Len(s) : s[i].host \in KnownHosts

(* Members of a set of sequences are sequences of their own elements.        *)
LEMMA SequencesAre ==
  ASSUME NEW T, NEW s \in Seq(T) PROVE IsSequence(s)
  BY DEF IsSequence, ToSet

(* Sequences have a length.                                                  *)
LEMMA SequenceHasLength ==
  ASSUME NEW s, IsSequence(s) PROVE Len(s) \in Nat
  BY DEF IsSequence

(* A table with another one behind it.                                       *)
LEMMA TableJoined ==
  ASSUME NEW s, NEW t, IsSequence(s), IsSequence(t),
         Len(s \o t) <= MAXSERVERS,
         \A i \in 1..Len(s) : s[i].host \in KnownHosts,
         \A i \in 1..Len(t) : t[i].host \in KnownHosts
  PROVE  IsTable(s \o t)
<1> DEFINE T == ToSet(s) \cup ToSet(t)
<1>1. s \in Seq(T) /\ t \in Seq(T)
  BY DEF IsSequence
<1> HIDE DEF T
<1>2. s \o t \in Seq(T)
  BY <1>1
<1>3. IsSequence(s \o t)
  BY <1>2, SequencesAre
<1>4. ASSUME NEW i \in 1..Len(s \o t) PROVE (s \o t)[i].host \in KnownHosts
  <2>1. CASE i <= Len(s)
    BY <1>1, <2>1
  <2>2. CASE i > Len(s)
    <3>1. i - Len(s) \in 1..Len(t) /\ (s \o t)[i] = t[i - Len(s)]
      BY <1>1, <2>2
    <3> QED BY <3>1
  <2> QED BY <1>1, <2>1, <2>2
<1> QED BY <1>3, <1>4 DEF IsTable

(* A line ends where it begins or behind that, and inside the file.          *)
LEMMA LineEndIsInside ==
  ASSUME NEW file \in Seq(Symbols), NEW start \in 1..Len(file)
  PROVE  LineEnd(file, start) \in start..Len(file)
<1> DEFINE T == {i \in start..Len(file) : file[i] = "LF"}
                  \cup {Len(file), start + MAXCONFLINE - 2}
<1>1. T \in SUBSET Nat /\ Len(file) \in T
  BY ConfigAssumption DEF ConfigAssumption
<1>2. \A i \in T : start <= i
  BY ConfigAssumption DEF ConfigAssumption
<1>3. LineEnd(file, start) = Min(T)
  BY DEF LineEnd
<1> HIDE DEF T
<1>4. \E x \in T : \A y \in T : x <= y
  BY <1>1, LeastNumber
<1>5. Min(T) \in T /\ Min(T) <= Len(file)
  BY <1>1, <1>4 DEF Min
<1>6. Min(T) \in Nat /\ start <= Min(T)
  BY <1>1, <1>2, <1>5
<1> QED BY <1>3, <1>5, <1>6

(* from[i] is the lines that begin at i or behind it.                        *)
LinesFrom(file, from) ==
  /\ Lines(file) = from[1] /\ from[Len(file) + 1] = << >>
  /\ \A i \in 1..(Len(file) + 1) : from[i] \in Texts
  /\ \A i \in 1..Len(file) :
       from[i] = <<SubSeq(file, i, LineEnd(file, i))>> \o from[LineEnd(file, i) + 1]

(* Every line begins behind the one before, so that the reading comes to an  *)
(* end.                                                                      *)
LEMMA LinesSteps ==
  ASSUME NEW file \in Seq(Symbols) PROVE \E from : LinesFrom(file, from)
<1>0. PICK n \in Nat : n = Len(file)
  OBVIOUS
<1> DEFINE Line(i) == SubSeq(file, i, LineEnd(file, i))
           From(f, i) == IF i > n THEN << >> ELSE <<Line(i)>> \o f[LineEnd(file, i) + 1]
           Reads(k, f) == \A i \in (n + 1 - k)..(n + 1) : f[i] = From(f, i)
           S == {k \in Nat : k <= n => \E f \in [(n + 1 - k)..(n + 1) -> Texts] : Reads(k, f)}
           F(f) == [i \in 1..(n + 1) |-> From(f, i)]
<1>1. n \in Nat
  OBVIOUS
<1>2. \A i \in 1..n : LineEnd(file, i) \in i..n
  BY <1>0, LineEndIsInside
<1>3. /\ << >> \in Texts
      /\ \A i \in 1..n, t \in Texts : <<Line(i)>> \o t \in Texts
  <2>1. \A i \in 1..n : Line(i) \in Seq(Symbols)
    BY <1>0, <1>2
  <2> HIDE DEF Line
  <2> QED BY <2>1 DEF Texts
<1>4. /\ \A f : From(f, n + 1) = << >>
      /\ \A f : \A i \in 1..n :
           From(f, i) = <<Line(i)>> \o f[LineEnd(file, i) + 1]
  <2> HIDE DEF Line
  <2> QED BY <1>1
<1> HIDE DEF From
(* Line i depends only on the lines behind it.                               *)
<1>5. ASSUME NEW m \in 1..(n + 1), NEW f,
             \A i \in (m + 1)..(n + 1) : f[i] \in Texts
      PROVE  From(f, m) \in Texts
  <2>1. CASE m = n + 1
    BY <1>3, <1>4, <2>1
  <2>2. CASE m # n + 1
    <3>1. m \in 1..n /\ LineEnd(file, m) + 1 \in (m + 1)..(n + 1)
      BY <1>2, <2>2
    <3>2. f[LineEnd(file, m) + 1] \in Texts
      BY <1>5, <3>1
    <3> HIDE DEF Line
    <3> QED BY <1>3, <1>4, <3>1, <3>2
  <2> QED BY <2>1, <2>2
<1>6. ASSUME NEW i \in 1..(n + 1), NEW f, NEW g,
             \A j \in (i + 1)..(n + 1) : f[j] = g[j]
      PROVE  From(f, i) = From(g, i)
  <2>1. CASE i = n + 1
    BY <1>4, <2>1
  <2>2. CASE i # n + 1
    <3>1. i \in 1..n /\ LineEnd(file, i) + 1 \in (i + 1)..(n + 1)
      BY <1>2, <2>2
    <3>2. f[LineEnd(file, i) + 1] = g[LineEnd(file, i) + 1]
      BY <1>6, <3>1
    <3> HIDE DEF Line
    <3> QED BY <1>4, <3>1, <3>2
  <2> QED BY <2>1, <2>2
<1> HIDE DEF Line
<1>7. 0 \in S
  <2> DEFINE f == [i \in (n + 1)..(n + 1) |-> << >>]
  <2>1. f \in [(n + 1 - 0)..(n + 1) -> Texts]
    BY <1>1, <1>3
  <2>2. \A i \in (n + 1 - 0)..(n + 1) : i = n + 1 /\ f[i] = << >>
    BY <1>1
  <2>3. From(f, n + 1) = << >>
    <3> HIDE DEF f
    <3> QED BY <1>4
  <2>4. Reads(0, f)
    <3> HIDE DEF f
    <3> QED BY <2>2, <2>3
  <2> QED BY <2>1, <2>4
<1>8. ASSUME NEW k \in Nat, k \in S PROVE k + 1 \in S
  <2>1. SUFFICES ASSUME k + 1 <= n
                 PROVE  \E f \in [(n + 1 - (k + 1))..(n + 1) -> Texts] : Reads(k + 1, f)
    <3> HIDE DEF Reads
    <3> QED OBVIOUS
  <2>2. PICK g \in [(n + 1 - k)..(n + 1) -> Texts] : Reads(k, g)
    <3> HIDE DEF Reads
    <3> QED BY <1>8, <2>1
  <2>3. PICK m \in 1..n : m = n + 1 - (k + 1) /\ m + 1 = n + 1 - k
    BY <1>1, <2>1
  <2> DEFINE f == [i \in m..(n + 1) |-> IF i = m THEN From(g, m) ELSE g[i]]
  <2>4. \A i \in m..(n + 1) : i # m => i \in (m + 1)..(n + 1)
    OBVIOUS
  <2>5. \A i \in (m + 1)..(n + 1) : g[i] \in Texts
    BY <2>2, <2>3
  <2>6. From(g, m) \in Texts
    BY <1>5, <2>5
  <2>7. f \in [m..(n + 1) -> Texts]
    BY <2>4, <2>5, <2>6
  <2>8. \A i \in (m + 1)..(n + 1) : f[i] = g[i]
    OBVIOUS
  <2>9. ASSUME NEW i \in m..(n + 1) PROVE f[i] = From(f, i)
    <3>1. From(f, i) = From(g, i)
      <4>1. \A j \in (i + 1)..(n + 1) : f[j] = g[j]
        BY <2>8
      <4>2. i \in 1..(n + 1)
        OBVIOUS
      <4> HIDE DEF f
      <4> QED BY <1>6, <4>1, <4>2
    <3>2. CASE i = m
      BY <3>1, <3>2
    <3>3. CASE i # m
      <4>1. f[i] = g[i] /\ g[i] = From(g, i)
        BY <2>2, <2>3, <2>4, <3>3
      <4> QED BY <3>1, <4>1
    <3> QED BY <3>2, <3>3
  <2>10. Reads(k + 1, f)
    BY <2>3, <2>9
  <2> HIDE DEF f, Reads
  <2> QED BY <2>3, <2>7, <2>10
<1>9. n \in S
  <2> HIDE DEF S
  <2> QED BY <1>1, <1>7, <1>8, SetInduction
<1>10. PICK f \in [1..(n + 1) -> Texts] : \A i \in 1..(n + 1) : f[i] = From(f, i)
  <2>1. n + 1 - n = 1
    BY <1>1
  <2> QED BY <1>1, <1>9, <2>1
<1> DEFINE from == CHOOSE g : g = F(g)
<1>11. f = F(f)
  BY <1>10
<1>12. from = F(from)
  <2> HIDE DEF F
  <2> QED BY <1>11
<1>13. Lines(file) = from[1]
  BY <1>0 DEF Lines, From, Line
<1>14. \A i \in 1..(n + 1) : from[i] = From(from, i)
  BY <1>12
<1> HIDE DEF from, F
<1> DEFINE U == {k \in Nat : k <= n => \A i \in (n + 1 - k)..(n + 1) : from[i] \in Texts}
<1>15. 0 \in U
  <2>1. from[n + 1] = << >>
    BY <1>1, <1>4, <1>14
  <2> QED BY <1>1, <1>3, <2>1
<1>16. ASSUME NEW k \in Nat, k \in U PROVE k + 1 \in U
  <2>1. SUFFICES ASSUME k + 1 <= n, NEW i \in (n + 1 - (k + 1))..(n + 1)
                 PROVE  from[i] \in Texts
    OBVIOUS
  <2>2. \A j \in (n + 1 - k)..(n + 1) : from[j] \in Texts
    BY <1>16, <2>1
  <2>3. CASE i \in (n + 1 - k)..(n + 1)
    BY <2>2, <2>3
  <2>4. CASE i \notin (n + 1 - k)..(n + 1)
    <3>1. i \in 1..(n + 1) /\ \A j \in (i + 1)..(n + 1) : j \in (n + 1 - k)..(n + 1)
      BY <1>1, <2>1, <2>4
    <3> QED BY <1>5, <1>14, <2>2, <3>1
  <2> QED BY <2>3, <2>4
<1>17. n \in U
  <2> HIDE DEF U
  <2> QED BY <1>1, <1>15, <1>16, SetInduction
<1>18. \A i \in 1..(n + 1) : from[i] \in Texts
  <2>1. n + 1 - n = 1
    BY <1>1
  <2> QED BY <1>1, <1>17, <2>1
<1>19. from[n + 1] = << >>
  BY <1>1, <1>4, <1>14
<1>20. \A i \in 1..n : from[i] = <<Line(i)>> \o from[LineEnd(file, i) + 1]
  BY SMTT(30), <1>1, <1>4, <1>14
<1> QED BY <1>0, <1>13, <1>18, <1>19, <1>20 DEF LinesFrom, Line

(* The lines of a file are a sequence of texts.                              *)
LEMMA LinesAreSequence ==
  ASSUME NEW file \in Seq(Symbols)
  PROVE  Lines(file) \in Seq(Seq(Symbols))
<1>1. PICK from : LinesFrom(file, from)
  BY LinesSteps
<1>2. 1 \in 1..(Len(file) + 1)
  OBVIOUS
<1> QED BY <1>1, <1>2 DEF LinesFrom, Texts

(* What a line leads to: at most one server, whose host was found.           *)
LEMMA ParsedServers ==
  ASSUME NEW line, NEW type
  PROVE  \/ ParseLine(line, type).servers = << >>
         \/ \E s : s.host \in KnownHosts /\ ParseLine(line, type).servers = <<s>>
<1> DEFINE given == FieldsOf(line)
           named == given # << >> /\ given[1] \in Services
           fields == IF named THEN given ELSE << <<"auth">> >> \o given
           number(i, default) == IF i <= Len(fields) THEN NumberOf(fields[i]) ELSE default
           malformed == \/ SplitFails(line)
                        \/ given # << >> /\ Len(fields) \notin 3..MAXFIELDS
           ours == given # << >> /\ fields[1] = <<type>>
           invalid == \/ HostOf(fields[2]) \notin KnownHosts
                      \/ ~IsNumber(PortOf(fields[2]))
                      \/ \E i \in 4..Len(fields) : ~IsNumber(fields[i])
           s == Server(HostOf(fields[2]), NumberOf(PortOf(fields[2])),
                       fields[3], number(4, TIMEOUT), number(5, MAXTRIES))
<1>1. ParseLine(line, type) =
        IF malformed \/ (ours /\ invalid) THEN Error
        ELSE IF ~ours THEN Skip
        ELSE [error |-> FALSE, servers |-> <<s>>]
  BY DEF ParseLine
<1>2. s.host = HostOf(fields[2])
  BY DEF Server
<1>3. ~invalid => HostOf(fields[2]) \in KnownHosts
  OBVIOUS
<1> HIDE DEF s, malformed, ours, invalid, fields
<1>4. CASE malformed \/ (ours /\ invalid)
  BY <1>1, <1>4 DEF Error
<1>5. CASE ~malformed /\ ~ours
  BY <1>1, <1>5 DEF Skip
<1>6. CASE ~malformed /\ ours /\ ~invalid
  <2>1. ParseLine(line, type).servers = <<s>>
    BY <1>1, <1>6
  <2> QED BY <1>2, <1>3, <1>6, <2>1
<1> QED BY <1>4, <1>5, <1>6

(* A line keeps the table one.                                               *)
IsReading(st) == st = [ok |-> st.ok, servers |-> st.servers] /\ IsTable(st.servers)

(* A line leaves a table a handle can have.                                  *)
LEMMA LineKeepsTable ==
  ASSUME NEW st, IsReading(st), NEW line, NEW garbage, NEW p,
         p.servers = << >> \/ \E s : s.host \in KnownHosts /\ p.servers = <<s>>
  PROVE  IsReading(ReadLine(st, line, p, garbage))
<1> DEFINE joined == st.servers \o p.servers
           new == ReadLine(st, line, p, garbage)
<1>1. new = IF ~st.ok THEN st
            ELSE IF NoNewline(line, garbage) \/ p.error \/ Len(joined) > MAXSERVERS
                   THEN [st EXCEPT !.ok = FALSE]
            ELSE [ok |-> TRUE, servers |-> joined]
  BY DEF ReadLine
<1>2. /\ IsSequence(p.servers)
      /\ \A i \in 1..Len(p.servers) : p.servers[i].host \in KnownHosts
  <2> DEFINE q == p.servers
  <2>1. q = << >> \/ \E s : s.host \in KnownHosts /\ q = <<s>>
    OBVIOUS
  <2> SUFFICES IsSequence(q) /\ \A i \in 1..Len(q) : q[i].host \in KnownHosts
    OBVIOUS
  <2> HIDE DEF q
  <2>2. CASE q = << >>
    <3>1. q \in Seq({}) /\ Len(q) = 0
      BY <2>2
    <3>2. IsSequence(q)
      BY <3>1, SequencesAre
    <3>3. \A i \in 1..Len(q) : FALSE
      BY <3>1
    <3> QED BY <3>2, <3>3
  <2>3. ASSUME NEW s, s.host \in KnownHosts, q = <<s>>
        PROVE  IsSequence(q) /\ \A i \in 1..Len(q) : q[i].host \in KnownHosts
    <3>1. q \in Seq({s})
      BY <2>3
    <3>2. \A i \in 1..Len(q) : q[i] = s
      BY <2>3
    <3> QED BY <2>3, <3>1, <3>2, SequencesAre
  <2> QED BY <2>1, <2>2, <2>3
<1>3. IsTable(st.servers)
  BY DEF IsReading
<1>4. Len(joined) \in Nat
  <2> DEFINE T == ToSet(st.servers) \cup ToSet(p.servers)
  <2>1. st.servers \in Seq(T) /\ p.servers \in Seq(T)
    BY <1>2, <1>3 DEF IsTable, IsSequence
  <2> HIDE DEF T
  <2>2. \A a, b \in Seq(T) : Len(a \o b) \in Nat
    OBVIOUS
  <2> QED BY <2>1, <2>2
<1>5. CASE new = st
  BY <1>5
<1>6. CASE new = [st EXCEPT !.ok = FALSE]
  <2>1. st = [ok |-> st.ok, servers |-> st.servers]
    BY DEF IsReading
  <2>2. new = [ok |-> FALSE, servers |-> st.servers]
    BY <1>6, <2>1
  <2> HIDE DEF new
  <2>3. new.ok = FALSE /\ new.servers = st.servers
    BY <2>2
  <2>4. IsReading(new)
    BY <1>3, <2>2, <2>3 DEF IsReading
  <2> QED BY <2>4 DEF new
<1>7. CASE new = [ok |-> TRUE, servers |-> joined] /\ ~(Len(joined) > MAXSERVERS)
  <2>1. IsTable(joined)
    <3>1. Len(joined) <= MAXSERVERS
      <4> HIDE DEF joined
      <4> QED BY <1>4, <1>7, ConfigAssumption DEF ConfigAssumption
    <3> QED BY <1>2, <1>3, <3>1, TableJoined DEF IsTable
  <2> HIDE DEF new, joined
  <2>2. new.ok = TRUE /\ new.servers = joined
    BY <1>7
  <2>3. IsReading(new)
    BY <1>7, <2>1, <2>2 DEF IsReading
  <2> QED BY <2>3 DEF new
<1> QED BY <1>1, <1>5, <1>6, <1>7

(* after[i] is what i lines have come to.                                    *)
ReadAfter(lines, type, servers, garbage, after) ==
  /\ after[0] = [ok |-> TRUE, servers |-> servers]
  /\ \A i \in 1..Len(lines) :
       after[i] = ReadLine(after[i - 1], lines[i], ParseLine(Front(lines[i]), type), garbage)

(* Config is the last value of such a function.                              *)
LEMMA ConfigSteps ==
  ASSUME NEW file \in Seq(Symbols), NEW type, NEW servers, NEW garbage
  PROVE  \E after : /\ ReadAfter(Lines(file), type, servers, garbage, after)
                    /\ Config(file, type, servers, garbage) = after[Len(Lines(file))]
<1> DEFINE lines == Lines(file)
           parsed == [line \in ToSet(lines) |-> ParseLine(Front(line), type)]
           first == [ok |-> TRUE, servers |-> servers]
           Step(f, i) == IF i = 0 THEN first
                         ELSE ReadLine(f[i - 1], lines[i], parsed[lines[i]], garbage)
           Reads(k, f) == \A i \in 0..k : f[i] = Step(f, i)
           S == {k \in Nat : \E f : f = [i \in 0..k |-> f[i]] /\ Reads(k, f)}
<1>0. PICK n \in Nat : n = Len(lines)
  <2>1. lines \in Seq(Seq(Symbols))
    BY LinesAreSequence
  <2> HIDE DEF lines
  <2> QED BY <2>1
<1> DEFINE F(f) == [i \in 0..n |-> Step(f, i)]
<1>p. ASSUME NEW i \in 1..n
      PROVE  parsed[lines[i]] = ParseLine(Front(lines[i]), type)
  <2>1. lines \in Seq(Seq(Symbols))
    BY LinesAreSequence
  <2> HIDE DEF lines
  <2>2. i \in DOMAIN lines
    BY <1>0, <2>1
  <2>3. lines[i] \in ToSet(lines)
    BY <2>2 DEF ToSet
  <2> QED BY <2>3
<1> HIDE DEF first, lines, parsed
<1>1. 0 \in S
  <2> DEFINE f == [i \in 0..0 |-> first]
  <2>1. f = [i \in 0..0 |-> f[i]] /\ Reads(0, f)
    OBVIOUS
  <2> QED BY <2>1
<1>2. ASSUME NEW k \in Nat, k \in S PROVE k + 1 \in S
  <2>1. PICK g : g = [i \in 0..k |-> g[i]] /\ Reads(k, g)
    BY <1>2
  <2> DEFINE f == [i \in 0..(k + 1) |->
                     IF i = k + 1
                       THEN ReadLine(g[k], lines[k + 1], parsed[lines[k + 1]], garbage)
                     ELSE g[i]]
  <2>2. f = [i \in 0..(k + 1) |-> f[i]]
    OBVIOUS
  <2>3. ASSUME NEW i \in 0..(k + 1) PROVE f[i] = Step(f, i)
    <3>1. CASE i = k + 1
      BY <3>1
    <3>2. CASE i # k + 1
      <4>1. i \in 0..k /\ f[i] = g[i]
        BY <3>2
      <4>2. i # 0 => i - 1 \in 0..k /\ f[i - 1] = g[i - 1]
        BY <4>1
      <4>3. g[i] = Step(g, i)
        BY <2>1, <4>1
      <4> QED BY <4>1, <4>2, <4>3
    <3> QED BY <3>1, <3>2
  <2>4. Reads(k + 1, f)
    BY <2>3
  <2> HIDE DEF f, Reads
  <2> QED BY <2>2, <2>4
<1>3. n \in S
  <2> HIDE DEF S
  <2> QED BY <1>1, <1>2, SetInduction
<1>4. PICK f : f = [i \in 0..n |-> f[i]] /\ \A i \in 0..n : f[i] = Step(f, i)
  BY <1>3
<1> DEFINE after == CHOOSE g : g = F(g)
<1>5. f = F(f)
  <2> HIDE DEF Step
  <2> QED BY <1>4
<1>6. after = F(after)
  <2> HIDE DEF F
  <2> QED BY <1>5
<1>7. Config(file, type, servers, garbage) = after[n]
  BY <1>0 DEF Config, lines, parsed, first
<1>8. \A i \in 0..n : after[i] = Step(after, i)
  <2> HIDE DEF Step
  <2> QED BY <1>6
<1> HIDE DEF after, F
<1>9. after[0] = [ok |-> TRUE, servers |-> servers]
  <2>1. 0 \in 0..n
    BY <1>0
  <2>2. after[0] = Step(after, 0)
    <3> HIDE DEF Step
    <3> QED BY <1>8, <2>1
  <2> QED BY <2>2 DEF first
<1>10. ASSUME NEW i \in 1..n
       PROVE  after[i] = ReadLine(after[i - 1], lines[i], ParseLine(Front(lines[i]), type), garbage)
  <2>1. i \in 0..n /\ i # 0
    OBVIOUS
  <2>2. after[i] = Step(after, i)
    <3> HIDE DEF Step
    <3> QED BY <1>8, <2>1
  <2>3. after[i] = ReadLine(after[i - 1], lines[i], parsed[lines[i]], garbage)
    BY <2>1, <2>2
  <2> QED BY <1>p, <2>3
<1>11. ReadAfter(lines, type, servers, garbage, after) /\ n = Len(lines)
  BY <1>0, <1>9, <1>10 DEF ReadAfter
<1> QED BY <1>7, <1>11 DEF lines

(* rad_config leaves a table of servers in a handle that has one.            *)
LEMMA ConfigKeepsTable ==
  ASSUME NEW file \in Seq(Symbols), NEW type, NEW servers, IsTable(servers), NEW garbage
  PROVE  IsTable(Config(file, type, servers, garbage).servers)
<1> DEFINE lines == Lines(file)
<1>0. PICK n \in Nat : n = Len(lines)
  <2>1. lines \in Seq(Seq(Symbols))
    BY LinesAreSequence
  <2> HIDE DEF lines
  <2> QED BY <2>1
<1>1. PICK after : /\ ReadAfter(lines, type, servers, garbage, after)
                   /\ Config(file, type, servers, garbage) = after[n]
  BY <1>0, ConfigSteps
<1> HIDE DEF lines
<1> DEFINE U == {k \in Nat : k <= n => IsReading(after[k])}
<1>2. 0 \in U
  BY <1>1 DEF ReadAfter, IsReading
<1>3. ASSUME NEW k \in Nat, k \in U PROVE k + 1 \in U
  <2>1. SUFFICES ASSUME k + 1 <= n PROVE IsReading(after[k + 1])
    OBVIOUS
  <2>2. PICK i \in 1..n : i = k + 1 /\ i - 1 = k
    BY <2>1
  <2>3. IsReading(after[i - 1])
    BY <1>3, <2>2
  <2> DEFINE p == ParseLine(Front(lines[i]), type)
  <2>4. p.servers = << >> \/ \E s : s.host \in KnownHosts /\ p.servers = <<s>>
    BY ParsedServers
  <2>5. after[i] = ReadLine(after[i - 1], lines[i], p, garbage)
    BY <1>0, <1>1 DEF ReadAfter
  <2> HIDE DEF p
  <2>6. IsReading(after[i])
    BY <2>3, <2>4, <2>5, LineKeepsTable
  <2> QED BY <2>2, <2>6
<1>4. n \in U
  <2> HIDE DEF U
  <2> QED BY <1>2, <1>3, SetInduction
<1>5. IsReading(after[n])
  BY <1>4
<1> QED BY <1>1, <1>5 DEF IsReading

-----------------------------------------------------------------------------
(* Files in lines.                                                           *)

(* What fgets reads at once: a line, as much as the buffer holds, or the     *)
(* rest of the file.                                                         *)
IsPiece(piece, last) ==
  /\ piece \in Seq(Symbols) /\ Len(piece) \in 1..(MAXCONFLINE - 1)
  /\ \A i \in 1..(Len(piece) - 1) : piece[i] # "LF"
  /\ piece[Len(piece)] = "LF" \/ Len(piece) = MAXCONFLINE - 1 \/ last

(* Where a line ends.                                                        *)
LEMMA LineEndIs ==
  ASSUME NEW file \in Seq(Symbols), NEW start \in 1..Len(file), NEW e \in start..Len(file),
         \A i \in start..(e - 1) : file[i] # "LF",
         e <= start + MAXCONFLINE - 2,
         file[e] = "LF" \/ e = Len(file) \/ e = start + MAXCONFLINE - 2
  PROVE  LineEnd(file, start) = e
<1>1. PICK n \in Nat : n = Len(file)
  OBVIOUS
<1>2. PICK m \in Nat : m = MAXCONFLINE /\ m >= 3
  BY ConfigAssumption DEF ConfigAssumption
<1> DEFINE T == {i \in start..n : file[i] = "LF"} \cup {n, start + m - 2}
<1>3. LineEnd(file, start) = Min(T)
  BY <1>1, <1>2 DEF LineEnd
<1>4. start \in 1..n /\ e \in start..n /\ e \in Nat
  BY <1>1
<1>5. e \in T
  BY <1>1, <1>2, <1>4
<1>6. ASSUME NEW i \in T PROVE e <= i /\ i \in Nat
  <2>1. CASE i = n
    BY <1>4, <2>1
  <2>2. CASE i = start + m - 2
    BY <1>2, <1>4, <2>2
  <2>3. CASE i \in start..n /\ file[i] = "LF"
    <3>1. ~(i \in start..(e - 1))
      BY <2>3
    <3> QED BY <1>4, <2>3, <3>1
  <2> QED BY <1>6, <2>1, <2>2, <2>3
<1> HIDE DEF T
<1>7. Min(T) \in T /\ Min(T) <= e
  BY <1>5, <1>6 DEF Min
<1>8. Min(T) = e
  BY <1>4, <1>6, <1>7
<1> QED BY <1>3, <1>8

(* A file that is put together from pieces has them as its lines.            *)
LEMMA LinesArePieces ==
  ASSUME NEW n \in Nat, NEW pieces \in [1..n -> Seq(Symbols)],
         \A i \in 1..n : IsPiece(pieces[i], i = n)
  PROVE  /\ FlattenSeq(pieces) \in Seq(Symbols)
         /\ Lines(FlattenSeq(pieces)) \in Texts /\ Len(Lines(FlattenSeq(pieces))) = n
         /\ \A i \in 1..n : Lines(FlattenSeq(pieces))[i] = pieces[i]
<1> DEFINE file == FlattenSeq(pieces)
<1>1. /\ file \in Seq(Symbols)
      /\ \E at \in [0..n -> Nat] : LieIn(file, n, pieces, at)
  BY FlattenIs
<1>2. PICK at \in [0..n -> Nat] : LieIn(file, n, pieces, at)
  BY <1>1
<1> HIDE DEF file
<1>3. PICK from : LinesFrom(file, from)
  BY <1>1, LinesSteps
<1>4. PICK m \in Nat : m = MAXCONFLINE /\ m >= 3
  BY ConfigAssumption DEF ConfigAssumption
<1>5. /\ at[0] = 0 /\ at[n] = Len(file) /\ \A i \in 0..n : at[i] \in Nat
      /\ \A i \in 1..n : /\ at[i] = at[i - 1] + Len(pieces[i]) /\ at[i] <= at[n]
                         /\ \A j \in 1..Len(pieces[i]) : file[at[i - 1] + j] = pieces[i][j]
  BY <1>2 DEF LieIn
<1>6. ASSUME NEW i \in 1..n
      PROVE  /\ at[i - 1] + 1 \in 1..Len(file)
             /\ LineEnd(file, at[i - 1] + 1) = at[i]
             /\ SubSeq(file, at[i - 1] + 1, at[i]) = pieces[i]
  <2>1. PICK p : p = pieces[i]
    OBVIOUS
  <2>2. PICK l \in Nat : l = Len(p)
    BY <2>1
  <2>3. /\ p \in Seq(Symbols) /\ l \in 1..(m - 1)
        /\ \A j \in 1..(l - 1) : p[j] # "LF"
        /\ p[l] = "LF" \/ l = m - 1 \/ i = n
    <3>1. IsPiece(p, i = n)
      BY <2>1
    <3> QED BY <1>4, <2>2, <3>1 DEF IsPiece
  <2>4. PICK b \in Nat : b = at[i - 1]
    BY <1>5
  <2>5. PICK k \in Nat : k = Len(file)
    BY <1>1
  <2>6. /\ at[i] = b + l /\ b + l <= k
        /\ \A j \in 1..l : file[b + j] = p[j]
    BY <1>5, <2>1, <2>2, <2>4, <2>5
  <2>7. b + 1 \in 1..k /\ b + l \in (b + 1)..k
    BY <2>3, <2>6
  <2>8. \A j \in (b + 1)..(b + l - 1) : file[j] # "LF"
    <3> SUFFICES ASSUME NEW j \in (b + 1)..(b + l - 1) PROVE file[j] # "LF"
      OBVIOUS
    <3>1. PICK h \in 1..(l - 1) : j = b + h
      <4>1. j - b \in 1..(l - 1) /\ b + (j - b) = j
        OBVIOUS
      <4> QED BY <4>1
    <3>2. h \in 1..l
      OBVIOUS
    <3>3. file[b + h] = p[h] /\ p[h] # "LF"
      BY <2>3, <2>6, <3>2
    <3> QED BY <3>1, <3>3
  <2>9. file[b + l] = "LF" \/ b + l = k \/ b + l = b + 1 + m - 2
    <3>1. l \in 1..l
      BY <2>3
    <3>2. file[b + l] = p[l]
      BY <2>6, <3>1
    <3>3. i = n => b + l = k
      BY <1>5, <2>5, <2>6
    <3>4. l = m - 1 => b + l = b + 1 + m - 2
      OBVIOUS
    <3> QED BY <2>3, <3>2, <3>3, <3>4
  <2>10. b + l <= b + 1 + m - 2
    BY <2>3
  <2>11. LineEnd(file, b + 1) = b + l
    <3>1. b + 1 \in 1..Len(file) /\ b + l \in (b + 1)..Len(file)
      BY <2>5, <2>7
    <3>2. \A j \in (b + 1)..((b + l) - 1) : file[j] # "LF"
      BY <2>8
    <3>3. b + l <= (b + 1) + MAXCONFLINE - 2
      BY <1>4, <2>10
    <3>4. file[b + l] = "LF" \/ b + l = Len(file) \/ b + l = (b + 1) + MAXCONFLINE - 2
      BY <1>4, <2>5, <2>9
    <3> QED BY <1>1, <3>1, <3>2, <3>3, <3>4, LineEndIs
  <2>12. SubSeq(file, b + 1, b + l) = p
    <3> DEFINE s == SubSeq(file, b + 1, b + l)
    <3>1. \A j \in (b + 1)..(b + l) : file[j] \in Symbols
      BY <1>1, <2>5, <2>7
    <3>2. /\ s \in Seq(Symbols)
          /\ Len(s) = IF b + 1 <= b + l THEN (b + l) - (b + 1) + 1 ELSE 0
          /\ \A j \in 1..((b + l) - (b + 1) + 1) : s[j] = file[b + 1 + j - 1]
      BY <3>1, SubSeqProperties
    <3> HIDE DEF s
    <3>3. Len(s) = l
      BY <2>3, <3>2
    <3>4. ASSUME NEW j \in 1..l PROVE s[j] = p[j]
      <4>1. j \in 1..((b + l) - (b + 1) + 1) /\ b + 1 + j - 1 = b + j
        OBVIOUS
      <4>2. s[j] = file[b + 1 + j - 1]
        BY <3>2, <4>1
      <4> QED BY <2>6, <4>1, <4>2
    <3>5. s = p
      BY <2>2, <2>3, <3>2, <3>3, <3>4, SeqEqual
    <3> QED BY <3>5 DEF s
  <2> QED BY <2>1, <2>4, <2>5, <2>6, <2>7, <2>11, <2>12
<1> DEFINE Rest(k) == from[at[n - k] + 1]
           Good(k) == /\ Rest(k) \in Texts /\ Len(Rest(k)) = k
                      /\ \A j \in 1..k : Rest(k)[j] = pieces[n - k + j]
           S == {k \in Nat : k <= n => Good(k)}
<1>7. 0 \in S
  <2>1. n - 0 = n /\ at[n] = Len(file)
    BY <1>5
  <2>2. Rest(0) = << >>
    BY <1>3, <2>1 DEF LinesFrom
  <2>3. << >> \in Texts /\ Len(<< >>) = 0
    BY EmptySeq DEF Texts
  <2> QED BY <2>2, <2>3
<1>8. ASSUME NEW k \in Nat, k \in S PROVE k + 1 \in S
  <2>1. SUFFICES ASSUME k + 1 <= n PROVE Good(k + 1)
    <3> HIDE DEF Good
    <3> QED OBVIOUS
  <2>2. PICK i \in 1..n : i = n - k /\ i - 1 = n - (k + 1)
    <3>1. n - k \in 1..n /\ (n - k) - 1 = n - (k + 1)
      BY <2>1
    <3> QED BY <3>1
  <2>3. PICK t : t = Rest(k)
    OBVIOUS
  <2>4. /\ t \in Texts /\ Len(t) = k /\ \A j \in 1..k : t[j] = pieces[i + j]
    <3>1. Good(k)
      <4> HIDE DEF Good
      <4> QED BY <1>8, <2>1
    <3> QED BY <2>2, <2>3, <3>1
  <2>5. Rest(k + 1) = <<pieces[i]>> \o t
    <3>1. Rest(k + 1) = from[at[i - 1] + 1]
      BY <2>2
    <3>2. t = from[at[i] + 1]
      BY <2>2, <2>3
    <3> HIDE DEF Rest
    <3>3. from[at[i - 1] + 1] =
            <<SubSeq(file, at[i - 1] + 1, LineEnd(file, at[i - 1] + 1))>>
              \o from[LineEnd(file, at[i - 1] + 1) + 1]
      BY <1>3, <1>6 DEF LinesFrom
    <3> QED BY <1>6, <3>1, <3>2, <3>3
  <2>6. PICK u : u = <<pieces[i]>>
    OBVIOUS
  <2>7. u \in Seq(Seq(Symbols)) /\ Len(u) = 1 /\ u[1] = pieces[i]
    <3>1. pieces[i] \in Seq(Symbols)
      OBVIOUS
    <3> QED BY <2>6, <3>1, ShortHave
  <2>8. PICK r : r = Rest(k + 1)
    OBVIOUS
  <2>9. /\ r \in Texts /\ Len(r) = 1 + k /\ r[1] = pieces[i]
        /\ \A j \in 1..k : r[1 + j] = t[j]
    <3>1. r = u \o t
      BY <2>5, <2>6, <2>8
    <3>2. u \in Seq(Seq(Symbols)) /\ t \in Seq(Seq(Symbols))
      BY <2>4, <2>7 DEF Texts
    <3>3. /\ r \in Seq(Seq(Symbols)) /\ Len(r) = Len(u) + Len(t)
          /\ \A j \in 1..Len(u) : r[j] = u[j]
          /\ \A j \in 1..Len(t) : r[Len(u) + j] = t[j]
      <4>1. /\ u \o t \in Seq(Seq(Symbols)) /\ Len(u \o t) = Len(u) + Len(t)
            /\ \A j \in 1..Len(u) : (u \o t)[j] = u[j]
            /\ \A j \in 1..Len(t) : (u \o t)[Len(u) + j] = t[j]
        BY <3>2, JoinedSequences
      <4> QED BY <3>1, <4>1, Zenon
    <3>4. Len(u) = 1 /\ u[1] = pieces[i] /\ 1 \in 1..1 /\ Len(t) = k
      BY <2>4, <2>7
    <3>5. r \in Texts
      BY <3>3 DEF Texts
    <3>6. Len(r) = 1 + k /\ r[1] = pieces[i]
      BY <3>3, <3>4, Zenon
    <3>7. \A j \in 1..k : r[1 + j] = t[j]
      BY <3>3, <3>4, Zenon
    <3> QED BY <3>5, <3>6, <3>7
  <2>10. ASSUME NEW j \in 1..(k + 1) PROVE r[j] = pieces[n - (k + 1) + j]
    <3>1. CASE j = 1
      <4>1. n - (k + 1) + j = i
        BY <2>2, <3>1
      <4> QED BY <2>9, <3>1, <4>1
    <3>2. CASE j # 1
      <4>1. PICK h \in 1..k : j = 1 + h
        <5>1. j - 1 \in 1..k /\ j = 1 + (j - 1)
          BY <3>2
        <5> QED BY <5>1
      <4>2. n - (k + 1) + j = i + h
        BY <2>2, <4>1
      <4> QED BY <2>4, <2>9, <4>1, <4>2
    <3> QED BY <3>1, <3>2
  <2>11. Len(r) = k + 1
    BY <2>9
  <2> HIDE DEF Rest
  <2> QED BY <2>8, <2>9, <2>10, <2>11
<1>9. Good(n)
  <2>1. n \in S
    <3> HIDE DEF S
    <3> QED BY <1>7, <1>8, SetInduction
  <2> HIDE DEF Good
  <2> QED BY <2>1
<1>10. Rest(n) = Lines(file)
  <2>1. n - n = 0 /\ at[0] + 1 = 1
    BY <1>5
  <2> QED BY <1>3, <2>1 DEF LinesFrom
<1>11. \A j \in 1..n : n - n + j = j
  OBVIOUS
<1>12. Lines(file) \in Texts /\ Len(Lines(file)) = n /\ \A j \in 1..n : Lines(file)[j] = pieces[j]
  <2> HIDE DEF Rest
  <2>1. /\ Lines(file) \in Texts /\ Len(Lines(file)) = n
        /\ \A j \in 1..n : Lines(file)[j] = pieces[n - n + j]
    BY <1>9, <1>10
  <2> QED BY <1>11, <2>1
<1> QED BY <1>1, <1>12 DEF file

-----------------------------------------------------------------------------
(* Reading what was written.                                                 *)

(* What a line with a newline makes of a table, by what is in it.            *)
Take(st, parsed) ==
  IF ~st.ok THEN st
  ELSE IF parsed.error \/ Len(st.servers \o parsed.servers) > MAXSERVERS
         THEN [st EXCEPT !.ok = FALSE]
  ELSE [ok |-> TRUE, servers |-> st.servers \o parsed.servers]

(* A line whose last symbol is cut off: what is in front of it counts, and   *)
(* no carriage return.                                                       *)
LEMMA CutLine ==
  ASSUME NEW line \in Seq(Symbols), NEW c \in Symbols,
         c = "LF" \/ (line # << >> /\ line[Len(line)] # "CR")
  PROVE  /\ line \o <<c>> \in Seq(Symbols) /\ Len(line \o <<c>>) = Len(line) + 1
         /\ (line \o <<c>>)[Len(line) + 1] = c
         /\ \A i \in 1..Len(line) : (line \o <<c>>)[i] = line[i]
         /\ Front(line \o <<c>>) = line
         /\ \A st, parsed, garbage :
              ReadLine(st, line \o <<c>>, parsed, garbage) = Take(st, parsed)
<1> DEFINE w == line \o <<c>>
<1>1. PICK n \in Nat : n = Len(line)
  OBVIOUS
<1>2. /\ w \in Seq(Symbols) /\ Len(w) = n + 1 /\ w[n + 1] = c
      /\ \A i \in 1..n : w[i] = line[i]
  <2>1. PICK u : u = <<c>>
    OBVIOUS
  <2>2. u \in Seq(Symbols) /\ Len(u) = 1 /\ u[1] = c
    BY <2>1, ShortHave
  <2>3. /\ line \o u \in Seq(Symbols) /\ Len(line \o u) = Len(line) + Len(u)
        /\ \A j \in 1..Len(line) : (line \o u)[j] = line[j]
        /\ \A j \in 1..Len(u) : (line \o u)[Len(line) + j] = u[j]
    <3>1. u \in Seq(Symbols)
      BY <2>2
    <3> QED BY <3>1, JoinedSequences
  <2>4. (line \o u)[n + 1] = c
    <3>1. 1 \in 1..Len(u)
      BY <2>2
    <3> QED BY <1>1, <2>2, <2>3, <3>1
  <2>5. w = line \o u
    BY <2>1
  <2> HIDE DEF w
  <2> QED BY <1>1, <2>2, <2>3, <2>4, <2>5
<1> HIDE DEF w
<1>3. Last(w) = c
  BY <1>2 DEF Last
<1>4. Front(w) = line
  <2>1. Front(w) = SubSeq(w, 1, n)
    <3>1. Len(w) - 1 = n
      BY <1>2
    <3> QED BY <3>1 DEF Front
  <2>2. /\ SubSeq(w, 1, n) \in Seq(Symbols) /\ Len(SubSeq(w, 1, n)) = n
        /\ \A i \in 1..n : SubSeq(w, 1, n)[i] = w[i]
    BY <1>2
  <2>3. SubSeq(w, 1, n) = line
    BY <1>1, <1>2, <2>2, SeqEqual
  <2> QED BY <2>1, <2>3
<1>5. \A garbage : ~NoNewline(w, garbage)
  <2>1. CASE c = "LF"
    BY <1>3, <2>1 DEF NoNewline
  <2>2. CASE line # << >> /\ line[Len(line)] # "CR"
    <3>1. n > 0
      BY <1>1, <2>2, EmptySeq
    <3>2. Len(w) > 1 /\ Len(w) - 1 = n /\ n \in 1..n
      BY <1>2, <3>1
    <3>3. w[Len(w) - 1] = line[n]
      BY <1>2, <3>2
    <3> QED BY <1>1, <2>2, <3>2, <3>3 DEF NoNewline
  <2> QED BY <2>1, <2>2
<1>6. \A st, parsed, garbage : ReadLine(st, w, parsed, garbage) = Take(st, parsed)
  BY <1>5 DEF ReadLine, Take
<1> QED BY <1>1, <1>2, <1>4, <1>6 DEF w

(* Reading lines takes rad_config from one table to another.                 *)
ReadsTo(start, lines, type, end) ==
  \E f : /\ f[0] = start /\ f[Len(lines)] = end
         /\ \A i \in 1..Len(lines) : f[i] = Take(f[i - 1], ParseLine(lines[i], type))

(* Pieces of a file and what counts of them.                                 *)
ReadPieces(n, pieces, lines) ==
  /\ pieces \in [1..n -> Seq(Symbols)] /\ \A i \in 1..n : IsPiece(pieces[i], i = n)
  /\ lines \in Texts /\ Len(lines) = n
  /\ \A i \in 1..n : /\ Front(pieces[i]) = lines[i]
                     /\ \A st, parsed, garbage :
                          ReadLine(st, pieces[i], parsed, garbage) = Take(st, parsed)

(* rad_config reads the lines one after the other.                           *)
LEMMA ConfigReads ==
  ASSUME NEW n \in Nat, NEW pieces, NEW lines, ReadPieces(n, pieces, lines),
         NEW type, NEW servers, NEW garbage, NEW end,
         ReadsTo([ok |-> TRUE, servers |-> servers], lines, type, end)
  PROVE  Config(FlattenSeq(pieces), type, servers, garbage) = end
<1> DEFINE file == FlattenSeq(pieces)
           L == Lines(file)
<1>1. /\ pieces \in [1..n -> Seq(Symbols)] /\ \A i \in 1..n : IsPiece(pieces[i], i = n)
      /\ Len(lines) = n
  BY DEF ReadPieces
<1>2. file \in Seq(Symbols) /\ Len(L) = n /\ \A i \in 1..n : L[i] = pieces[i]
  BY <1>1, LinesArePieces
<1> HIDE DEF file
<1>3. PICK after : /\ ReadAfter(L, type, servers, garbage, after)
                   /\ Config(file, type, servers, garbage) = after[Len(L)]
  BY <1>2, ConfigSteps
<1> HIDE DEF L
<1>4. PICK f : /\ f[0] = [ok |-> TRUE, servers |-> servers] /\ f[n] = end
               /\ \A i \in 1..n : f[i] = Take(f[i - 1], ParseLine(lines[i], type))
  BY <1>1 DEF ReadsTo
<1> DEFINE S == {k \in Nat : k <= n => after[k] = f[k]}
<1>5. 0 \in S
  BY <1>3, <1>4 DEF ReadAfter
<1>6. ASSUME NEW k \in Nat, k \in S PROVE k + 1 \in S
  <2>1. SUFFICES ASSUME k + 1 <= n PROVE after[k + 1] = f[k + 1]
    OBVIOUS
  <2>2. PICK i \in 1..n : i = k + 1 /\ i - 1 = k
    BY <2>1
  <2>3. after[i - 1] = f[i - 1]
    BY <1>6, <2>2
  <2>4. after[i] = ReadLine(after[i - 1], L[i], ParseLine(Front(L[i]), type), garbage)
    BY <1>2, <1>3 DEF ReadAfter
  <2>5. after[i] = Take(after[i - 1], ParseLine(lines[i], type))
    <3>1. L[i] = pieces[i] /\ Front(L[i]) = lines[i]
      BY <1>2 DEF ReadPieces
    <3>2. \A st, parsed : ReadLine(st, pieces[i], parsed, garbage) = Take(st, parsed)
      BY DEF ReadPieces
    <3> QED BY <2>4, <3>1, <3>2
  <2>6. after[i] = f[i]
    BY <1>4, <2>3, <2>5
  <2> QED BY <2>2, <2>6
<1>7. n \in S
  <2> HIDE DEF S
  <2> QED BY <1>5, <1>6, SetInduction
<1> QED BY <1>2, <1>3, <1>4, <1>7 DEF file

(* Lines that fit into the buffer, in a file.                                *)
LEMMA EndedReads ==
  ASSUME NEW lines \in Texts, \A i \in 1..Len(lines) : IsLine(lines[i], 1),
         NEW type, NEW servers, NEW garbage, NEW end,
         ReadsTo([ok |-> TRUE, servers |-> servers], lines, type, end)
  PROVE  Config(Ended(lines), type, servers, garbage) = end
<1>1. PICK n \in Nat : n = Len(lines)
  BY DEF Texts
<1>2. PICK lf : lf = "LF" /\ lf \in Symbols
  BY SymbolsOfFiles
<1> DEFINE Piece(i) == lines[i] \o <<lf>>
           pieces == [i \in 1..n |-> Piece(i)]
<1>3. Ended(lines) = FlattenSeq(pieces)
  BY <1>1, <1>2 DEF Ended
<1>4. ASSUME NEW i \in 1..n
      PROVE  /\ Piece(i) \in Seq(Symbols) /\ IsPiece(Piece(i), i = n) /\ Front(Piece(i)) = lines[i]
             /\ \A st, parsed, g : ReadLine(st, Piece(i), parsed, g) = Take(st, parsed)
  <2>1. PICK l : l = lines[i]
    OBVIOUS
  <2>2. l \in Seq(Symbols) /\ Len(l) + 1 < MAXCONFLINE /\ \A j \in 1..Len(l) : l[j] # "LF"
    <3>1. IsLine(l, 1)
      BY <1>1, <2>1
    <3> QED BY <3>1 DEF IsLine, ToSet
  <2>3. PICK p : p = l \o <<lf>>
    OBVIOUS
  <2>4. /\ p \in Seq(Symbols) /\ Len(p) = Len(l) + 1 /\ p[Len(l) + 1] = lf
        /\ \A j \in 1..Len(l) : p[j] = l[j]
        /\ Front(p) = l
        /\ \A st, parsed, g : ReadLine(st, p, parsed, g) = Take(st, parsed)
    BY <1>2, <2>2, <2>3, CutLine
  <2>5. IsPiece(p, i = n)
    <3>1. PICK k \in Nat : k = Len(l)
      BY <2>2
    <3>2. Len(p) \in 1..(MAXCONFLINE - 1) /\ Len(p) - 1 = k /\ Len(p) = k + 1
      BY <2>2, <2>4, <3>1, ConfigAssumption DEF ConfigAssumption
    <3>3. p[k + 1] = "LF" /\ \A j \in 1..k : p[j] # "LF"
      BY <1>2, <2>2, <2>4, <3>1
    <3> QED BY <2>4, <3>2, <3>3 DEF IsPiece
  <2>6. Piece(i) = p
    BY <2>1, <2>3
  <2> HIDE DEF Piece
  <2> QED BY <2>1, <2>4, <2>5, <2>6
<1>5. pieces \in [1..n -> Seq(Symbols)] /\ \A i \in 1..n : pieces[i] = Piece(i)
  BY <1>4
<1> HIDE DEF Piece, pieces
<1>6. ReadPieces(n, pieces, lines)
  BY <1>1, <1>4, <1>5 DEF ReadPieces
<1>7. Config(FlattenSeq(pieces), type, servers, garbage) = end
  BY <1>6, ConfigReads
<1> QED BY <1>3, <1>7

(* Lines behind lines.                                                       *)
LEMMA ReadsOn ==
  ASSUME NEW s \in Texts, NEW t \in Texts, NEW type, NEW a, NEW b, NEW c,
         ReadsTo(a, s, type, b), ReadsTo(b, t, type, c)
  PROVE  s \o t \in Texts /\ ReadsTo(a, s \o t, type, c)
<1> DEFINE Read(st, line) == Take(st, ParseLine(line, type))
<1>1. PICK f : /\ f[0] = a /\ f[Len(s)] = b
               /\ \A i \in 1..Len(s) : f[i] = Read(f[i - 1], s[i])
  BY DEF ReadsTo
<1>2. PICK g : /\ g[0] = b /\ g[Len(t)] = c
               /\ \A i \in 1..Len(t) : g[i] = Read(g[i - 1], t[i])
  BY DEF ReadsTo
<1>3. PICK m \in Nat : m = Len(s)
  BY DEF Texts
<1>4. PICK n \in Nat : n = Len(t)
  BY DEF Texts
<1>5. /\ s \o t \in Texts
      /\ Len(s \o t) = m + n
      /\ \A i \in 1..m : (s \o t)[i] = s[i]
      /\ \A i \in 1..n : (s \o t)[m + i] = t[i]
  <2>1. s \in Seq(Seq(Symbols)) /\ t \in Seq(Seq(Symbols))
    BY DEF Texts
  <2> QED BY <1>3, <1>4, <2>1, JoinedSequences DEF Texts
<1> DEFINE st == s \o t
           h == [i \in 0..(m + n) |-> IF i <= m THEN f[i] ELSE g[i - m]]
<1> HIDE DEF st, Read
<1>6. h[0] = a /\ h[m + n] = c
  <2>1. h[0] = f[0]
    BY <1>3
  <2>2. CASE n = 0
    <3>1. h[m + n] = f[m]
      BY <1>3, <2>2
    <3> QED BY <1>1, <1>2, <1>3, <1>4, <2>1, <2>2, <3>1
  <2>3. CASE n # 0
    <3>1. h[m + n] = g[n]
      BY <1>3, <1>4, <2>3
    <3> QED BY <1>1, <1>2, <1>4, <2>1, <3>1
  <2> QED BY <2>2, <2>3
<1>7. ASSUME NEW i \in 1..(m + n) PROVE h[i] = Read(h[i - 1], st[i])
  <2>1. CASE i <= m
    <3>1. i \in 1..m /\ h[i] = f[i] /\ h[i - 1] = f[i - 1]
      BY <2>1
    <3>2. st[i] = s[i]
      BY <1>5, <3>1 DEF st
    <3> HIDE DEF h
    <3> QED BY <1>1, <1>3, <3>1, <3>2
  <2>2. CASE ~(i <= m)
    <3>1. PICK j \in 1..n : i = m + j
      <4>1. i - m \in 1..n /\ i = m + (i - m)
        BY <2>2
      <4> QED BY <4>1
    <3>2. h[i] = g[j] /\ h[i - 1] = g[j - 1]
      <4>1. h[i] = g[j]
        BY <3>1
      <4>2. CASE j = 1
        <5>1. h[i - 1] = f[m] /\ j - 1 = 0
          BY <3>1, <4>2
        <5> QED BY <1>1, <1>2, <1>3, <4>1, <5>1
      <4>3. CASE j # 1
        BY <3>1, <4>1, <4>3
      <4> QED BY <4>2, <4>3
    <3>3. st[i] = t[j]
      BY <1>5, <3>1 DEF st
    <3> HIDE DEF h
    <3> QED BY <1>2, <1>4, <3>1, <3>2, <3>3
  <2> QED BY <2>1, <2>2
<1> HIDE DEF h
<1>8. ReadsTo(a, st, type, c)
  <2>1. Len(st) = m + n
    BY <1>5 DEF st
  <2> QED BY <1>6, <1>7, <2>1 DEF ReadsTo, Read
<1> QED BY <1>5, <1>8 DEF st

(* One line, and lines nothing is read of any more.                          *)
LEMMA ReadsOne ==
  ASSUME NEW line, NEW type, NEW start
  PROVE  ReadsTo(start, <<line>>, type, Take(start, ParseLine(line, type)))
<1> DEFINE s == <<line>>
           end == Take(start, ParseLine(line, type))
           f == [i \in 0..1 |-> IF i = 0 THEN start ELSE end]
<1>1. Len(s) = 1 /\ s[1] = line
  OBVIOUS
<1>2. f[0] = start /\ f[1] = end
  OBVIOUS
<1> HIDE DEF f
<1>3. \A i \in 1..1 : i = 1 /\ i - 1 = 0
  OBVIOUS
<1> HIDE DEF s
<1>4. ReadsTo(start, s, type, end)
  BY <1>1, <1>2, <1>3 DEF ReadsTo
<1> QED BY <1>4 DEF s

(* After an error nothing is read.                                           *)
LEMMA ReadsNowhere ==
  ASSUME NEW lines \in Texts, NEW type, NEW st, ~st.ok
  PROVE  ReadsTo(st, lines, type, st)
<1>0. PICK n \in Nat : n = Len(lines)
  BY DEF Texts
<1> DEFINE f == [i \in 0..n |-> st]
<1>1. f[0] = st /\ f[n] = st /\ \A i \in 1..n : f[i] = st /\ f[i - 1] = st
  OBVIOUS
<1> HIDE DEF f
<1>2. \A parsed : Take(st, parsed) = st
  BY DEF Take
<1> QED BY <1>0, <1>1, <1>2 DEF ReadsTo

-----------------------------------------------------------------------------
(* The table after the servers in wanted: as many of them as there is room   *)
(* for.                                                                      *)
Kept(wanted) ==
  IF Len(wanted) <= MAXSERVERS THEN [ok |-> TRUE, servers |-> wanted]
  ELSE [ok |-> FALSE, servers |-> SubSeq(wanted, 1, MAXSERVERS)]

(* What is kept, in the words of FilesReadBack.                              *)
LEMMA KeptIs ==
  ASSUME NEW T, NEW wanted \in Seq(T)
  PROVE  /\ Kept(wanted).servers = SubSeq(wanted, 1, Min({MAXSERVERS, Len(wanted)}))
         /\ Kept(wanted).ok <=> Len(wanted) <= MAXSERVERS
<1>1. PICK n \in Nat : n = Len(wanted)
  OBVIOUS
<1>2. MAXSERVERS \in Nat
  BY ConfigAssumption DEF ConfigAssumption
<1>3. PICK least : least = Min({MAXSERVERS, n})
  OBVIOUS
<1>4. least \in {MAXSERVERS, n} /\ least <= MAXSERVERS /\ least <= n
  <2>1. \E x \in {MAXSERVERS, n} : \A y \in {MAXSERVERS, n} : x <= y
    BY <1>2
  <2> QED BY <1>3, <2>1 DEF Min
<1>5. CASE n <= MAXSERVERS
  <2>1. least = n /\ SubSeq(wanted, 1, n) = wanted
    BY <1>1, <1>2, <1>4, <1>5, GrowsByOne
  <2>2. Kept(wanted) = [ok |-> TRUE, servers |-> wanted]
    BY <1>1, <1>5 DEF Kept
  <2>3. Kept(wanted).servers = wanted /\ Kept(wanted).ok
    BY <2>2
  <2> QED BY <1>1, <1>3, <1>5, <2>1, <2>3
<1>6. CASE ~(n <= MAXSERVERS)
  <2>1. least = MAXSERVERS
    BY <1>2, <1>4, <1>6
  <2>2. Kept(wanted) = [ok |-> FALSE, servers |-> SubSeq(wanted, 1, MAXSERVERS)]
    BY <1>1, <1>6 DEF Kept
  <2>3. Kept(wanted).servers = SubSeq(wanted, 1, MAXSERVERS) /\ ~Kept(wanted).ok
    <3>1. PICK cut : cut = SubSeq(wanted, 1, MAXSERVERS)
      OBVIOUS
    <3>2. PICK st : st = [ok |-> FALSE, servers |-> cut]
      OBVIOUS
    <3>3. st.servers = cut /\ ~st.ok
      BY <3>2
    <3> QED BY <2>2, <3>1, <3>2, <3>3
  <2> QED BY <1>1, <1>3, <1>6, <2>1, <2>3
<1> QED BY <1>5, <1>6

(* A sequence cut in front of its last element.                              *)
LEMMA CutBefore ==
  ASSUME NEW T, NEW s \in Seq(T), NEW x \in T, NEW n \in 0..Len(s)
  PROVE  /\ Append(s, x) \in Seq(T) /\ Len(Append(s, x)) = Len(s) + 1
         /\ SubSeq(Append(s, x), 1, n) = SubSeq(s, 1, n)
<1>1. /\ Append(s, x) \in Seq(T) /\ Len(Append(s, x)) = Len(s) + 1
      /\ \A i \in 1..n : Append(s, x)[i] = s[i]
  OBVIOUS
<1> DEFINE t == Append(s, x)
<1> HIDE DEF t
<1>2. t \in Seq(T) /\ Len(t) = Len(s) + 1 /\ \A i \in 1..n : t[i] = s[i]
  BY <1>1 DEF t
<1>3. PICK m \in Nat : m = Len(s) /\ n \in 0..m
  OBVIOUS
<1>4. /\ SubSeq(s, 1, n) \in Seq(T) /\ Len(SubSeq(s, 1, n)) = n
      /\ \A i \in 1..n : SubSeq(s, 1, n)[i] = s[i]
      /\ SubSeq(t, 1, n) \in Seq(T) /\ Len(SubSeq(t, 1, n)) = n
      /\ \A i \in 1..n : SubSeq(t, 1, n)[i] = t[i]
  <2>1. ASSUME NEW u \in Seq(T), n <= Len(u)
        PROVE  /\ SubSeq(u, 1, n) \in Seq(T) /\ Len(SubSeq(u, 1, n)) = n
               /\ \A i \in 1..n : SubSeq(u, 1, n)[i] = u[i]
    <3>1. \A i \in 1..n : u[i] \in T
      BY <2>1
    <3> QED BY <2>1, <3>1, SubSeqProperties
  <2>2. n <= Len(s) /\ n <= Len(t)
    BY <1>2, <1>3
  <2> QED BY <1>2, <2>1, <2>2
<1>5. SubSeq(t, 1, n) = SubSeq(s, 1, n)
  BY <1>2, <1>4, SeqEqual
<1> QED BY <1>2, <1>5 DEF t

(* A line that gives none, one with an error, and one that gives a server.   *)
LEMMA KeptStays ==
  ASSUME NEW T, NEW wanted \in Seq(T)
  PROVE  /\ Take(Kept(wanted), Skip) = Kept(wanted)
         /\ Take(Kept(wanted), Error) = [ok |-> FALSE, servers |-> Kept(wanted).servers]
<1>1. PICK n \in Nat : n = Len(wanted)
  OBVIOUS
<1>2. MAXSERVERS \in Nat
  BY ConfigAssumption DEF ConfigAssumption
<1>3. PICK none : none = << >>
  OBVIOUS
<1>4. wanted \o none = wanted
  BY <1>3, ConcatEmptySeq
<1>5. Skip = [error |-> FALSE, servers |-> none] /\ Error = [error |-> TRUE, servers |-> none]
  BY <1>3 DEF Skip, Error
<1>6. CASE n <= MAXSERVERS
  <2>1. PICK st : st = [ok |-> TRUE, servers |-> wanted]
    OBVIOUS
  <2>2. Kept(wanted) = st /\ st.ok /\ st.servers = wanted
        /\ [st EXCEPT !.ok = FALSE] = [ok |-> FALSE, servers |-> wanted]
    <3>1. Kept(wanted) = st
      BY <1>1, <1>6, <2>1 DEF Kept
    <3>2. st.ok /\ st.servers = wanted
      BY <2>1
    <3>3. [st EXCEPT !.ok = FALSE] = [ok |-> FALSE, servers |-> wanted]
      <4>1. \A k, m : [[ok |-> k, servers |-> wanted] EXCEPT !.ok = m]
                        = [ok |-> m, servers |-> wanted]
        OBVIOUS
      <4> QED BY <2>1, <4>1, Zenon
    <3> QED BY <3>1, <3>2, <3>3
  <2>3. Take(st, Skip) = st
    <3>1. ~(Len(wanted \o none) > MAXSERVERS)
      BY <1>1, <1>2, <1>4, <1>6
    <3>2. PICK skip : skip = Skip
      OBVIOUS
    <3>3. ~skip.error /\ skip.servers = none
      <4>1. skip = [error |-> FALSE, servers |-> none]
        BY <1>5, <3>2
      <4> QED BY <4>1
    <3>4. Take(st, skip) = [ok |-> TRUE, servers |-> wanted]
      BY <1>4, <2>2, <3>1, <3>3 DEF Take
    <3> QED BY <2>1, <3>2, <3>4
  <2>4. Take(st, Error) = [ok |-> FALSE, servers |-> wanted]
    BY <1>5, <2>2 DEF Take
  <2> QED BY <2>2, <2>3, <2>4
<1>7. CASE ~(n <= MAXSERVERS)
  <2>1. PICK st : st = [ok |-> FALSE, servers |-> SubSeq(wanted, 1, MAXSERVERS)]
    OBVIOUS
  <2>2. Kept(wanted) = st /\ ~st.ok
    BY <1>1, <1>7, <2>1 DEF Kept
  <2>3. \A parsed : Take(st, parsed) = st
    BY <2>2 DEF Take
  <2>4. st = [ok |-> FALSE, servers |-> st.servers]
    BY <2>1
  <2> QED BY <2>2, <2>3, <2>4
<1> QED BY <1>6, <1>7

(* One server more.                                                          *)
LEMMA KeptTakes ==
  ASSUME NEW T, NEW wanted \in Seq(T), NEW x \in T
  PROVE  Take(Kept(wanted), [error |-> FALSE, servers |-> <<x>>]) = Kept(wanted \o <<x>>)
<1>1. PICK n \in Nat : n = Len(wanted)
  OBVIOUS
<1>2. PICK one : one = <<x>>
  OBVIOUS
<1>3. PICK more : more = wanted \o one
  OBVIOUS
<1>4. MAXSERVERS \in Nat
  BY ConfigAssumption DEF ConfigAssumption
<1>5. /\ more \in Seq(T) /\ Len(more) = n + 1
      /\ \A i \in 0..n : SubSeq(more, 1, i) = SubSeq(wanted, 1, i)
  <2>1. more = Append(wanted, x)
    BY <1>2, <1>3, AppendIsConcat
  <2> QED BY <1>1, <2>1, CutBefore
<1>6. SubSeq(wanted, 1, n) = wanted
  BY <1>1, GrowsByOne
<1>7. PICK given : given = [error |-> FALSE, servers |-> one]
  OBVIOUS
<1>8. ~given.error /\ given.servers = one
  BY <1>7
<1>9. CASE n <= MAXSERVERS
  <2>1. PICK st : st = [ok |-> TRUE, servers |-> wanted]
    OBVIOUS
  <2>2. Kept(wanted) = st
    BY <1>1, <1>9, <2>1 DEF Kept
  <2>3. st.ok /\ st.servers = wanted
    BY <2>1
  <2>4. [st EXCEPT !.ok = FALSE] = [ok |-> FALSE, servers |-> wanted]
    <3>1. \A k, m : [[ok |-> k, servers |-> wanted] EXCEPT !.ok = m]
                      = [ok |-> m, servers |-> wanted]
      OBVIOUS
    <3> QED BY <2>1, <3>1, Zenon
  <2>5. CASE n + 1 <= MAXSERVERS
    <3>1. ~(Len(more) > MAXSERVERS) /\ Len(more) <= MAXSERVERS
      BY <1>4, <1>5, <2>5
    <3>2. Kept(more) = [ok |-> TRUE, servers |-> more]
      BY <3>1 DEF Kept
    <3>3. Take(st, given) = [ok |-> TRUE, servers |-> more]
      BY <1>3, <1>8, <2>3, <3>1 DEF Take
    <3> QED BY <1>2, <1>3, <1>7, <2>2, <3>2, <3>3
  <2>6. CASE ~(n + 1 <= MAXSERVERS)
    <3>1. Len(more) > MAXSERVERS /\ ~(Len(more) <= MAXSERVERS) /\ MAXSERVERS = n /\ n \in 0..n
      BY <1>4, <1>5, <1>9, <2>6
    <3>2. Kept(more) = [ok |-> FALSE, servers |-> wanted]
      BY <1>5, <1>6, <3>1 DEF Kept
    <3>3. Take(st, given) = [ok |-> FALSE, servers |-> wanted]
      BY <1>3, <1>8, <2>3, <2>4, <3>1 DEF Take
    <3> QED BY <1>2, <1>3, <1>7, <2>2, <3>2, <3>3
  <2> QED BY <2>5, <2>6
<1>10. CASE ~(n <= MAXSERVERS)
  <2>1. PICK st : st = [ok |-> FALSE, servers |-> SubSeq(wanted, 1, MAXSERVERS)]
    OBVIOUS
  <2>2. Kept(wanted) = st /\ ~st.ok
    BY <1>1, <1>10, <2>1 DEF Kept
  <2>3. Take(st, given) = st
    BY <2>2 DEF Take
  <2>4. ~(Len(more) <= MAXSERVERS) /\ MAXSERVERS \in 0..n
    BY <1>4, <1>5, <1>10
  <2>5. Kept(more) = st
    BY <1>5, <2>1, <2>4 DEF Kept
  <2> QED BY <1>2, <1>3, <1>7, <2>2, <2>3, <2>5
<1> QED BY <1>9, <1>10

(* Three sequences behind each other.                                        *)
LEMMA JoinedInAnyOrder ==
  ASSUME NEW B, NEW r \in Seq(B), NEW s \in Seq(B), NEW t \in Seq(B)
  PROVE  r \o (s \o t) = (r \o s) \o t
  BY SMTT(30), ConcatAssociative

(* The servers that entries speak of.                                        *)
Listed == {entry.server : entry \in Entries}

(* The lines of entries give their servers, up to what the table holds.      *)
LEMMA EntriesRead ==
  ASSUME NEW entries \in Seq(Entries), NEW type, NEW wanted \in Seq(Listed)
  PROVE  /\ WrittenAll(entries) \in Texts /\ Len(WrittenAll(entries)) = Len(entries)
         /\ \A i \in 1..Len(entries) : IsLine(WrittenAll(entries)[i], 1)
         /\ wanted \o ServersFor(entries, type) \in Seq(Listed)
         /\ ReadsTo(Kept(wanted), WrittenAll(entries), type,
                    Kept(wanted \o ServersFor(entries, type)))
<1>0. \A r, s, t \in Seq(Listed) : r \o (s \o t) = (r \o s) \o t
  BY SMTT(30), JoinedInAnyOrder
<1>1. PICK n \in Nat : n = Len(entries)
  OBVIOUS
<1> DEFINE Line(i) == Written(entries[i])
           lines == [i \in 1..n |-> Line(i)]
           One(i) == IF entries[i].type = type THEN <<entries[i].server>> ELSE << >>
           ones == [i \in 1..n |-> One(i)]
<1>2. ASSUME NEW i \in 1..n
      PROVE  /\ IsLine(Line(i), 1) /\ Line(i) \in Seq(Symbols) /\ One(i) \in Seq(Listed)
             /\ ParseLine(Line(i), type) = [error |-> FALSE, servers |-> One(i)]
             /\ One(i) = << >> \/ \E x \in Listed : One(i) = <<x>>
  <2>1. PICK e \in Entries : e = entries[i]
    BY <1>1
  <2>2. IsEntry(e)
    BY FileAssumption DEF FileAssumption
  <2>3. IsLine(Written(e), 2)
    BY <2>2 DEF IsEntry
  <2>4. IsLine(Written(e), 1) /\ Written(e) \in Seq(Symbols)
    BY <2>3, ConfigAssumption DEF IsLine, ConfigAssumption
  <2>5. ParseLine(Written(e), type) = [error |-> FALSE, servers |-> Given(e, type)]
    BY <2>2, EntryReads
  <2>6. e.server \in Listed
    BY DEF Listed
  <2>7. Given(e, type) = << >> \/ Given(e, type) = <<e.server>>
    BY DEF Given
  <2>8. Given(e, type) \in Seq(Listed)
    <3>1. <<e.server>> \in Seq(Listed)
      BY <2>6, ShortSequences
    <3>2. << >> \in Seq(Listed)
      BY EmptySeq
    <3> QED BY <2>7, <3>1, <3>2
  <2>9. One(i) = Given(e, type) /\ Line(i) = Written(e)
    BY <2>1 DEF Given
  <2> HIDE DEF One, Line
  <2> QED BY <2>4, <2>5, <2>6, <2>7, <2>8, <2>9
<1>3. /\ lines \in [1..n -> Seq(Symbols)] /\ \A i \in 1..n : lines[i] = Line(i)
      /\ ones \in [1..n -> Seq(Listed)] /\ \A i \in 1..n : ones[i] = One(i)
  BY <1>2
<1>4. WrittenAll(entries) = lines /\ ServersFor(entries, type) = FlattenSeq(ones)
  BY <1>1 DEF WrittenAll, ServersFor
<1> HIDE DEF lines, ones, One, Line
<1>5. lines \in Texts /\ Len(lines) = n
  BY <1>3 DEF Texts
<1>6. PICK before \in [0..n -> Seq(Listed)] :
        /\ before[0] = << >>
        /\ \A i \in 1..n : before[i] = before[i - 1] \o ones[i]
        /\ FlattenSeq(ones) = before[n]
  <2>1. ones \in [1..n -> Seq(Listed)]
    BY <1>3
  <2> QED BY <2>1, FlattenSteps
<1> DEFINE f == [i \in 0..n |-> Kept(wanted \o before[i])]
<1>7. \A i \in 0..n : before[i] \in Seq(Listed) /\ wanted \o before[i] \in Seq(Listed)
  <2>1. ASSUME NEW i \in 0..n PROVE before[i] \in Seq(Listed) /\ wanted \o before[i] \in Seq(Listed)
    <3>1. before[i] \in Seq(Listed)
      BY <1>6
    <3> QED BY <3>1, JoinedSequences
  <2> QED BY <2>1
<1>8. f[0] = Kept(wanted) /\ f[n] = Kept(wanted \o before[n])
  <2>1. wanted \o << >> = wanted
    BY ConcatEmptySeq
  <2>2. 0 \in 0..n /\ n \in 0..n
    OBVIOUS
  <2>3. \A i \in 0..n : f[i] = Kept(wanted \o before[i])
    OBVIOUS
  <2> HIDE DEF f
  <2> QED BY <1>6, <2>1, <2>2, <2>3
<1>9. ASSUME NEW i \in 1..n PROVE f[i] = Take(f[i - 1], ParseLine(lines[i], type))
  <2>1. i \in 0..n /\ i - 1 \in 0..n
    OBVIOUS
  <2>2. PICK w \in Seq(Listed) : w = wanted \o before[i - 1]
    BY <1>7, <2>1
  <2>3. f[i] = Kept(wanted \o before[i]) /\ f[i - 1] = Kept(w)
    BY <2>1, <2>2
  <2>4. before[i] = before[i - 1] \o One(i)
    BY <1>3, <1>6
  <2>5. wanted \o before[i] = w \o One(i)
    <3>1. before[i - 1] \in Seq(Listed) /\ One(i) \in Seq(Listed)
      BY <1>2, <1>7, <2>1
    <3>2. PICK b \in Seq(Listed) : b = before[i - 1]
      BY <3>1
    <3>3. PICK o \in Seq(Listed) : o = One(i)
      BY <3>1
    <3>4. wanted \o (b \o o) = (wanted \o b) \o o
      BY ZenonT(30), <1>0, <3>2, <3>3
    <3> QED BY <2>2, <2>4, <3>2, <3>3, <3>4
  <2>6. ParseLine(lines[i], type) = [error |-> FALSE, servers |-> One(i)]
    BY <1>2, <1>3
  <2> HIDE DEF f
  <2>7. CASE One(i) = << >>
    <3>1. w \o << >> = w
      BY ConcatEmptySeq
    <3>2. [error |-> FALSE, servers |-> One(i)] = Skip
      BY <2>7 DEF Skip
    <3>3. Take(Kept(w), Skip) = Kept(w)
      BY KeptStays
    <3> QED BY <2>3, <2>5, <2>6, <2>7, <3>1, <3>2, <3>3
  <2>8. CASE \E x \in Listed : One(i) = <<x>>
    <3>1. PICK x \in Listed : One(i) = <<x>>
      BY <2>8
    <3>2. Take(Kept(w), [error |-> FALSE, servers |-> <<x>>]) = Kept(w \o <<x>>)
      BY KeptTakes
    <3> QED BY <2>3, <2>5, <2>6, <3>1, <3>2
  <2> QED BY <1>2, <2>7, <2>8
<1> HIDE DEF f
<1>10. ReadsTo(Kept(wanted), lines, type, Kept(wanted \o FlattenSeq(ones)))
  BY <1>5, <1>6, <1>8, <1>9 DEF ReadsTo
<1>11. wanted \o FlattenSeq(ones) \in Seq(Listed)
  <2>1. n \in 0..n
    OBVIOUS
  <2> QED BY <1>6, <1>7, <2>1
<1>12. \A i \in 1..n : IsLine(lines[i], 1)
  BY <1>2, <1>3
<1> QED BY <1>1, <1>4, <1>5, <1>10, <1>11, <1>12

(* Lines behind lines fit into the buffer if all of them do.                 *)
LEMMA JoinedFit ==
  ASSUME NEW s \in Texts, NEW t \in Texts,
         \A i \in 1..Len(s) : IsLine(s[i], 1), \A i \in 1..Len(t) : IsLine(t[i], 1)
  PROVE  s \o t \in Texts /\ \A i \in 1..Len(s \o t) : IsLine((s \o t)[i], 1)
<1>1. PICK m \in Nat : m = Len(s)
  BY DEF Texts
<1>2. PICK n \in Nat : n = Len(t)
  BY DEF Texts
<1>3. PICK u : u = s \o t
  OBVIOUS
<1>4. /\ u \in Texts /\ Len(u) = m + n
      /\ \A i \in 1..m : u[i] = s[i]
      /\ \A i \in 1..n : u[m + i] = t[i]
  <2>1. s \in Seq(Seq(Symbols)) /\ t \in Seq(Seq(Symbols))
    BY DEF Texts
  <2> QED BY <1>1, <1>2, <1>3, <2>1, JoinedSequences DEF Texts
<1>5. ASSUME NEW i \in 1..(m + n) PROVE IsLine(u[i], 1)
  <2>1. CASE i <= m
    <3>1. i \in 1..m
      BY <2>1
    <3> QED BY <1>1, <1>4, <3>1
  <2>2. CASE ~(i <= m)
    <3>1. PICK j \in 1..n : i = m + j
      <4>1. i - m \in 1..n /\ i = m + (i - m)
        BY <2>2
      <4> QED BY <4>1
    <3> QED BY <1>2, <1>4, <3>1
  <2> QED BY <2>1, <2>2
<1> QED BY <1>3, <1>4, <1>5

(* What a sequence of up to n elements is.                                   *)
LEMMA UpTo ==
  ASSUME NEW S, NEW n \in Nat, NEW s \in SeqOf(S, n)
  PROVE  s \in Seq(S) /\ Len(s) <= n
<1>1. PICK m \in 0..n : s \in [1..m -> S]
  BY DEF SeqOf
<1> QED BY <1>1

(* A line between entries.                                                   *)
LEMMA BetweenReads ==
  ASSUME NEW line \in Asides \cup Mistakes, NEW type
  PROVE  /\ IsLine(line, 1)
         /\ line \in Mistakes => ParseLine(line, type) = Error
         /\ line \notin Mistakes => ParseLine(line, type) = Skip
<1>1. CASE line \in Mistakes
  <2>1. PICK fault \in Faults : line = Mistaken(fault)
    BY <1>1 DEF Mistakes
  <2>2. IsFault(fault)
    BY FileAssumption DEF FileAssumption
  <2> QED BY <1>1, <2>1, <2>2, FaultFails DEF IsFault
<1>2. CASE line \notin Mistakes
  <2>1. IsAside(line)
    BY <1>2, FileAssumption DEF FileAssumption
  <2> QED BY <1>2, <2>1, AsideSkips DEF IsAside
<1> QED BY <1>1, <1>2

(* What rad_config makes of a file of any number of entries with a comment,  *)
(* a blank line or a mistake among them, on a handle that has any servers    *)
(* already: the servers up to the first mistake, or until the table is full. *)
THEOREM FilesAreReadBack ==
  ASSUME NEW first \in Seq(Entries), NEW then \in Seq(Entries),
         NEW between \in Asides \cup Mistakes, NEW type,
         NEW had \in Seq(Listed), Len(had) <= MAXSERVERS
  PROVE  LET file == Ended(WrittenAll(first) \o <<between>> \o WrittenAll(then))
             wanted == had \o ServersFor(first, type)
                         \o (IF between \in Mistakes THEN << >> ELSE ServersFor(then, type))
             read == Config(file, type, had, "LF")
         IN  /\ read.servers = SubSeq(wanted, 1, Min({MAXSERVERS, Len(wanted)}))
             /\ read.ok <=> between \notin Mistakes /\ Len(wanted) <= MAXSERVERS
<1>1. first \in Seq(Entries) /\ then \in Seq(Entries) /\ had \in Seq(Listed)
  OBVIOUS
<1>2. Kept(had) = [ok |-> TRUE, servers |-> had]
  BY DEF Kept
<1>3. PICK a : a = WrittenAll(first)
  OBVIOUS
<1>4. PICK b : b = <<between>>
  OBVIOUS
<1>5. PICK c : c = WrittenAll(then)
  OBVIOUS
<1>6. PICK w : w = had \o ServersFor(first, type)
  OBVIOUS
<1>7. /\ a \in Texts /\ (\A i \in 1..Len(a) : IsLine(a[i], 1)) /\ w \in Seq(Listed)
      /\ ReadsTo(Kept(had), a, type, Kept(w))
  BY <1>1, <1>3, <1>6, EntriesRead
<1>8. PICK x : x = w \o ServersFor(then, type)
  OBVIOUS
<1>9. /\ c \in Texts /\ (\A i \in 1..Len(c) : IsLine(c[i], 1)) /\ x \in Seq(Listed)
      /\ ReadsTo(Kept(w), c, type, Kept(x))
  BY <1>1, <1>5, <1>7, <1>8, EntriesRead
<1>10. /\ b \in Texts /\ (\A i \in 1..Len(b) : IsLine(b[i], 1))
       /\ ReadsTo(Kept(w), b, type, Take(Kept(w), ParseLine(between, type)))
  <2>1. IsLine(between, 1) /\ between \in Seq(Symbols)
    BY BetweenReads DEF IsLine
  <2>2. b \in Seq(Seq(Symbols)) /\ Len(b) = 1 /\ b[1] = between
    BY <1>4, <2>1, ShortHave
  <2>3. \A i \in 1..1 : i = 1
    OBVIOUS
  <2> QED BY <1>4, <2>1, <2>2, <2>3, ReadsOne DEF Texts
<1>11. PICK lines : lines = (a \o b) \o c
  OBVIOUS
<1>12. /\ a \o b \in Texts /\ lines \in Texts /\ \A i \in 1..Len(lines) : IsLine(lines[i], 1)
  BY <1>7, <1>9, <1>10, <1>11, JoinedFit
<1>13. ASSUME NEW m, NEW end,
              Take(Kept(w), ParseLine(between, type)) = m, ReadsTo(m, c, type, end)
       PROVE  Config(Ended(lines), type, had, "LF") = end
  <2>1. ReadsTo(Kept(had), a \o b, type, m)
    BY <1>7, <1>10, <1>13, ReadsOn
  <2>2. ReadsTo(Kept(had), lines, type, end)
    BY <1>9, <1>11, <1>12, <1>13, <2>1, ReadsOn
  <2>3. ReadsTo([ok |-> TRUE, servers |-> had], lines, type, end)
    BY <1>2, <2>2
  <2> QED BY <1>12, <2>3, EndedReads
<1>14. CASE between \in Mistakes
  <2>1. PICK bad : bad = [ok |-> FALSE, servers |-> Kept(w).servers]
    OBVIOUS
  <2>2. ~bad.ok /\ bad.servers = Kept(w).servers
    BY <2>1
  <2>3. Take(Kept(w), ParseLine(between, type)) = bad
    BY <1>7, <1>14, <2>1, BetweenReads, KeptStays
  <2>4. ReadsTo(bad, c, type, bad)
    BY <1>9, <2>2, ReadsNowhere
  <2>5. Config(Ended(lines), type, had, "LF") = bad
    BY <1>13, <2>3, <2>4
  <2>6. w \o << >> = w
    BY <1>7, ConcatEmptySeq
  <2>7. bad.servers = SubSeq(w, 1, Min({MAXSERVERS, Len(w)}))
    BY <1>7, <2>2, KeptIs
  <2> QED BY <1>3, <1>4, <1>5, <1>6, <1>11, <1>14, <2>2, <2>5, <2>6, <2>7
<1>15. CASE between \notin Mistakes
  <2>1. Take(Kept(w), ParseLine(between, type)) = Kept(w)
    BY <1>7, <1>15, BetweenReads, KeptStays
  <2>2. Config(Ended(lines), type, had, "LF") = Kept(x)
    BY <1>9, <1>13, <2>1
  <2>3. /\ Kept(x).servers = SubSeq(x, 1, Min({MAXSERVERS, Len(x)}))
        /\ Kept(x).ok <=> Len(x) <= MAXSERVERS
    BY <1>9, KeptIs
  <2> QED BY <1>3, <1>4, <1>5, <1>6, <1>8, <1>11, <1>15, <2>2, <2>3
<1> QED BY <1>14, <1>15

(* The files FilesReadBack names are among them.                             *)
THEOREM ShortFilesAreReadBack == FilesReadBack
<1> SUFFICES ASSUME NEW first \in SeqOf(Entries, 2), NEW then \in SeqOf(Entries, 1),
                    NEW between \in Asides \cup Mistakes, NEW type \in {"auth", "acct"},
                    NEW had \in SeqOf(Listed, 1)
             PROVE  LET file == Ended(WrittenAll(first) \o <<between>> \o WrittenAll(then))
                        wanted == had \o ServersFor(first, type)
                                    \o (IF between \in Mistakes THEN << >>
                                        ELSE ServersFor(then, type))
                        read == Config(file, type, had, "LF")
                    IN  /\ read.servers = SubSeq(wanted, 1, Min({MAXSERVERS, Len(wanted)}))
                        /\ read.ok <=> between \notin Mistakes /\ Len(wanted) <= MAXSERVERS
  BY DEF FilesReadBack, Listed
<1>1. first \in Seq(Entries) /\ then \in Seq(Entries) /\ had \in Seq(Listed)
  BY UpTo
<1>2. Len(had) <= MAXSERVERS
  <2>1. Len(had) <= 1
    BY UpTo
  <2> QED BY <1>1, <2>1, ConfigAssumption DEF ConfigAssumption
<1> QED BY <1>1, <1>2, FilesAreReadBack

-----------------------------------------------------------------------------
(* Lines without a newline.                                                  *)

(* One piece behind the other, or alone.                                     *)
LEMMA FlattenShort ==
  ASSUME NEW B, NEW s \in Seq(B), NEW t \in Seq(B)
  PROVE  /\ FlattenSeq([i \in 1..1 |-> s]) = s
         /\ FlattenSeq([i \in 1..2 |-> IF i = 1 THEN s ELSE t]) = s \o t
<1>1. << >> \o s = s
  BY ConcatEmptySeq
<1>2. FlattenSeq([i \in 1..1 |-> s]) = s
  <2> DEFINE seqs == [i \in 1..1 |-> s]
  <2>1. seqs \in [1..1 -> Seq(B)] /\ seqs[1] = s
    OBVIOUS
  <2> HIDE DEF seqs
  <2>2. PICK before \in [0..1 -> Seq(B)] :
          /\ before[0] = << >>
          /\ \A i \in 1..1 : before[i] = before[i - 1] \o seqs[i]
          /\ FlattenSeq(seqs) = before[1]
    <3>1. PICK n \in Nat : n = 1
      OBVIOUS
    <3>2. seqs \in [1..n -> Seq(B)]
      BY <2>1, <3>1
    <3>3. \E before \in [0..n -> Seq(B)] :
            /\ before[0] = << >>
            /\ \A i \in 1..n : before[i] = before[i - 1] \o seqs[i]
            /\ FlattenSeq(seqs) = before[n]
      BY <3>2, FlattenSteps
    <3> QED BY <3>1, <3>3
  <2>3. before[1] = before[0] \o seqs[1]
    <3>1. 1 \in 1..1 /\ 1 - 1 = 0
      OBVIOUS
    <3> QED BY <2>2, <3>1
  <2>4. FlattenSeq(seqs) = s
    BY <1>1, <2>1, <2>2, <2>3
  <2> QED BY <2>4 DEF seqs
<1>3. FlattenSeq([i \in 1..2 |-> IF i = 1 THEN s ELSE t]) = s \o t
  <2> DEFINE seqs == [i \in 1..2 |-> IF i = 1 THEN s ELSE t]
  <2>1. seqs \in [1..2 -> Seq(B)] /\ seqs[1] = s /\ seqs[2] = t
    OBVIOUS
  <2> HIDE DEF seqs
  <2>2. PICK before \in [0..2 -> Seq(B)] :
          /\ before[0] = << >>
          /\ \A i \in 1..2 : before[i] = before[i - 1] \o seqs[i]
          /\ FlattenSeq(seqs) = before[2]
    <3>1. PICK n \in Nat : n = 2
      OBVIOUS
    <3>2. seqs \in [1..n -> Seq(B)]
      BY <2>1, <3>1
    <3>3. \E before \in [0..n -> Seq(B)] :
            /\ before[0] = << >>
            /\ \A i \in 1..n : before[i] = before[i - 1] \o seqs[i]
            /\ FlattenSeq(seqs) = before[n]
      BY <3>2, FlattenSteps
    <3> QED BY <3>1, <3>3
  <2>3. before[1] = before[0] \o seqs[1] /\ before[2] = before[1] \o seqs[2]
    <3>1. 1 \in 1..2 /\ 2 \in 1..2 /\ 1 - 1 = 0 /\ 2 - 1 = 1
      OBVIOUS
    <3> QED BY <2>2, <3>1
  <2>4. FlattenSeq(seqs) = s \o t
    BY <1>1, <2>1, <2>2, <2>3
  <2> QED BY <2>4 DEF seqs
<1> QED BY <1>2, <1>3

(* A line that fits into the buffer with c behind it, and is p with c.       *)
Joins(p, line, c) == p = line \o <<c>>
Fits(line, c) ==
  /\ line \in Seq(Symbols) /\ c \in Symbols /\ Len(line) + 1 < MAXCONFLINE
  /\ \A i \in 1..Len(line) : line[i] # "LF"
  /\ c = "LF" \/ (line # << >> /\ line[Len(line)] # "CR")

(* A piece of which line counts.                                             *)
PieceOf(p, line) ==
  /\ p \in Seq(Symbols) /\ Front(p) = line
  /\ \A st, parsed, garbage : ReadLine(st, p, parsed, garbage) = Take(st, parsed)

(* Pieces at the end of a file, and anywhere.                                *)
IsEnd(piece) == IsPiece(piece, TRUE)
IsMiddle(piece) == IsPiece(piece, FALSE)

(* The first of two lines ends with a newline or fills the buffer.           *)
LEMMA FittingPiece ==
  ASSUME NEW line, NEW c, Fits(line, c), NEW p, Joins(p, line, c)
  PROVE  /\ PieceOf(p, line) /\ IsEnd(p)
         /\ c = "LF" \/ Len(line) + 2 = MAXCONFLINE => IsMiddle(p)
<1>1. /\ line \in Seq(Symbols) /\ c \in Symbols /\ Len(line) + 1 < MAXCONFLINE
      /\ \A i \in 1..Len(line) : line[i] # "LF"
      /\ c = "LF" \/ (line # << >> /\ line[Len(line)] # "CR")
  BY DEF Fits
<1>2. PICK k \in Nat : k = Len(line)
  BY <1>1
<1>4. /\ p \in Seq(Symbols) /\ Len(p) = k + 1 /\ p[k + 1] = c
      /\ \A i \in 1..k : p[i] = line[i]
      /\ Front(p) = line
      /\ \A st, parsed, garbage : ReadLine(st, p, parsed, garbage) = Take(st, parsed)
  BY <1>1, <1>2, CutLine DEF Joins
<1>5. Len(p) \in 1..(MAXCONFLINE - 1) /\ Len(p) - 1 = k
  BY <1>1, <1>2, <1>4, ConfigAssumption DEF ConfigAssumption
<1>6. \A j \in 1..k : p[j] # "LF"
  BY <1>1, <1>2, <1>4
<1>7. IsEnd(p)
  BY <1>4, <1>5, <1>6 DEF IsPiece, IsEnd
<1>8. c = "LF" \/ Len(line) + 2 = MAXCONFLINE => IsMiddle(p)
  <2>1. CASE c = "LF"
    BY <1>4, <1>5, <1>6, <2>1 DEF IsPiece, IsMiddle
  <2>2. CASE Len(line) + 2 = MAXCONFLINE
    <3>1. Len(p) = MAXCONFLINE - 1
      BY <1>2, <1>4, <2>2, ConfigAssumption DEF ConfigAssumption
    <3> QED BY <1>4, <1>5, <1>6, <3>1 DEF IsPiece, IsMiddle
  <2> QED BY <2>1, <2>2
<1>9. PieceOf(p, line)
  BY <1>4 DEF PieceOf
<1> QED BY <1>7, <1>8, <1>9

(* What is a piece in the middle of a file is one at its end, too.           *)
LEMMA PieceAnywhere ==
  ASSUME NEW p, IsMiddle(p), NEW i, NEW n PROVE IsPiece(p, i = n)
  BY DEF IsPiece, IsMiddle

(* A file of one line.                                                       *)
LEMMA OneLineReads ==
  ASSUME NEW line, NEW c, Fits(line, c), NEW type, NEW servers, NEW garbage, NEW end,
         Take([ok |-> TRUE, servers |-> servers], ParseLine(line, type)) = end
  PROVE  Config(line \o <<c>>, type, servers, garbage) = end
<1>1. PICK p : p = line \o <<c>> /\ Joins(p, line, c)
  BY DEF Joins
<1>2. /\ p \in Seq(Symbols) /\ Front(p) = line /\ IsEnd(p)
      /\ \A st, parsed, g : ReadLine(st, p, parsed, g) = Take(st, parsed)
  <2>1. Joins(p, line, c)
    BY <1>1
  <2>2. PieceOf(p, line) /\ IsEnd(p)
    BY <2>1, FittingPiece
  <2> QED BY <2>2 DEF PieceOf
<1> DEFINE pieces == [i \in 1..1 |-> p]
           lines == <<line>>
<1>3. pieces \in [1..1 -> Seq(Symbols)] /\ \A i \in 1..1 : pieces[i] = p /\ i = 1
  BY <1>2
<1>4. lines \in Texts /\ Len(lines) = 1 /\ lines[1] = line
  <2>1. line \in Seq(Symbols)
    BY DEF Fits
  <2> QED BY <2>1, ShortHave DEF Texts
<1>5. FlattenSeq(pieces) = p
  BY <1>2, FlattenShort
<1>6. ReadsTo([ok |-> TRUE, servers |-> servers], lines, type, end)
  BY ReadsOne
<1> HIDE DEF pieces, lines
<1>7. ReadPieces(1, pieces, lines)
  <2>1. ASSUME NEW i \in 1..1
        PROVE  /\ IsPiece(pieces[i], i = 1) /\ Front(pieces[i]) = lines[i]
               /\ \A st, parsed, g : ReadLine(st, pieces[i], parsed, g) = Take(st, parsed)
    <3>1. IsPiece(p, i = 1)
      BY <1>2, <1>3 DEF IsPiece, IsEnd
    <3> QED BY <1>2, <1>3, <1>4, <3>1
  <2> QED BY <1>3, <1>4, <2>1 DEF ReadPieces
<1>8. Config(FlattenSeq(pieces), type, servers, garbage) = end
  BY <1>6, <1>7, ConfigReads
<1> QED BY <1>1, <1>5, <1>8

(* A file of two.                                                            *)
LEMMA TwoLinesRead ==
  ASSUME NEW line, NEW c, Fits(line, c), c = "LF" \/ Len(line) + 2 = MAXCONFLINE,
         NEW rest, Fits(rest, "LF"), NEW type, NEW servers, NEW garbage, NEW mid, NEW end,
         Take([ok |-> TRUE, servers |-> servers], ParseLine(line, type)) = mid,
         Take(mid, ParseLine(rest, type)) = end
  PROVE  Config((line \o <<c>>) \o (rest \o <<"LF">>), type, servers, garbage) = end
<1>1. PICK p : p = line \o <<c>> /\ Joins(p, line, c)
  BY DEF Joins
<1>2. /\ p \in Seq(Symbols) /\ Front(p) = line /\ IsMiddle(p)
      /\ \A st, parsed, g : ReadLine(st, p, parsed, g) = Take(st, parsed)
  <2>1. Joins(p, line, c)
    BY <1>1
  <2>2. PieceOf(p, line) /\ IsMiddle(p)
    BY <2>1, FittingPiece
  <2> QED BY <2>2 DEF PieceOf
<1>3. PICK q : q = rest \o <<"LF">> /\ Joins(q, rest, "LF")
  BY DEF Joins
<1>4. /\ q \in Seq(Symbols) /\ Front(q) = rest /\ IsMiddle(q)
      /\ \A st, parsed, g : ReadLine(st, q, parsed, g) = Take(st, parsed)
  <2>1. Joins(q, rest, "LF")
    BY <1>3
  <2>2. PieceOf(q, rest) /\ IsMiddle(q)
    BY <2>1, FittingPiece
  <2> QED BY <2>2 DEF PieceOf
<1> DEFINE pieces == [i \in 1..2 |-> IF i = 1 THEN p ELSE q]
           lines == <<line, rest>>
<1>5. /\ pieces \in [1..2 -> Seq(Symbols)] /\ pieces[1] = p /\ pieces[2] = q
      /\ \A i \in 1..2 : i = 1 \/ i = 2
  BY <1>2, <1>4
<1>6. line \in Seq(Symbols) /\ rest \in Seq(Symbols)
  BY DEF Fits
<1>7. lines \in Texts /\ Len(lines) = 2 /\ lines[1] = line /\ lines[2] = rest
  BY <1>6, ShortHave DEF Texts
<1>8. FlattenSeq(pieces) = p \o q
  <2>1. p \in Seq(Symbols)
    BY <1>2
  <2>2. q \in Seq(Symbols)
    BY <1>4
  <2> QED BY <2>1, <2>2, FlattenShort
<1>9. ReadsTo([ok |-> TRUE, servers |-> servers], lines, type, end)
  <2>1. lines = <<line>> \o <<rest>>
    BY <1>6, ShortSequences
  <2>2. <<line>> \in Texts /\ <<rest>> \in Texts
    BY <1>6, ShortHave DEF Texts
  <2>3. ReadsTo([ok |-> TRUE, servers |-> servers], <<line>>, type, mid)
    BY ReadsOne
  <2>4. ReadsTo(mid, <<rest>>, type, end)
    BY ReadsOne
  <2> HIDE DEF lines
  <2> QED BY <2>1, <2>2, <2>3, <2>4, ReadsOn
<1> HIDE DEF pieces, lines
<1>10. ReadPieces(2, pieces, lines)
  <2>1. ASSUME NEW i \in 1..2
        PROVE  /\ IsPiece(pieces[i], i = 2) /\ Front(pieces[i]) = lines[i]
               /\ \A st, parsed, g : ReadLine(st, pieces[i], parsed, g) = Take(st, parsed)
    <3>1. CASE i = 1
      <4>1. IsPiece(p, i = 2)
        BY <1>2, PieceAnywhere
      <4> QED BY <1>2, <1>5, <1>7, <3>1, <4>1
    <3>2. CASE i = 2
      <4>1. IsPiece(q, i = 2)
        BY <1>4, PieceAnywhere
      <4> QED BY <1>4, <1>5, <1>7, <3>2, <4>1
    <3> QED BY <3>1, <3>2
  <2> QED BY <1>5, <1>7, <2>1 DEF ReadPieces
<1>11. Config(FlattenSeq(pieces), type, servers, garbage) = end
  BY <1>9, <1>10, ConfigReads
<1> QED BY <1>1, <1>3, <1>8, <1>11

(* A line that ends with a carriage return and something else is refused.    *)
LEMMA BareReturnFails ==
  ASSUME NEW line \in Seq(Symbols), Len(line) + 2 < MAXCONFLINE,
         \A i \in 1..Len(line) : line[i] # "LF",
         NEW c \in Symbols, c # "LF", NEW type, NEW servers, NEW garbage
  PROVE  ~Config(line \o <<"CR", c>>, type, servers, garbage).ok
<1>1. PICK k \in Nat : k = Len(line)
  OBVIOUS
<1>2. PICK u : u = <<"CR", c>>
  OBVIOUS
<1>3. u \in Seq(Symbols) /\ Len(u) = 2 /\ u[1] = "CR" /\ u[2] = c
  BY <1>2, ShortHave, SymbolsOfFiles
<1>4. PICK p : p = line \o u
  OBVIOUS
<1>5. /\ p \in Seq(Symbols) /\ Len(p) = k + 2 /\ p[k + 1] = "CR" /\ p[k + 2] = c
      /\ \A i \in 1..k : p[i] = line[i]
  <2>1. u \in Seq(Symbols)
    BY <1>3
  <2>2. /\ p \in Seq(Symbols) /\ Len(p) = Len(line) + Len(u)
        /\ \A j \in 1..Len(line) : p[j] = line[j]
        /\ \A j \in 1..Len(u) : p[Len(line) + j] = u[j]
    BY <1>4, <2>1, JoinedSequences
  <2>3. 1 \in 1..2 /\ 2 \in 1..2
    OBVIOUS
  <2> QED BY <1>1, <1>3, <2>2, <2>3
<1>6. IsPiece(p, 1 = 1)
  <2>1. Len(p) \in 1..(MAXCONFLINE - 1)
    BY <1>1, <1>5, ConfigAssumption DEF ConfigAssumption
  <2>2. ASSUME NEW i \in 1..(Len(p) - 1) PROVE p[i] # "LF"
    <3>1. CASE i \in 1..k
      BY <1>1, <1>5, <3>1
    <3>2. CASE i = k + 1
      BY <1>5, <3>2
    <3> QED BY <1>5, <3>1, <3>2
  <2> QED BY <1>5, <2>1, <2>2 DEF IsPiece
<1> DEFINE pieces == [i \in 1..1 |-> p]
<1>7. pieces \in [1..1 -> Seq(Symbols)] /\ \A i \in 1..1 : pieces[i] = p /\ i = 1
  BY <1>5
<1>8. FlattenSeq(pieces) = p
  BY <1>5, FlattenShort
<1> HIDE DEF pieces
<1>9. PICK lines : lines = Lines(p)
  OBVIOUS
<1>10. Len(lines) = 1 /\ lines[1] = p
  <2>1. \A i \in 1..1 : IsPiece(pieces[i], i = 1)
    BY <1>6, <1>7
  <2>2. /\ Len(Lines(FlattenSeq(pieces))) = 1
        /\ \A i \in 1..1 : Lines(FlattenSeq(pieces))[i] = pieces[i]
    BY <1>7, <2>1, LinesArePieces
  <2>3. 1 \in 1..1
    OBVIOUS
  <2> QED BY <1>7, <1>8, <1>9, <2>2, <2>3
<1>11. PICK after : /\ ReadAfter(lines, type, servers, garbage, after)
                    /\ Config(p, type, servers, garbage) = after[Len(lines)]
  BY <1>5, <1>9, ConfigSteps
<1>12. PICK parsed : parsed = ParseLine(Front(p), type)
  OBVIOUS
<1>13. PICK st : st = [ok |-> TRUE, servers |-> servers]
  OBVIOUS
<1>14. after[1] = ReadLine(st, p, parsed, garbage)
  <2>1. 1 \in 1..1 /\ 1 - 1 = 0
    OBVIOUS
  <2> QED BY <1>10, <1>11, <1>12, <1>13, <2>1 DEF ReadAfter
<1>15. NoNewline(p, garbage)
  <2>1. Last(p) = c
    BY <1>5 DEF Last
  <2>2. Len(p) > 1 /\ Len(p) - 1 = k + 1
    BY <1>5
  <2> QED BY <1>5, <2>1, <2>2 DEF NoNewline
<1>16. ReadLine(st, p, parsed, garbage) = [st EXCEPT !.ok = FALSE]
  <2>1. st.ok
    BY <1>13
  <2> QED BY <1>15, <2>1 DEF ReadLine
<1>17. ~[st EXCEPT !.ok = FALSE].ok
  <2>1. \A k2, m : [[ok |-> k2, servers |-> servers] EXCEPT !.ok = m]
                     = [ok |-> m, servers |-> servers]
    OBVIOUS
  <2>2. [st EXCEPT !.ok = FALSE] = [ok |-> FALSE, servers |-> servers]
    BY <1>13, <2>1, Zenon
  <2>3. PICK bad : bad = [ok |-> FALSE, servers |-> servers]
    OBVIOUS
  <2>4. ~bad.ok
    BY <2>3
  <2> QED BY <2>2, <2>3, <2>4
<1> QED BY <1>2, <1>4, <1>10, <1>11, <1>14, <1>16, <1>17

(* What an entry looks like on its line.                                     *)
LEMMA EntryHas ==
  ASSUME NEW entry \in Entries, NEW line, line = Written(entry)
  PROVE  /\ line \in Seq(Symbols) /\ line # << >> /\ Len(line) + 2 < MAXCONFLINE
         /\ \A i \in 1..Len(line) : line[i] # "LF" /\ line[i] # "CR"
<1>1. IsEntry(entry)
  BY FileAssumption DEF FileAssumption
<1>2. "CR" \notin ToSet(line) /\ IsLine(line, 2)
  BY <1>1 DEF IsEntry
<1>3. /\ line \in Seq(Symbols) /\ Len(line) + 2 < MAXCONFLINE
      /\ \A i \in 1..Len(line) : line[i] # "LF" /\ line[i] # "CR"
  BY <1>2 DEF IsLine, ToSet
<1>4. line # << >>
  <2>1. PICK given \in Texts, mode \in {"word", "closed"} :
          Split(line) = At(mode, given) /\ given # << >>
    BY <1>1, EntrySplits
  <2>2. Split(<< >>) = At("space", << >>)
    <3>1. << >> \in Seq(Symbols)
      BY EmptySeq
    <3> QED BY <3>1, SplitsNone, SplitIs
  <2>3. At(mode, given).fields = given /\ At("space", << >>).fields = << >>
    BY DEF At
  <2> QED BY <2>1, <2>2, <2>3
<1> QED BY <1>3, <1>4

(* Blanks up to the end of the buffer.                                       *)
Filled(full, line) == full = line \o [i \in 1..(MAXCONFLINE - 2 - Len(line)) |-> " "]

(* Such a line is as long as the buffer allows.                              *)
LEMMA FullLine ==
  ASSUME NEW line \in Seq(Symbols), Len(line) + 2 < MAXCONFLINE,
         \A i \in 1..Len(line) : line[i] # "LF", NEW full, Filled(full, line)
  PROVE  /\ full \in Seq(Symbols) /\ full # << >> /\ Len(full) + 2 = MAXCONFLINE
         /\ \A i \in 1..Len(full) : full[i] # "LF"
         /\ full[Len(full)] # "CR"
<1>1. PICK k \in Nat : k = Len(line)
  OBVIOUS
<1>2. PICK n \in Nat : n = MAXCONFLINE - 2 - k /\ n > 0 /\ k + n + 2 = MAXCONFLINE
  <2>1. PICK m \in Nat : m = MAXCONFLINE /\ k + 2 < m
    BY <1>1, ConfigAssumption DEF ConfigAssumption
  <2>2. m - 2 - k \in Nat /\ m - 2 - k > 0 /\ k + (m - 2 - k) + 2 = m
    BY <1>1, <2>1
  <2> QED BY <2>1, <2>2
<1>3. PICK blanks : blanks = [i \in 1..n |-> " "]
  OBVIOUS
<1>4. blanks \in Seq(Symbols) /\ Len(blanks) = n /\ \A i \in 1..n : blanks[i] = " "
  <2>1. PICK blank : blank = " " /\ blank \in Symbols
    BY SymbolsOfFiles
  <2>2. blanks = [i \in 1..n |-> blank]
    BY <1>3, <2>1
  <2>3. n \in Nat
    BY <1>2
  <2>4. blanks \in Seq(Symbols) /\ Len(blanks) = n /\ \A i \in 1..n : blanks[i] = blank
    <3>1. blanks \in [1..n -> Symbols] /\ DOMAIN blanks = 1..n /\ \A i \in 1..n : blanks[i] = blank
      BY <2>1, <2>2
    <3>2. blanks \in Seq(Symbols)
      BY <2>3, <3>1
    <3>3. Len(blanks) = n
      BY <2>3, <3>1, <3>2
    <3> QED BY <3>1, <3>2, <3>3
  <2> QED BY <2>1, <2>4
<1>5. full = line \o blanks
  <2>1. 1..(MAXCONFLINE - 2 - Len(line)) = 1..n
    BY <1>1, <1>2
  <2> QED BY <1>3, <2>1 DEF Filled
<1>6. /\ full \in Seq(Symbols) /\ Len(full) = k + n
      /\ \A i \in 1..k : full[i] = line[i]
      /\ \A i \in 1..n : full[k + i] = " "
  <2>1. blanks \in Seq(Symbols)
    BY <1>4
  <2>2. /\ full \in Seq(Symbols) /\ Len(full) = Len(line) + Len(blanks)
        /\ \A i \in 1..Len(line) : full[i] = line[i]
        /\ \A i \in 1..Len(blanks) : full[Len(line) + i] = blanks[i]
    BY <1>5, <2>1, JoinedSequences
  <2> QED BY <1>1, <1>4, <2>2
<1>7. ASSUME NEW i \in 1..(k + n) PROVE full[i] # "LF"
  <2>1. CASE i \in 1..k
    BY <1>1, <1>6, <2>1
  <2>2. CASE ~(i \in 1..k)
    <3>1. PICK j \in 1..n : i = k + j
      <4>1. i - k \in 1..n /\ i = k + (i - k)
        BY <2>2
      <4> QED BY <4>1
    <3> QED BY <1>6, <3>1
  <2> QED BY <2>1, <2>2
<1>8. full[Len(full)] # "CR"
  <2>1. n \in 1..n
    BY <1>2
  <2>2. full[k + n] = " "
    BY <1>6, <2>1
  <2> QED BY <1>6, <2>2
<1>9. full # << >>
  <2>1. Len(full) > 0
    <3>1. Len(full) = k + n
      BY <1>6
    <3>2. n \in Nat /\ n > 0
      BY <1>2
    <3> QED BY <1>1, <3>1, <3>2
  <2> QED BY <2>1, EmptySeq
<1> QED BY <1>2, <1>6, <1>7, <1>8, <1>9

(* Every entry whose newline is another symbol, or is where the buffer ends, *)
(* is read as if it had one, unless a carriage return is in front of it.     *)
THEOREM LinesAreAlwaysCut == LinesAreCut
<1> SUFFICES ASSUME NEW entry \in Entries, NEW lost \in {"9", "QUOTE", "#"},
                    NEW rest \in {<< >>} \cup Asides \cup {Written(other) : other \in Entries},
                    NEW type \in {"auth", "acct"}
             PROVE  LET line == Written(entry)
                        full == line \o [i \in 1..(MAXCONFLINE - 2 - Len(line)) |-> " "]
                        behind == IF rest = << >> THEN << >> ELSE rest \o <<"LF">>
                        read(file) == Config(file, type, << >>, "LF")
                    IN  /\ read(line \o <<lost>>) = read(line \o <<"LF">>)
                        /\ read(full \o <<lost>> \o behind) = read(full \o <<"LF">> \o behind)
                        /\ ~read(line \o <<"CR", lost>>).ok
  BY DEF LinesAreCut
<1>1. PICK line : line = Written(entry)
  OBVIOUS
<1>2. /\ line \in Seq(Symbols) /\ line # << >> /\ Len(line) + 2 < MAXCONFLINE
      /\ \A i \in 1..Len(line) : line[i] # "LF" /\ line[i] # "CR"
  BY <1>1, EntryHas
<1>3. lost \in Symbols /\ lost # "LF"
  <2>1. Digits[10] = "9" /\ 10 \in 1..10
    BY DEF Digits
  <2> QED BY <2>1, SymbolsAssumption, SymbolsOfFiles DEF SymbolsAssumption
<1>4. PICK full : /\ full = line \o [i \in 1..(MAXCONFLINE - 2 - Len(line)) |-> " "]
                  /\ Filled(full, line)
  BY DEF Filled
<1>5. /\ full \in Seq(Symbols) /\ full # << >> /\ Len(full) + 2 = MAXCONFLINE
      /\ \A i \in 1..Len(full) : full[i] # "LF"
      /\ full[Len(full)] # "CR"
  <2>1. \A i \in 1..Len(line) : line[i] # "LF"
    BY <1>2
  <2>2. Filled(full, line)
    BY <1>4
  <2> QED BY <1>2, <2>1, <2>2, FullLine
<1>6. ASSUME NEW c \in {lost, "LF"} PROVE Fits(line, c) /\ Fits(full, c)
  <2>1. c \in Symbols
    BY <1>3, SymbolsOfFiles
  <2>2. Len(line) + 1 < MAXCONFLINE /\ Len(full) + 1 < MAXCONFLINE
    BY <1>2, <1>5, ConfigAssumption DEF ConfigAssumption
  <2>3. line[Len(line)] # "CR"
    <3>1. PICK k \in Nat : k = Len(line)
      BY <1>2
    <3>2. k \in 1..k
      BY <1>2, <3>1, EmptySeq
    <3> QED BY <1>2, <3>1, <3>2
  <2> QED BY <1>2, <1>5, <2>1, <2>2, <2>3 DEF Fits
<1>7. PICK start : start = [ok |-> TRUE, servers |-> << >>]
  OBVIOUS
<1>8. Config(line \o <<lost>>, type, << >>, "LF") = Config(line \o <<"LF">>, type, << >>, "LF")
  <2>1. PICK end : end = Take(start, ParseLine(line, type))
    OBVIOUS
  <2>2. ASSUME NEW c \in {lost, "LF"} PROVE Config(line \o <<c>>, type, << >>, "LF") = end
    BY <1>6, <1>7, <2>1, OneLineReads
  <2> QED BY <2>2
<1>9. PICK mid : mid = Take(start, ParseLine(full, type))
  OBVIOUS
<1>10. PICK behind : behind = IF rest = << >> THEN << >> ELSE rest \o <<"LF">>
  OBVIOUS
<1>11. Config((full \o <<lost>>) \o behind, type, << >>, "LF")
         = Config((full \o <<"LF">>) \o behind, type, << >>, "LF")
  <2>1. CASE rest = << >>
    <3>1. ASSUME NEW c \in {lost, "LF"}
          PROVE  Config((full \o <<c>>) \o << >>, type, << >>, "LF") = mid
      <4>1. Config(full \o <<c>>, type, << >>, "LF") = mid
        BY <1>6, <1>7, <1>9, OneLineReads
      <4>2. PICK p : p = full \o <<c>> /\ Joins(p, full, c)
        BY DEF Joins
      <4>3. Joins(p, full, c) /\ Fits(full, c)
        BY <1>6, <4>2
      <4>4. PieceOf(p, full)
        BY <4>3, FittingPiece
      <4>5. p \in Seq(Symbols)
        BY <4>4 DEF PieceOf
      <4>6. p \o << >> = p
        BY <4>5, ConcatEmptySeq
      <4> QED BY <4>1, <4>2, <4>6
    <3>2. behind = << >>
      BY <1>10, <2>1
    <3> QED BY <3>1, <3>2
  <2>2. CASE rest # << >>
    <3>1. PICK end : end = Take(mid, ParseLine(rest, type))
      OBVIOUS
    <3>2. Fits(rest, "LF")
      <4>1. ASSUME rest \in Asides
            PROVE  /\ rest \in Seq(Symbols) /\ Len(rest) + 1 < MAXCONFLINE
                   /\ \A i \in 1..Len(rest) : rest[i] # "LF"
        <5>1. IsLine(rest, 1)
          BY <4>1, FileAssumption DEF FileAssumption, IsAside
        <5> QED BY <5>1 DEF IsLine, ToSet
      <4>2. ASSUME NEW other \in Entries, rest = Written(other)
            PROVE  /\ rest \in Seq(Symbols) /\ Len(rest) + 1 < MAXCONFLINE
                   /\ \A i \in 1..Len(rest) : rest[i] # "LF"
        <5>1. /\ rest \in Seq(Symbols) /\ Len(rest) + 2 < MAXCONFLINE
              /\ \A i \in 1..Len(rest) : rest[i] # "LF" /\ rest[i] # "CR"
          BY <4>2, EntryHas
        <5> QED BY <5>1, ConfigAssumption DEF ConfigAssumption
      <4> QED BY <2>2, <4>1, <4>2, SymbolsOfFiles DEF Fits
    <3>3. ASSUME NEW c \in {lost, "LF"}
          PROVE  Config((full \o <<c>>) \o (rest \o <<"LF">>), type, << >>, "LF") = end
      BY <1>5, <1>6, <1>7, <1>9, <3>1, <3>2, TwoLinesRead
    <3>4. behind = rest \o <<"LF">>
      BY <1>10, <2>2
    <3> QED BY <3>3, <3>4
  <2> QED BY <2>1, <2>2
<1>12. ~Config(line \o <<"CR", lost>>, type, << >>, "LF").ok
  <2>1. \A i \in 1..Len(line) : line[i] # "LF"
    BY <1>2
  <2> QED BY <1>2, <1>3, <2>1, BareReturnFails
<1> QED BY <1>1, <1>4, <1>8, <1>10, <1>11, <1>12
=============================================================================
