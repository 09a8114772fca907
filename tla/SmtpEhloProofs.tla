--------------------------- MODULE SmtpEhloProofs ---------------------------
(***************************************************************************)
(* Theorems about reading an EHLO response, for every MaxLines, MaxUnknown,  *)
(* MaxKeywordLen, MaxParamLen and SizeMax, whatever lines the server sends   *)
(* and at whatever byte the buffer ends:                                     *)
(*                                                                           *)
(*  - the verdict on a line, and on the reply, is final (LineVerdictFinal,   *)
(*    ReplyVerdictFinal, VerdictFinal);                                      *)
(*  - the reader accepts the grammar (GrammarInvariant);                     *)
(*  - the capability table shows the response (CapsInvariant, CutInvariant,  *)
(*    SizeInvariant).                                                        *)
(*                                                                           *)
(* All rest on what each iteration of the reader finds: ReadBy says where    *)
(* the lines it has read end, and that they are lines of one reply.          *)
(***************************************************************************)
EXTENDS SmtpEhlo, FiniteSetTheorems, SequenceTheorems, WellFoundedInduction, TLAPS

\* A byte, or a word standing for several.
Byte == STRING

LEMMA Extension ==
    ASSUME NEW s \in Seq(Byte), NEW t \in Seq(Byte)
    PROVE  /\ s \o t \in Seq(Byte)
           /\ Len(s \o t) = Len(s) + Len(t) /\ Len(s) \in Nat /\ Len(t) \in Nat
           /\ \A i \in 1..Len(s) : (s \o t)[i] = s[i]
OBVIOUS

\* A part of s is the same part of an extension of s.
LEMMA SamePart ==
    ASSUME NEW S, NEW s \in Seq(S), NEW u \in Seq(S), Len(s) <= Len(u),
           \A i \in 1..Len(s) : u[i] = s[i],
           NEW a \in 1..Len(s), NEW b \in 0..Len(s)
    PROVE  SubSeq(u, a, b) = SubSeq(s, a, b)
<1>1. /\ SubSeq(u, a, b) \in Seq(S) /\ SubSeq(s, a, b) \in Seq(S)
      /\ Len(SubSeq(u, a, b)) = (IF a <= b THEN b - a + 1 ELSE 0)
      /\ Len(SubSeq(s, a, b)) = (IF a <= b THEN b - a + 1 ELSE 0)
  OBVIOUS
<1>2. \A i \in 1..(b - a + 1) : /\ SubSeq(u, a, b)[i] = u[a + i - 1]
                                /\ SubSeq(s, a, b)[i] = s[a + i - 1]
  OBVIOUS
<1>3. \A i \in 1..(b - a + 1) : SubSeq(u, a, b)[i] = SubSeq(s, a, b)[i]
  BY <1>2
<1>. QED  BY <1>1, <1>3, SeqEqual

LEMMA LeastNatural ==
    ASSUME NEW T, T \subseteq Nat, T # {}
    PROVE  \E n \in T : \A m \in T : n <= m
<1>. DEFINE R == {p \in Nat \X Nat : p[1] < p[2]}
<1>1. IsWellFoundedOn(R, Nat)
  BY NatLessThanWellFounded DEF OpToRel
<1>2. \E n \in T : \A m \in T : ~ (<<m, n>> \in R)
  BY <1>1, WFMin
<1>3. \A m, n \in Nat : <<m, n>> \in R <=> m < n
  OBVIOUS
<1>4. PICK n \in T : \A m \in T : ~ (<<m, n>> \in R)
  BY <1>2
<1>5. \A m \in T : n <= m
  <2>1. \A m \in T : ~ (m < n)
    BY <1>3, <1>4
  <2>. QED  BY <2>1
<1>. QED  BY <1>5

\* The minimum of SelectInSubSeq, without CHOOSE.
LEMMA FirstFound ==
    ASSUME NEW s \in Seq(Byte), NEW from \in {4, 5}, from = TextStart(s)
    PROVE  \/ /\ TextEnd(s) = 0
              /\ \A i \in from..Len(s) : IsTextChar(s[i])
           \/ /\ TextEnd(s) \in from..Len(s)
              /\ ~IsTextChar(s[TextEnd(s)])
              /\ \A i \in from..(TextEnd(s) - 1) : IsTextChar(s[i])
<1>0. Len(s) \in Nat
  BY Extension
<1>. DEFINE Stops == {i \in from..Len(s) : ~IsTextChar(s[i])}
<1>1. TextEnd(s) = IF Stops # {} THEN Min(Stops) ELSE 0
  BY DEF TextEnd, SelectInSubSeq
<1>2. CASE Stops = {}
  BY <1>1, <1>2
<1>3. CASE Stops # {}
  <2>1. \E n \in Stops : \A m \in Stops : n <= m
    <3>1. Stops \subseteq Nat
      BY <1>0
    <3>. QED  BY <1>3, <3>1, LeastNatural
  <2>2. Min(Stops) \in Stops /\ \A m \in Stops : Min(Stops) <= m
    BY <2>1 DEF Min
  <2>3. TextEnd(s) \in Stops /\ \A m \in Stops : TextEnd(s) <= m
    BY <1>1, <1>3, <2>2
  <2>4. TextEnd(s) \in from..Len(s) /\ ~IsTextChar(s[TextEnd(s)])
    BY <2>3
  <2>5. ASSUME NEW i \in from..(TextEnd(s) - 1), ~IsTextChar(s[i])
        PROVE  FALSE
    <3>1. i \in Stops
      BY <1>0, <2>4, <2>5
    <3>. QED  BY <1>0, <2>3, <2>4, <2>5, <3>1
  <2>. QED  BY <2>4, <2>5
<1>. QED  BY <1>2, <1>3

-----------------------------------------------------------------------------
\* Where the text of a line ends is settled by the byte that ends it.
LEMMA TextEndFinal ==
    ASSUME NEW s \in Seq(Byte), NEW t \in Seq(Byte),
           TextStart(s \o t) = TextStart(s), TextStart(s) \in {4, 5}, TextEnd(s) # 0
    PROVE  /\ TextEnd(s \o t) = TextEnd(s)
           /\ TextEnd(s) \in TextStart(s)..Len(s)
<1>. DEFINE from == TextStart(s)
            u == s \o t
<1>1. Len(s) \in Nat /\ Len(t) \in Nat /\ Len(u) = Len(s) + Len(t) /\ u \in Seq(Byte)
  BY Extension
<1>2. \A i \in 1..Len(s) : u[i] = s[i]
  BY Extension
<1>3. /\ TextEnd(s) \in from..Len(s)
      /\ ~IsTextChar(s[TextEnd(s)])
      /\ \A i \in from..(TextEnd(s) - 1) : IsTextChar(s[i])
  BY FirstFound
<1>4. \/ TextEnd(u) = 0 /\ \A i \in from..Len(u) : IsTextChar(u[i])
      \/ /\ TextEnd(u) \in from..Len(u)
         /\ ~IsTextChar(u[TextEnd(u)])
         /\ \A i \in from..(TextEnd(u) - 1) : IsTextChar(u[i])
  BY <1>1, FirstFound
<1>. HIDE DEF u
<1>5. TextEnd(s) \in from..Len(u) /\ u[TextEnd(s)] = s[TextEnd(s)]
  BY <1>1, <1>2, <1>3
<1>6. ~ (TextEnd(u) = 0 /\ \A i \in from..Len(u) : IsTextChar(u[i]))
  BY <1>3, <1>5
<1>7. ~ (TextEnd(u) < TextEnd(s))
  <2>. SUFFICES ASSUME TextEnd(u) < TextEnd(s)  PROVE FALSE
    OBVIOUS
  <2>1. TextEnd(u) \in from..(TextEnd(s) - 1) /\ TextEnd(u) \in 1..Len(s)
    BY <1>1, <1>3, <1>4, <1>6
  <2>. QED  BY <1>2, <1>3, <1>4, <1>6, <2>1
<1>8. ~ (TextEnd(s) < TextEnd(u))
  BY <1>1, <1>3, <1>4, <1>5, <1>6
<1>9. TextEnd(u) = TextEnd(s)
  BY <1>1, <1>3, <1>4, <1>6, <1>7, <1>8
<1>. QED  BY <1>3, <1>9 DEF u

\* smtp_reply_parser.h promises that only an incomplete line may still turn
\* into something else: whatever arrives after a line that was accepted or
\* refused, parsing again gives the same result, of the same bytes.
THEOREM LineVerdictFinal ==
    ASSUME NEW s \in Seq(Byte), NEW t \in Seq(Byte), LineStatus(s) # "INCOMPLETE"
    PROVE  ParseLine(s \o t) = ParseLine(s)
<1>. DEFINE u == s \o t
<1>1. Len(s) \in Nat /\ Len(t) \in Nat /\ Len(u) = Len(s) + Len(t) /\ u \in Seq(Byte)
  BY Extension
<1>2. \A i \in 1..Len(s) : u[i] = s[i]
  BY Extension
<1>3. Len(s) >= 3
  BY <1>1 DEF LineStatus
<1>4. CodeValid(u) = CodeValid(s)
  BY <1>1, <1>2, <1>3 DEF CodeValid
<1>. HIDE DEF u
<1>5. CASE ~CodeValid(s)
  <2>1. LineStatus(s) = "ERROR" /\ LineStatus(u) = "ERROR"
    BY <1>1, <1>3, <1>4, <1>5 DEF LineStatus
  <2>. QED  BY <2>1 DEF ParseLine, u
<1>6. CASE CodeValid(s)
  <2>1. Len(s) > 3
    <3>1. Len(s) # 3
      BY <1>6 DEF LineStatus
    <3>2. Len(s) \in Nat
      BY <1>1
    <3>3. \A n \in Nat : n >= 3 /\ n # 3 => n > 3
      OBVIOUS
    <3>. QED  BY Zenon, <1>3, <3>1, <3>2, <3>3
  <2>2. u[4] = s[4]
    BY <1>1, <1>2, <2>1
  <2>3. CASE s[4] \notin Separators
    <3>1. LineStatus(s) = "ERROR" /\ LineStatus(u) = "ERROR"
      BY <1>1, <1>4, <1>6, <2>1, <2>2, <2>3 DEF LineStatus
    <3>. QED  BY <3>1 DEF ParseLine, u
  <2>4. CASE s[4] \in Separators
    <3>1. LineStatus(s) = ScanText(s) /\ LineStatus(u) = ScanText(u)
      BY <1>1, <1>4, <1>6, <2>1, <2>2, <2>4 DEF LineStatus
    <3>2. TextStart(u) = TextStart(s) /\ TextStart(s) \in {4, 5}
      BY <2>2 DEF TextStart
    <3>3. TextEnd(s) # 0
      BY <3>1 DEF ScanText
    <3>4. TextEnd(u) = TextEnd(s) /\ TextEnd(s) \in TextStart(s)..Len(s)
      BY <3>2, <3>3, TextEndFinal DEF u
    <3>5. u[TextEnd(s)] = s[TextEnd(s)]
      BY <1>1, <1>2, <3>2, <3>4
    <3>6. ScanText(u) = ScanText(s)
      <4>1. CASE s[TextEnd(s)] # "CR"
        BY <3>3, <3>4, <3>5, <4>1 DEF ScanText
      <4>2. CASE s[TextEnd(s)] = "CR"
        <5>1. TextEnd(s) # Len(s)
          BY <3>1, <3>3, <4>2 DEF ScanText
        <5>2. u[TextEnd(s) + 1] = s[TextEnd(s) + 1] /\ TextEnd(s) # Len(u)
          BY <1>1, <1>2, <3>2, <3>4, <5>1
        <5>. QED  BY <3>3, <3>4, <3>5, <4>2, <5>1, <5>2 DEF ScanText
      <4>. QED  BY <4>1, <4>2
    <3>7. SubSeq(u, 1, 3) = SubSeq(s, 1, 3)
      BY <1>1, <1>2, <2>1
    <3>8. SubSeq(u, TextStart(s), TextEnd(s) - 1) = SubSeq(s, TextStart(s), TextEnd(s) - 1)
      <4>1. TextStart(s) \in 1..Len(s) /\ TextEnd(s) - 1 \in 0..Len(s)
        BY <1>1, <3>2, <3>4
      <4>. QED  BY <1>1, <1>2, <4>1, SamePart
    <3>9. LineStatus(u) = LineStatus(s) /\ (u[4] # "-") = (s[4] # "-")
      BY <2>2, <3>1, <3>6
    <3>. QED  BY Zenon, <3>2, <3>4, <3>7, <3>8, <3>9 DEF ParseLine, u
  <2>. QED  BY <2>3, <2>4
<1>. QED  BY <1>5, <1>6

-----------------------------------------------------------------------------
(* Functions defined by recursion.                                           *)

\* g gives x at lo, and at each i of what follows F[i] of what it gives before.
Recursive(A, lo, hi, x, F, g) ==
    g \in [lo..hi -> A] /\ g[lo] = x /\ \A i \in (lo + 1)..hi : g[i] = F[i][g[i - 1]]

LEMMA Recursion ==
    ASSUME NEW A, NEW lo \in Nat, NEW hi \in Nat, lo <= hi, NEW x \in A,
           NEW F \in [(lo + 1)..hi -> [A -> A]]
    PROVE  \E g : Recursive(A, lo, hi, x, F, g)
<1>. DEFINE Made(g, n) == Recursive(A, lo, n, x, F, g)
            T == {n \in lo..hi : ~ \E g : Made(g, n)}
<1>1. SUFFICES ASSUME T # {} PROVE FALSE
  <2>1. hi \in lo..hi
    OBVIOUS
  <2>2. \E g : Made(g, hi)
    BY <1>1, <2>1
  <2>. QED  BY <2>2
<1>2. T \subseteq Nat
  OBVIOUS
<1>3. PICK n \in T : \A m \in T : n <= m
  BY <1>1, <1>2, LeastNatural
<1>4. n # lo
  <2>1. Made([k \in lo..lo |-> x], lo)
    BY DEF Recursive
  <2>. QED  BY <1>3, <2>1
<1>5. n \in (lo + 1)..hi /\ n - 1 \in lo..hi /\ ~(n <= n - 1) /\ n \in Nat
  BY <1>2, <1>3, <1>4
<1>6. PICK g : Made(g, n - 1)
  BY <1>3, <1>5
<1>. DEFINE e == [k \in lo..n |-> IF k = n THEN F[n][g[n - 1]] ELSE g[k]]
<1>7. g \in [lo..(n - 1) -> A] /\ g[n - 1] \in A /\ F[n][g[n - 1]] \in A
  <2>1. g \in [lo..(n - 1) -> A] /\ g[n - 1] \in A
    BY <1>5, <1>6 DEF Recursive
  <2>. QED  BY <1>5, <2>1
<1>8. e \in [lo..n -> A] /\ e[lo] = x
  <2>1. \A k \in lo..n : e[k] \in A
    BY <1>5, <1>7
  <2>2. e[lo] = x
    BY <1>5, <1>6 DEF Recursive
  <2>. QED  BY <2>1, <2>2
<1>9. ASSUME NEW i \in (lo + 1)..n PROVE e[i] = F[i][e[i - 1]]
  <2>1. i - 1 \in lo..(n - 1) /\ e[i - 1] = g[i - 1]
    BY <1>5
  <2>2. CASE i = n
    <3>1. e[n] = F[n][g[n - 1]]
      BY <1>5
    <3>2. e[n - 1] = g[n - 1]
      BY <2>1, <2>2
    <3>. QED  BY <2>2, <3>1, <3>2
  <2>3. CASE i # n
    <3>1. i \in (lo + 1)..(n - 1) /\ e[i] = g[i]
      BY <1>5, <2>3
    <3>2. g[i] = F[i][g[i - 1]]
      BY <1>6, <3>1 DEF Recursive
    <3>. QED  BY <2>1, <3>1, <3>2
  <2>. QED  BY <2>2, <2>3
<1>. HIDE DEF e
<1>10. Made(e, n)
  BY <1>8, <1>9 DEF Recursive
<1>. QED  BY <1>3, <1>10

-----------------------------------------------------------------------------
(* One line.                                                                 *)

\* What the verdict is made of.
LEMMA LineStatusIs ==
    ASSUME NEW s \in Seq(Byte)
    PROVE  /\ Len(s) < 3 => LineStatus(s) = "INCOMPLETE"
           /\ ~(Len(s) < 3) /\ ~CodeValid(s) => LineStatus(s) = "ERROR"
           /\ Len(s) = 3 /\ CodeValid(s) => LineStatus(s) = "INCOMPLETE"
           /\ Len(s) > 3 /\ CodeValid(s) /\ s[4] \notin Separators => LineStatus(s) = "ERROR"
           /\ Len(s) > 3 /\ CodeValid(s) /\ s[4] \in Separators => LineStatus(s) = ScanText(s)
<1>1. Len(s) \in Nat
  BY Extension
<1>2. CASE Len(s) < 3
  BY <1>1, <1>2 DEF LineStatus
<1>3. CASE ~(Len(s) < 3) /\ ~CodeValid(s)
  BY <1>1, <1>3 DEF LineStatus
<1>4. CASE Len(s) = 3 /\ CodeValid(s)
  BY <1>1, <1>4 DEF LineStatus
<1>5. CASE Len(s) > 3 /\ CodeValid(s) /\ s[4] \notin Separators
  BY <1>1, <1>5 DEF LineStatus
<1>6. CASE Len(s) > 3 /\ CodeValid(s) /\ s[4] \in Separators
  BY <1>1, <1>6 DEF LineStatus
<1>. QED  BY <1>1, <1>2, <1>3, <1>4, <1>5, <1>6

LEMMA LineOkIs ==
    ASSUME NEW s \in Seq(Byte)
    PROVE  LineStatus(s) = "OK" <=>
              /\ Len(s) > 3 /\ CodeValid(s) /\ s[4] \in Separators
              /\ TextEnd(s) # 0 /\ s[TextEnd(s)] = "CR" /\ TextEnd(s) # Len(s)
              /\ s[TextEnd(s) + 1] = "LF"
<1>1. Len(s) \in Nat
  BY Extension
<1>2. LineStatus(s) = "OK" <=>
         Len(s) > 3 /\ CodeValid(s) /\ s[4] \in Separators /\ ScanText(s) = "OK"
  <2>1. CASE Len(s) > 3 /\ CodeValid(s) /\ s[4] \in Separators
    BY <2>1, LineStatusIs
  <2>2. CASE ~(Len(s) > 3 /\ CodeValid(s) /\ s[4] \in Separators)
    <3>1. LineStatus(s) \in {"INCOMPLETE", "ERROR"}
      <4>1. Len(s) < 3 \/ Len(s) = 3 \/ Len(s) > 3
        <5>1. \A n \in Nat : n < 3 \/ n = 3 \/ n > 3
          OBVIOUS
        <5>. QED  BY Zenon, <1>1, <5>1
      <4>2. Len(s) = 3 => ~(Len(s) < 3)
        BY <1>1
      <4>3. Len(s) > 3 => ~(Len(s) < 3)
        BY <1>1
      <4>4. /\ Len(s) < 3 => LineStatus(s) = "INCOMPLETE"
            /\ ~(Len(s) < 3) /\ ~CodeValid(s) => LineStatus(s) = "ERROR"
            /\ Len(s) = 3 /\ CodeValid(s) => LineStatus(s) = "INCOMPLETE"
            /\ Len(s) > 3 /\ CodeValid(s) /\ s[4] \notin Separators => LineStatus(s) = "ERROR"
        BY LineStatusIs
      <4>. QED  BY Zenon, <2>2, <4>1, <4>2, <4>3, <4>4
    <3>. QED  BY <2>2, <3>1
  <2>. QED  BY <2>1, <2>2
<1>3. ScanText(s) = "OK" <=>
         /\ TextEnd(s) # 0 /\ s[TextEnd(s)] = "CR" /\ TextEnd(s) # Len(s)
         /\ s[TextEnd(s) + 1] = "LF"
  BY DEF ScanText
<1>. QED  BY Zenon, <1>2, <1>3

\* A line accepted is a line of the grammar, up to and with its LF, and the other
\* way round.
LEMMA LineIs ==
    ASSUME NEW s \in Seq(Byte), NEW m \in 1..Len(s)
    PROVE  LineStatus(s) = "OK" /\ TextEnd(s) + 1 = m <=> IsReplyLine(SubSeq(s, 1, m))
<1>. DEFINE l == SubSeq(s, 1, m)
            stop == TextEnd(s)
            from == TextStart(s)
<1>1. Len(s) \in Nat /\ m \in Nat /\ m >= 1 /\ m <= Len(s)
  BY Extension
<1>2. Len(l) = m /\ \A k \in 1..m : l[k] = s[k]
  BY <1>1
<1>3. from \in {4, 5} /\ (from = 4 <=> s[4] = "CR")
  BY DEF TextStart
<1>4. \/ /\ stop = 0
         /\ \A i \in from..Len(s) : IsTextChar(s[i])
      \/ /\ stop \in from..Len(s)
         /\ ~IsTextChar(s[stop])
         /\ \A i \in from..(stop - 1) : IsTextChar(s[i])
  BY <1>3, FirstFound
<1>. HIDE DEF l, stop, from
<1>5. ASSUME LineStatus(s) = "OK", stop + 1 = m PROVE IsReplyLine(l)
  <2>1. CodeValid(s) /\ s[4] \in Separators
    BY <1>5, LineOkIs
  <2>2. stop # 0 /\ s[stop] = "CR" /\ stop # Len(s) /\ s[stop + 1] = "LF"
    BY <1>5, LineOkIs DEF stop
  <2>3. /\ stop \in from..Len(s) /\ stop \in Nat /\ stop >= 4 /\ m - 1 = stop /\ m - 2 = stop - 1
        /\ m >= 5
        /\ \A i \in from..(stop - 1) : IsTextChar(s[i])
    BY <1>1, <1>3, <1>4, <1>5, <2>2
  <2>4. Len(l) = m /\ l[1] = s[1] /\ l[2] = s[2] /\ l[3] = s[3] /\ l[4] = s[4] /\ l[m - 1] = s[stop]
        /\ l[m] = s[stop + 1]
    BY <1>1, <1>2, <1>5, <2>3
  <2>5. m = 5 \/ l[4] \in {"-", " "}
    <3>1. CASE s[4] = "CR"
      <4>1. stop = 4
        BY <1>3, <2>3, <3>1 DEF IsTextChar
      <4>. QED  BY <2>3, <4>1
    <3>2. CASE s[4] # "CR"
      BY <2>1, <2>4, <3>2 DEF Separators
    <3>. QED  BY <3>1, <3>2
  <2>6. ASSUME NEW i \in 4..(m - 2) PROVE l[i] \notin {"CR", "LF", "CTRL"}
    <3>1. i \in 4..(stop - 1) /\ l[i] = s[i]
      BY <1>1, <1>2, <2>3
    <3>2. CASE i \in from..(stop - 1)
      BY <2>3, <3>1, <3>2 DEF IsTextChar
    <3>3. CASE i \notin from..(stop - 1)
      <4>1. i = 4 /\ from = 5
        BY <1>3, <2>3, <3>1, <3>3
      <4>2. s[4] # "CR"
        BY <1>3, <4>1
      <4>3. l[i] = s[4]
        BY <3>1, <4>1
      <4>. QED  BY <2>1, <4>2, <4>3 DEF Separators
    <3>. QED  BY <3>2, <3>3
  <2>. QED  BY <2>1, <2>2, <2>3, <2>4, <2>5, <2>6 DEF IsReplyLine, CodeValid
<1>6. ASSUME IsReplyLine(l) PROVE LineStatus(s) = "OK" /\ stop + 1 = m
  <2>. DEFINE p == m - 1
  <2>1. m >= 5
    BY <1>2, <1>6 DEF IsReplyLine
  <2>2. /\ p \in Nat /\ p >= 4 /\ p + 1 = m /\ p # Len(s) /\ m - 2 = p - 1 /\ (m = 5 <=> p = 4)
        /\ 1 \in 1..m /\ 2 \in 1..m /\ 3 \in 1..m /\ 4 \in 1..m /\ p \in 1..m /\ m \in 1..m
        /\ p \in 4..Len(s) /\ Len(s) > 3
    BY ONLY <1>1, <2>1
  <2>3. /\ l[1] \in FirstDigit /\ l[2] \in SecondDigit /\ l[3] \in Digits
        /\ l[p] = "CR" /\ l[m] = "LF"
        /\ p = 4 \/ l[4] \in {"-", " "}
        /\ \A i \in 4..(p - 1) : l[i] \notin {"CR", "LF", "CTRL"}
    BY <1>2, <1>6, <2>2 DEF IsReplyLine
  <2>. HIDE DEF p
  <2>4. /\ CodeValid(s) /\ s[p] = "CR" /\ s[p + 1] = "LF"
        /\ p = 4 \/ s[4] \in {"-", " "}
    BY <1>2, <2>2, <2>3 DEF CodeValid
  <2>5. ASSUME NEW i \in 4..(p - 1) PROVE IsTextChar(s[i])
    <3>1. i \in 1..m
      BY <2>2
    <3>. QED  BY <1>2, <2>3, <3>1 DEF IsTextChar
  <2>6. s[4] \in Separators /\ (s[4] = "CR" <=> p = 4)
    BY <2>4 DEF Separators
  <2>7. p \in from..Len(s) /\ (\A i \in from..(p - 1) : i \in 4..(p - 1)) /\ ~IsTextChar(s[p])
    <3>1. p >= from
      BY <1>3, <2>2, <2>6
    <3>2. ~IsTextChar(s[p])
      BY <2>4 DEF IsTextChar
    <3>. QED  BY <1>3, <2>2, <3>1, <3>2
  <2>8. stop \in from..Len(s) /\ stop # 0
    BY <1>3, <1>4, <2>7
  <2>9. ~IsTextChar(s[stop]) /\ \A i \in from..(stop - 1) : IsTextChar(s[i])
    BY <1>4, <2>8
  <2>10. ~(stop < p)
    <3>. SUFFICES ASSUME stop < p PROVE FALSE
      OBVIOUS
    <3>1. stop \in 4..(p - 1)
      BY <1>1, <1>3, <2>2, <2>8
    <3>. QED  BY <2>5, <2>9, <3>1
  <2>11. ~(p < stop)
    <3>. SUFFICES ASSUME p < stop PROVE FALSE
      OBVIOUS
    <3>1. p \in from..(stop - 1)
      BY <1>1, <1>3, <2>7, <2>8
    <3>. QED  BY <2>7, <2>9, <3>1
  <2>12. stop = p
    BY <1>1, <1>3, <2>2, <2>8, <2>10, <2>11
  <2>13. LineStatus(s) = "OK"
    <3>1. TextEnd(s) = p
      BY <2>12 DEF stop
    <3>. QED  BY <2>2, <2>4, <2>6, <2>8, <2>12, <3>1, LineOkIs
  <2>. QED  BY <2>2, <2>12, <2>13
<1>. QED  BY <1>5, <1>6 DEF l, stop

\* What an accepted line is found to say.
LEMMA LineSays ==
    ASSUME NEW s \in Seq(Byte), LineStatus(s) = "OK"
    PROVE  LET m == TextEnd(s) + 1
               l == SubSeq(s, 1, m)
           IN  /\ m \in 1..Len(s) /\ IsReplyLine(l) /\ l \in Seq(Byte) /\ Len(l) = m
               /\ s[m] = "LF" /\ \A k \in 1..(m - 1) : s[k] # "LF"
               /\ ParseLine(s) = [status |-> "OK", code |-> SubSeq(l, 1, 3),
                                  is_final |-> l[4] # "-", text |-> SubSeq(l, 5, Len(l) - 2),
                                  consumed |-> m]
               /\ SubSeq(l, 1, 3) \in Seq(Byte) /\ SubSeq(l, 5, Len(l) - 2) \in Seq(Byte)
<1>. DEFINE m == TextEnd(s) + 1
            l == SubSeq(s, 1, m)
            from == TextStart(s)
<1>1. Len(s) \in Nat
  BY Extension
<1>2. from \in {4, 5} /\ (from = 4 <=> s[4] = "CR")
  BY DEF TextStart
<1>3. TextEnd(s) # 0 /\ s[TextEnd(s)] = "CR" /\ TextEnd(s) # Len(s)
  BY LineOkIs
<1>4. TextEnd(s) \in from..Len(s) /\ \A i \in from..(TextEnd(s) - 1) : IsTextChar(s[i])
  BY <1>2, <1>3, FirstFound
<1>5. m \in 1..Len(s) /\ m - 1 = TextEnd(s) /\ m \in Nat /\ m >= 5
  BY <1>1, <1>2, <1>3, <1>4
<1>. HIDE DEF m
<1>6. l \in Seq(Byte) /\ Len(l) = m /\ \A k \in 1..m : l[k] = s[k]
  BY <1>1, <1>5
<1>7. IsReplyLine(l)
  BY <1>5, LineIs DEF m
<1>. HIDE DEF l, from
<1>8. s[m] = "LF" /\ \A k \in 1..(m - 1) : s[k] # "LF"
  <2>1. l[m] = "LF" /\ l[m - 1] = "CR" /\ \A i \in 4..(m - 2) : l[i] # "LF"
    BY <1>6, <1>7 DEF IsReplyLine
  <2>2. l[1] # "LF" /\ l[2] # "LF" /\ l[3] # "LF"
    BY <1>7 DEF IsReplyLine, FirstDigit, SecondDigit, Digits
  <2>3. \A k \in 1..(m - 1) : k \in {1, 2, 3} \/ k \in 4..(m - 2) \/ k = m - 1
    BY <1>5
  <2>4. \A k \in 1..(m - 1) : k \in 1..m
    BY <1>5
  <2>. QED  BY <1>5, <1>6, <2>1, <2>2, <2>3, <2>4
<1>9. SubSeq(l, 1, 3) = SubSeq(s, 1, 3) /\ SubSeq(l, 1, 3) \in Seq(Byte)
  <2>1. SubSeq(s, 1, 3) = SubSeq(l, 1, 3)
    BY <1>1, <1>5, <1>6, SamePart
  <2>. QED  BY <1>5, <1>6, <2>1
<1>10. SubSeq(s, from, TextEnd(s) - 1) = SubSeq(l, 5, Len(l) - 2) /\ SubSeq(l, 5, Len(l) - 2) \in Seq(Byte)
  <2>1. CASE from = 5
    <3>1. /\ 5 \in 1..Len(l) /\ Len(l) - 2 \in 0..Len(l) /\ TextEnd(s) - 1 = Len(l) - 2
          /\ Len(l) <= Len(s) /\ Len(l) - 2 <= Len(l)
      BY <1>1, <1>5, <1>6
    <3>2. SubSeq(s, 5, Len(l) - 2) = SubSeq(l, 5, Len(l) - 2)
      BY <1>6, <3>1, SamePart
    <3>. QED  BY <1>6, <2>1, <3>1, <3>2
  <2>2. CASE from = 4
    <3>1. ~IsTextChar(s[4])
      BY <1>2, <2>2 DEF IsTextChar
    <3>2. TextEnd(s) = 4
      BY <1>1, <1>4, <2>2, <3>1
    <3>3. SubSeq(s, 4, 3) = <<>> /\ SubSeq(l, 5, 3) = <<>> /\ <<>> \in Seq(Byte)
      BY <1>6
    <3>4. Len(l) - 2 = 3 /\ TextEnd(s) - 1 = 3
      BY <1>5, <1>6, <3>2
    <3>. QED  BY <2>2, <3>3, <3>4
  <2>. QED  BY <1>2, <2>1, <2>2
<1>11. l[4] = s[4]
  BY <1>5, <1>6
<1>12. ParseLine(s) = [status |-> "OK", code |-> SubSeq(l, 1, 3),
                       is_final |-> l[4] # "-", text |-> SubSeq(l, 5, Len(l) - 2), consumed |-> m]
  BY <1>9, <1>10, <1>11 DEF ParseLine, m, from
<1>. QED  BY <1>5, <1>6, <1>7, <1>8, <1>9, <1>10, <1>12 DEF m, l

\* A line still incomplete has no LF, once its first three bytes are there.
LEMMA IncompleteLine ==
    ASSUME NEW s \in Seq(Byte), LineStatus(s) = "INCOMPLETE", ~(Len(s) < 3)
    PROVE  \A i \in 1..Len(s) : s[i] # "LF"
<1>1. Len(s) \in Nat
  BY Extension
<1>2. CodeValid(s)
  BY <1>1, LineStatusIs
<1>3. s[1] # "LF" /\ s[2] # "LF" /\ s[3] # "LF"
  BY <1>2 DEF CodeValid, FirstDigit, SecondDigit, Digits
<1>4. CASE Len(s) = 3
  BY <1>3, <1>4
<1>5. CASE Len(s) # 3
  <2>1. s[4] \in Separators /\ ScanText(s) = "INCOMPLETE"
    <3>0. PICK n \in Nat : n = Len(s)
      BY <1>1
    <3>1. Len(s) > 3
      <4>1. ~(n < 3) /\ n # 3
        BY <1>5, <3>0
      <4>2. n > 3
        BY <4>1
      <4>. QED  BY <3>0, <4>2
    <3>2. s[4] \in Separators
      BY <1>2, <3>1, LineStatusIs
    <3>3. LineStatus(s) = ScanText(s)
      BY <1>2, <3>1, <3>2, LineStatusIs
    <3>. QED  BY <3>2, <3>3
  <2>. DEFINE stop == TextEnd(s)
              from == TextStart(s)
  <2>2. from \in {4, 5}
    BY DEF TextStart
  <2>3. stop = 0 \/ (stop = Len(s) /\ s[stop] = "CR")
    BY <2>1 DEF ScanText
  <2>4. /\ stop = 0 => \A i \in from..Len(s) : IsTextChar(s[i])
        /\ stop # 0 => \A i \in from..(stop - 1) : IsTextChar(s[i])
    <3>1. \/ /\ stop = 0
             /\ \A i \in from..Len(s) : IsTextChar(s[i])
          \/ /\ stop \in from..Len(s)
             /\ \A i \in from..(stop - 1) : IsTextChar(s[i])
      BY <2>2, FirstFound
    <3>. QED  BY <2>2, <3>1
  <2>. HIDE DEF stop, from
  <2>5. s[4] # "LF"
    BY <2>1 DEF Separators
  <2>6. ASSUME NEW i \in 1..Len(s) PROVE s[i] # "LF"
    <3>1. i \in {1, 2, 3, 4} \/ i \in from..Len(s)
      BY <1>1, <2>2
    <3>2. CASE i \in {1, 2, 3, 4}
      BY <1>3, <2>5, <3>2
    <3>3. CASE i \in from..Len(s) /\ stop = 0
      <4>1. IsTextChar(s[i])
        BY <2>4, <3>3
      <4>. QED  BY <4>1 DEF IsTextChar
    <3>4. CASE i \in from..Len(s) /\ stop # 0 /\ i # Len(s)
      <4>1. stop = Len(s) /\ i \in from..(stop - 1)
        BY <1>1, <2>2, <2>3, <3>4
      <4>2. IsTextChar(s[i])
        BY <2>4, <3>4, <4>1
      <4>. QED  BY <4>2 DEF IsTextChar
    <3>5. CASE stop # 0 /\ i = Len(s)
      BY <2>3, <3>5
    <3>. QED  BY <3>1, <3>2, <3>3, <3>4, <3>5
  <2>. QED  BY <2>6
<1>. QED  BY <1>4, <1>5

\* A line's code is the first three bytes there are.
LEMMA CodeOfLine ==
    ASSUME NEW t \in Seq(Byte), LineStatus(t) = "OK"
    PROVE  SubSeq(t, 1, 3) = SubSeq(SubSeq(t, 1, TextEnd(t) + 1), 1, 3)
<1>. DEFINE m == TextEnd(t) + 1
            l == SubSeq(t, 1, m)
<1>1. m \in 1..Len(t) /\ l \in Seq(Byte) /\ Len(l) = m /\ IsReplyLine(l)
  BY LineSays
<1>2. Len(t) \in Nat
  BY Extension
<1>. HIDE DEF m
<1>3. \A k \in 1..m : t[k] = l[k]
  BY <1>1, <1>2
<1>. HIDE DEF l
<1>4. Len(l) <= Len(t) /\ Len(l) >= 5 /\ Len(l) \in Nat
  <2>1. Len(l) >= 5
    BY <1>1 DEF IsReplyLine
  <2>. QED  BY <1>1, <1>2, <2>1
<1>5. SubSeq(t, 1, 3) = SubSeq(l, 1, 3)
  BY <1>1, <1>3, <1>4, SamePart
<1>. QED  BY <1>5 DEF l, m

-----------------------------------------------------------------------------
(* Line by line.                                                             *)

\* What is behind the first i bytes.
Rest(s, i) == SubSeq(s, i + 1, Len(s))

LEMMA RestIs ==
    ASSUME NEW s \in Seq(Byte), NEW i \in Nat
    PROVE  /\ Rest(s, i) \in Seq(Byte)
           /\ i <= Len(s) => /\ Len(Rest(s, i)) = Len(s) - i
                             /\ \A k \in 1..(Len(s) - i) : Rest(s, i)[k] = s[i + k]
<1>1. Len(s) \in Nat
  BY Extension
<1>2. CASE i > Len(s)
  <2>1. Rest(s, i) = <<>>
    BY <1>1, <1>2 DEF Rest
  <2>. QED  BY <1>1, <1>2, <2>1
<1>3. CASE i <= Len(s)
  <2>1. Rest(s, i) \in Seq(Byte) /\ Len(Rest(s, i)) = Len(s) - i
    BY <1>1, <1>3 DEF Rest
  <2>2. ASSUME NEW k \in 1..(Len(s) - i) PROVE Rest(s, i)[k] = s[i + k]
    BY <1>1, <1>3 DEF Rest
  <2>. QED  BY <2>1, <2>2
<1>. QED  BY <1>1, <1>2, <1>3

LEMMA SeqOfByte == Seq(Byte) = Seq(STRING)
  BY DEF Byte

Verdicts == {"MORE", "OK", "INCOMPLETE", "ERROR"}
Replies == [status : Verdicts, code : Seq(Byte), consumed : Nat, texts : Seq(Seq(Byte))]

LEMMA StatusSet ==
    ASSUME NEW r \in Replies, NEW status \in Verdicts
    PROVE  LET u == [r EXCEPT !.status = status]
           IN  /\ u \in Replies /\ u.status = status /\ u.code = r.code
               /\ u.consumed = r.consumed /\ u.texts = r.texts
  BY DEF Replies

LEMMA Appended ==
    ASSUME NEW S, NEW q \in Seq(S), NEW x \in S
    PROVE  /\ Append(q, x) \in Seq(S) /\ Len(Append(q, x)) = Len(q) + 1
           /\ Append(q, x)[Len(q) + 1] = x /\ \A i \in 1..Len(q) : Append(q, x)[i] = q[i]
  OBVIOUS

LEMMA VerdictIs ==
    ASSUME NEW s \in Seq(Byte)
    PROVE  LineStatus(s) \in {"OK", "INCOMPLETE", "ERROR"}
<1>1. ScanText(s) \in {"OK", "INCOMPLETE", "ERROR"}
  BY DEF ScanText
<1>. QED  BY <1>1 DEF LineStatus

\* One more line is read, or the reply is over.
LEMMA AddLineIs ==
    ASSUME NEW r \in Replies, NEW t \in Seq(Byte)
    PROVE  LET m == TextEnd(t) + 1
               l == SubSeq(t, 1, m)
               u == AddLine(r, ParseLine(t))
           IN  \/ LineStatus(t) # "OK" /\ u = [r EXCEPT !.status = LineStatus(t)]
               \/ /\ LineStatus(t) = "OK" /\ r.texts # <<>> /\ SubSeq(l, 1, 3) # r.code
                  /\ u = [r EXCEPT !.status = "ERROR"]
               \/ /\ LineStatus(t) = "OK" /\ (r.texts = <<>> \/ SubSeq(l, 1, 3) = r.code)
                  /\ u = [status |-> IF l[4] # "-" THEN "OK" ELSE "MORE", code |-> SubSeq(l, 1, 3),
                          consumed |-> r.consumed + m,
                          texts |-> Append(r.texts, SubSeq(l, 5, Len(l) - 2))]
<1>. DEFINE m == TextEnd(t) + 1
            l == SubSeq(t, 1, m)
<1>1. CASE LineStatus(t) # "OK"
  <2>1. ParseLine(t) = [status |-> LineStatus(t)]
    BY <1>1 DEF ParseLine
  <2>. QED  BY <1>1, <2>1 DEF AddLine
<1>2. CASE LineStatus(t) = "OK"
  <2>. DEFINE line == [status |-> "OK", code |-> SubSeq(l, 1, 3), is_final |-> l[4] # "-",
                       text |-> SubSeq(l, 5, Len(l) - 2), consumed |-> m]
  <2>1. ParseLine(t) = line
    BY <1>2, LineSays
  <2>2. /\ line.status = "OK" /\ line.code = SubSeq(l, 1, 3) /\ line.is_final = (l[4] # "-")
        /\ line.text = SubSeq(l, 5, Len(l) - 2) /\ line.consumed = m
    OBVIOUS
  <2>. HIDE DEF line, l, m
  <2>3. CASE r.texts # <<>> /\ line.code # r.code
    <3>1. AddLine(r, line) = [r EXCEPT !.status = "ERROR"]
      BY <2>2, <2>3 DEF AddLine
    <3>. QED  BY <1>2, <2>1, <2>2, <2>3, <3>1 DEF l, m
  <2>4. CASE ~(r.texts # <<>> /\ line.code # r.code)
    <3>1. AddLine(r, line) =
            [status |-> IF line.is_final THEN "OK" ELSE "MORE", code |-> line.code,
             consumed |-> r.consumed + line.consumed, texts |-> Append(r.texts, line.text)]
      BY <2>2, <2>4 DEF AddLine
    <3>. QED  BY <1>2, <2>1, <2>2, <2>4, <3>1 DEF l, m
  <2>. QED  BY <2>3, <2>4
<1>. QED  BY <1>1, <1>2

\* The first k lines of s end at e[1] to e[k].
Cut(s, e, k) ==
    /\ k \in Nat /\ e \in [0..k -> 0..Len(s)] /\ e[0] = 0
    /\ \A i \in 1..k : /\ e[i - 1] < e[i] /\ s[e[i]] = "LF"
                       /\ \A j \in (e[i - 1] + 1)..(e[i] - 1) : s[j] # "LF"
Piece(s, e, i) == SubSeq(s, e[i - 1] + 1, e[i])

\* They are lines of one reply, and r is what they say.
ReadTo(s, e, k, r) ==
    /\ Cut(s, e, k) /\ r.consumed = e[k] /\ Len(r.texts) = k
    /\ \A i \in 1..k : /\ IsReplyLine(Piece(s, e, i)) /\ SubSeq(Piece(s, e, i), 1, 3) = r.code
                       /\ r.texts[i] = SubSeq(Piece(s, e, i), 5, Len(Piece(s, e, i)) - 2)
Continued(s, e, k) == \A i \in 1..k : Piece(s, e, i)[4] = "-"

\* Why no line follows that would make them a reply.
Refused(s, e, k, r) ==
    \/ LineStatus(Rest(s, e[k])) = "ERROR"
    \/ k # 0 /\ LineStatus(Rest(s, e[k])) = "OK" /\ SubSeq(Rest(s, e[k]), 1, 3) # r.code

\* What r says after n iterations, with k lines read.
ReadIn(s, r, n, e, k) ==
    /\ ReadTo(s, e, k, r)
    /\ \/ r.status = "MORE" /\ k = n /\ Continued(s, e, k)
       \/ r.status = "OK" /\ k # 0 /\ Continued(s, e, k - 1) /\ Piece(s, e, k)[4] # "-"
       \/ r.status = "INCOMPLETE" /\ Continued(s, e, k) /\ LineStatus(Rest(s, e[k])) = "INCOMPLETE"
       \/ r.status = "ERROR" /\ Continued(s, e, k) /\ Refused(s, e, k, r)
ReadBy(s, r, n) == r \in Replies /\ \E k \in 0..n : \E e : ReadIn(s, r, n, e, k)

NextLine(s, r) ==
    IF r.status # "MORE" THEN r ELSE AddLine(r, ParseLine(Rest(s, r.consumed)))

\* The next line's place among the others.
LEMMA OneMoreLine ==
    ASSUME NEW s \in Seq(Byte), NEW k \in Nat, NEW e, Cut(s, e, k),
           NEW m \in 1..(Len(s) - e[k]),
           s[e[k] + m] = "LF", \A j \in 1..(m - 1) : s[e[k] + j] # "LF"
    PROVE  \E f : /\ Cut(s, f, k + 1) /\ f[k + 1] = e[k] + m
                  /\ \A i \in 1..k : Piece(s, f, i) = Piece(s, e, i)
                  /\ Piece(s, f, k + 1) = SubSeq(s, e[k] + 1, e[k] + m)
<1>. DEFINE f == [i \in 0..(k + 1) |-> IF i = k + 1 THEN e[k] + m ELSE e[i]]
<1>1. Len(s) \in Nat /\ e \in [0..k -> 0..Len(s)] /\ e[k] \in 0..Len(s) /\ m \in Nat /\ m >= 1
  BY Extension DEF Cut
<1>2. e[k] + m \in 0..Len(s) /\ e[k] < e[k] + m
  BY <1>1
<1>3. f[k + 1] = e[k] + m /\ (\A i \in 0..k : f[i] = e[i]) /\ f \in [0..(k + 1) -> 0..Len(s)]
  <2>1. k + 1 \in 0..(k + 1) /\ \A i \in 0..k : i \in 0..(k + 1) /\ i # k + 1
    OBVIOUS
  <2>2. \A i \in 0..(k + 1) : i # k + 1 => i \in 0..k
    OBVIOUS
  <2>. QED  BY <1>1, <1>2, <2>1, <2>2
<1>. HIDE DEF f
<1>4. ASSUME NEW i \in 1..(k + 1)
      PROVE  /\ f[i - 1] < f[i] /\ s[f[i]] = "LF"
             /\ \A j \in (f[i - 1] + 1)..(f[i] - 1) : s[j] # "LF"
  <2>1. CASE i = k + 1
    <3>1. i - 1 = k /\ f[i - 1] = e[k] /\ f[i] = e[k] + m
      BY <1>3, <2>1
    <3>2. ASSUME NEW j \in (e[k] + 1)..((e[k] + m) - 1) PROVE s[j] # "LF"
      <4>. DEFINE d == j - e[k]
      <4>1. d \in 1..(m - 1) /\ e[k] + d = j
        BY <1>1
      <4>. HIDE DEF d
      <4>2. s[e[k] + d] # "LF"
        BY <4>1
      <4>. QED  BY <4>1, <4>2
    <3>. QED  BY <1>2, <3>1, <3>2
  <2>2. CASE i # k + 1
    <3>1. i \in 1..k /\ i \in 0..k /\ i - 1 \in 0..k
      BY <2>2
    <3>2. f[i] = e[i] /\ f[i - 1] = e[i - 1]
      BY <1>3, <3>1
    <3>. QED  BY <3>1, <3>2 DEF Cut
  <2>. QED  BY <2>1, <2>2
<1>5. Cut(s, f, k + 1)
  <2>1. f[0] = 0
    BY <1>3 DEF Cut
  <2>. QED  BY <1>3, <1>4, <2>1 DEF Cut
<1>6. ASSUME NEW i \in 1..k PROVE Piece(s, f, i) = Piece(s, e, i)
  <2>1. i \in 0..k /\ i - 1 \in 0..k
    OBVIOUS
  <2>. QED  BY <1>3, <2>1 DEF Piece
<1>7. Piece(s, f, k + 1) = SubSeq(s, e[k] + 1, e[k] + m)
  <2>1. (k + 1) - 1 = k /\ k \in 0..k
    OBVIOUS
  <2>. QED  BY <1>3, <2>1 DEF Piece
<1>. QED  BY <1>3, <1>5, <1>6, <1>7

\* A part of the rest is a part of the whole.
LEMMA PartOfRest ==
    ASSUME NEW s \in Seq(Byte), NEW i \in 0..Len(s), NEW m \in 0..(Len(s) - i)
    PROVE  SubSeq(Rest(s, i), 1, m) = SubSeq(s, i + 1, i + m)
<1>. DEFINE a == SubSeq(Rest(s, i), 1, m)
            b == SubSeq(s, i + 1, i + m)
<1>1. Len(s) \in Nat /\ i \in Nat /\ m \in Nat /\ i + m <= Len(s)
  BY Extension
<1>2. /\ Rest(s, i) \in Seq(Byte) /\ Len(Rest(s, i)) = Len(s) - i
      /\ \A k \in 1..(Len(s) - i) : Rest(s, i)[k] = s[i + k]
  BY <1>1, RestIs
<1>3. a \in Seq(Byte) /\ Len(a) = m /\ \A k \in 1..m : a[k] = Rest(s, i)[k]
  BY <1>1, <1>2
<1>4. b \in Seq(Byte) /\ Len(b) = m /\ \A k \in 1..m : b[k] = s[i + k]
  <2>1. b \in Seq(Byte) /\ Len(b) = m
    BY <1>1
  <2>2. ASSUME NEW k \in 1..m PROVE b[k] = s[i + k]
    BY <1>1
  <2>. QED  BY <2>1, <2>2
<1>. HIDE DEF a, b
<1>5. \A k \in 1..m : a[k] = b[k]
  <2>1. \A k \in 1..m : k \in 1..(Len(s) - i)
    BY <1>1
  <2>. QED  BY <1>2, <1>3, <1>4, <2>1
<1>6. a = b
  BY <1>3, <1>4, <1>5, SeqEqual
<1>. QED  BY <1>6 DEF a, b

LEMMA NextLineKeeps ==
    ASSUME NEW s \in Seq(Byte), NEW n \in Nat, NEW r, ReadBy(s, r, n)
    PROVE  ReadBy(s, NextLine(s, r), n + 1)
<1>. DEFINE u == NextLine(s, r)
<1>1. r \in Replies
  BY DEF ReadBy
<1>2. PICK k \in 0..n : \E e : ReadIn(s, r, n, e, k)
  BY DEF ReadBy
<1>3. PICK e : ReadIn(s, r, n, e, k)
  BY <1>2
<1>4. k \in Nat /\ k \in 0..(n + 1) /\ Len(s) \in Nat
  BY Extension
<1>5. CASE r.status # "MORE"
  <2>1. u = r
    BY <1>5 DEF NextLine
  <2>2. ReadIn(s, r, n + 1, e, k)
    BY <1>3, <1>5 DEF ReadIn
  <2>. QED  BY <1>1, <1>4, <2>1, <2>2 DEF ReadBy
<1>6. CASE r.status = "MORE"
  <2>. DEFINE t == Rest(s, e[k])
              m == TextEnd(t) + 1
              l == SubSeq(t, 1, m)
  <2>1. /\ ReadTo(s, e, k, r) /\ k = n /\ Continued(s, e, k) /\ Cut(s, e, k)
        /\ r.consumed = e[k] /\ Len(r.texts) = k
    BY <1>3, <1>6 DEF ReadIn, ReadTo
  <2>2. e[k] \in 0..Len(s) /\ e[k] \in Nat
    BY <1>4, <2>1 DEF Cut
  <2>3. /\ t \in Seq(Byte) /\ Len(t) = Len(s) - e[k]
        /\ \A j \in 1..(Len(s) - e[k]) : t[j] = s[e[k] + j]
    <3>1. PICK i \in Nat : i = e[k] /\ i <= Len(s)
      BY <1>4, <2>2
    <3>2. /\ Rest(s, i) \in Seq(Byte) /\ Len(Rest(s, i)) = Len(s) - i
          /\ \A j \in 1..(Len(s) - i) : Rest(s, i)[j] = s[i + j]
      BY <3>1, RestIs
    <3>. QED  BY <3>1, <3>2
  <2>4. u = AddLine(r, ParseLine(t))
    BY <1>6, <2>1 DEF NextLine
  <2>5. r.texts = <<>> <=> k = 0
    BY <1>1, <2>1 DEF Replies
  <2>. HIDE DEF u
  <2>6. CASE LineStatus(t) # "OK" /\ u = [r EXCEPT !.status = LineStatus(t)]
    <3>1. LineStatus(t) \in {"INCOMPLETE", "ERROR"}
      BY <2>3, <2>6, VerdictIs
    <3>2. /\ u \in Replies /\ u.status = LineStatus(t) /\ u.code = r.code /\ u.consumed = r.consumed
          /\ u.texts = r.texts
      <4>1. PICK st \in Verdicts : st = LineStatus(t)
        BY <3>1 DEF Verdicts
      <4>2. LET v == [r EXCEPT !.status = st]
            IN  /\ v \in Replies /\ v.status = st /\ v.code = r.code
                /\ v.consumed = r.consumed /\ v.texts = r.texts
        BY <1>1, StatusSet
      <4>3. u = [r EXCEPT !.status = st]
        BY <2>6, <4>1
      <4>. QED  BY <4>1, <4>2, <4>3
    <3>3. ReadTo(s, e, k, u)
      BY <2>1, <3>2 DEF ReadTo
    <3>4. ReadIn(s, u, n + 1, e, k)
      BY <2>1, <3>1, <3>2, <3>3 DEF ReadIn, Refused
    <3>. QED  BY <1>4, <3>2, <3>4 DEF ReadBy, u
  <2>7. CASE /\ LineStatus(t) = "OK" /\ r.texts # <<>> /\ SubSeq(l, 1, 3) # r.code
             /\ u = [r EXCEPT !.status = "ERROR"]
    <3>1. /\ u \in Replies /\ u.status = "ERROR" /\ u.code = r.code /\ u.consumed = r.consumed
          /\ u.texts = r.texts
      <4>1. PICK st \in Verdicts : st = "ERROR"
        BY DEF Verdicts
      <4>2. LET v == [r EXCEPT !.status = st]
            IN  /\ v \in Replies /\ v.status = st /\ v.code = r.code
                /\ v.consumed = r.consumed /\ v.texts = r.texts
        BY <1>1, StatusSet
      <4>3. u = [r EXCEPT !.status = st]
        BY <2>7, <4>1
      <4>. QED  BY <4>1, <4>2, <4>3
    <3>2. ReadTo(s, e, k, u)
      BY <2>1, <3>1 DEF ReadTo
    <3>3. SubSeq(t, 1, 3) = SubSeq(l, 1, 3)
      BY <2>3, <2>7, CodeOfLine
    <3>4. ReadIn(s, u, n + 1, e, k)
      BY <2>1, <2>5, <2>7, <3>1, <3>2, <3>3 DEF ReadIn, Refused
    <3>. QED  BY <1>4, <3>1, <3>4 DEF ReadBy, u
  <2>8. CASE /\ LineStatus(t) = "OK" /\ (r.texts = <<>> \/ SubSeq(l, 1, 3) = r.code)
             /\ u = [status |-> IF l[4] # "-" THEN "OK" ELSE "MORE", code |-> SubSeq(l, 1, 3),
                     consumed |-> r.consumed + m,
                     texts |-> Append(r.texts, SubSeq(l, 5, Len(l) - 2))]
    <3>. DEFINE txt == SubSeq(l, 5, Len(l) - 2)
    <3>1. /\ m \in 1..Len(t) /\ IsReplyLine(l) /\ t[m] = "LF" /\ \A j \in 1..(m - 1) : t[j] # "LF"
          /\ SubSeq(l, 1, 3) \in Seq(Byte) /\ txt \in Seq(Byte)
      BY <2>3, <2>8, LineSays
    <3>. HIDE DEF t, m, l
    <3>2. m \in 1..(Len(s) - e[k]) /\ m \in Nat
      BY <1>4, <2>2, <2>3, <3>1
    <3>3. s[e[k] + m] = "LF" /\ \A j \in 1..(m - 1) : s[e[k] + j] # "LF"
      <4>1. \A j \in 1..(m - 1) : j \in 1..(Len(s) - e[k])
        BY <1>4, <2>2, <3>2
      <4>. QED  BY <2>3, <3>1, <3>2, <4>1
    <3>4. PICK f : /\ Cut(s, f, k + 1) /\ f[k + 1] = e[k] + m
                   /\ \A i \in 1..k : Piece(s, f, i) = Piece(s, e, i)
                   /\ Piece(s, f, k + 1) = SubSeq(s, e[k] + 1, e[k] + m)
      <4>1. PICK d \in 1..(Len(s) - e[k]) : d = m
        BY <3>2
      <4>2. s[e[k] + d] = "LF" /\ \A j \in 1..(d - 1) : s[e[k] + j] # "LF"
        BY <3>3, <4>1
      <4>3. k \in Nat /\ Cut(s, e, k)
        BY <1>4, <2>1
      <4>4. \E f : /\ Cut(s, f, k + 1) /\ f[k + 1] = e[k] + d
                   /\ \A i \in 1..k : Piece(s, f, i) = Piece(s, e, i)
                   /\ Piece(s, f, k + 1) = SubSeq(s, e[k] + 1, e[k] + d)
        BY <4>2, <4>3, OneMoreLine
      <4>. QED  BY <4>1, <4>4
    <3>5. l = SubSeq(s, e[k] + 1, e[k] + m)
      <4>1. m \in 0..(Len(s) - e[k])
        BY <3>2
      <4>. QED  BY <2>2, <4>1, PartOfRest DEF l, t
    <3>. HIDE DEF txt
    <3>6. /\ u.status = (IF l[4] # "-" THEN "OK" ELSE "MORE") /\ u.code = SubSeq(l, 1, 3)
          /\ u.consumed = e[k] + m /\ u.texts = Append(r.texts, txt)
      BY <2>1, <2>8 DEF txt
    <3>7. /\ u.texts \in Seq(Seq(Byte)) /\ Len(u.texts) = k + 1 /\ u.texts[k + 1] = txt
          /\ \A i \in 1..k : u.texts[i] = r.texts[i]
      <4>1. r.texts \in Seq(Seq(Byte))
        BY <1>1 DEF Replies
      <4>2. PICK q \in Seq(Seq(Byte)) : q = r.texts
        BY <4>1
      <4>3. PICK x \in Seq(Byte) : x = txt
        BY <3>1
      <4>4. /\ Append(q, x) \in Seq(Seq(Byte)) /\ Len(Append(q, x)) = Len(q) + 1
            /\ Append(q, x)[Len(q) + 1] = x /\ \A i \in 1..Len(q) : Append(q, x)[i] = q[i]
        BY Appended
      <4>5. u.texts = Append(q, x) /\ Len(q) = k
        BY <2>1, <3>6, <4>2, <4>3
      <4>. HIDE DEF u
      <4>6. /\ u.texts \in Seq(Seq(Byte)) /\ Len(u.texts) = k + 1 /\ u.texts[k + 1] = x
            /\ \A i \in 1..k : u.texts[i] = q[i]
        BY <4>4, <4>5
      <4>. QED  BY <4>2, <4>3, <4>6
    <3>8. u \in Replies
      <4>1. u.status \in Verdicts /\ u.consumed \in Nat
        <5>1. u.status \in Verdicts
          <6>1. CASE l[4] # "-"
            BY <3>6, <6>1 DEF Verdicts
          <6>2. CASE ~(l[4] # "-")
            BY <3>6, <6>2 DEF Verdicts
          <6>. QED  BY <6>1, <6>2
        <5>2. e[k] + m \in Nat
          BY <2>2, <3>2
        <5>. QED  BY <3>6, <5>1, <5>2
      <4>2. u = [status |-> u.status, code |-> u.code, consumed |-> u.consumed, texts |-> u.texts]
        BY <2>8
      <4>. QED  BY <3>1, <3>6, <3>7, <4>1, <4>2 DEF Replies
    <3>9. ASSUME NEW i \in 1..(k + 1)
          PROVE  /\ IsReplyLine(Piece(s, f, i)) /\ SubSeq(Piece(s, f, i), 1, 3) = u.code
                 /\ u.texts[i] = SubSeq(Piece(s, f, i), 5, Len(Piece(s, f, i)) - 2)
      <4>1. CASE i = k + 1
        BY <3>1, <3>4, <3>5, <3>6, <3>7, <4>1 DEF txt
      <4>2. CASE i # k + 1
        <5>1. i \in 1..k /\ k # 0
          BY <1>4, <4>2
        <5>2. r.code = u.code
          BY <2>5, <2>8, <3>6, <5>1
        <5>. QED  BY <2>1, <3>4, <3>7, <5>1, <5>2 DEF ReadTo
      <4>. QED  BY <4>1, <4>2
    <3>10. ReadTo(s, f, k + 1, u)
      BY <3>4, <3>6, <3>7, <3>9 DEF ReadTo
    <3>11. Continued(s, f, k) /\ Piece(s, f, k + 1)[4] = l[4]
      BY <2>1, <3>4, <3>5 DEF Continued
    <3>12. ReadIn(s, u, n + 1, f, k + 1)
      <4>1. CASE l[4] # "-"
        <5>1. (k + 1) - 1 = k /\ k + 1 # 0
          BY <1>4
        <5>. QED  BY <3>6, <3>10, <3>11, <4>1, <5>1 DEF ReadIn
      <4>2. CASE l[4] = "-"
        <5>1. Continued(s, f, k + 1)
          <6>1. \A i \in 1..(k + 1) : i \in 1..k \/ i = k + 1
            BY <1>4
          <6>. QED  BY <3>11, <4>2, <6>1 DEF Continued
        <5>. QED  BY <2>1, <3>6, <3>10, <4>2, <5>1 DEF ReadIn
      <4>. QED  BY <4>1, <4>2
    <3>13. k + 1 \in 0..(n + 1)
      BY <1>4
    <3>. QED  BY <3>8, <3>12, <3>13 DEF ReadBy, u
  <2>. QED  BY <1>1, <2>3, <2>4, <2>6, <2>7, <2>8, AddLineIs
<1>. QED  BY <1>5, <1>6

LEMMA NextLineType ==
    ASSUME NEW s \in Seq(Byte), NEW r \in Replies
    PROVE  NextLine(s, r) \in Replies
<1>. DEFINE u == NextLine(s, r)
<1>1. CASE r.status # "MORE"
  BY <1>1 DEF NextLine
<1>2. CASE r.status = "MORE"
  <2>. DEFINE t == Rest(s, r.consumed)
              m == TextEnd(t) + 1
              l == SubSeq(t, 1, m)
  <2>1. r.consumed \in Nat /\ r.texts \in Seq(Seq(Byte))
    BY DEF Replies
  <2>2. t \in Seq(Byte)
    BY <2>1, RestIs
  <2>3. u = AddLine(r, ParseLine(t))
    BY <1>2 DEF NextLine
  <2>. HIDE DEF u
  <2>4. CASE u = [r EXCEPT !.status = LineStatus(t)]
    <3>1. PICK st \in Verdicts : st = LineStatus(t)
      BY <2>2, VerdictIs DEF Verdicts
    <3>2. [r EXCEPT !.status = st] \in Replies
      BY StatusSet
    <3>. QED  BY <2>4, <3>1, <3>2 DEF u
  <2>5. CASE u = [r EXCEPT !.status = "ERROR"]
    <3>1. PICK st \in Verdicts : st = "ERROR"
      BY DEF Verdicts
    <3>2. [r EXCEPT !.status = st] \in Replies
      BY StatusSet
    <3>. QED  BY <2>5, <3>1, <3>2 DEF u
  <2>6. CASE /\ LineStatus(t) = "OK"
             /\ u = [status |-> IF l[4] # "-" THEN "OK" ELSE "MORE", code |-> SubSeq(l, 1, 3),
                     consumed |-> r.consumed + m,
                     texts |-> Append(r.texts, SubSeq(l, 5, Len(l) - 2))]
    <3>1. m \in 1..Len(t) /\ SubSeq(l, 1, 3) \in Seq(Byte) /\ SubSeq(l, 5, Len(l) - 2) \in Seq(Byte)
      BY <2>2, <2>6, LineSays
    <3>. DEFINE code == SubSeq(l, 1, 3)
                txt == SubSeq(l, 5, Len(l) - 2)
                consumed == r.consumed + m
    <3>2. consumed \in Nat
      <4>1. m \in Nat
        BY <2>2, <3>1, Extension
      <4>. QED  BY <2>1, <4>1
    <3>. HIDE DEF m, consumed, code, txt
    <3>3. PICK st \in Verdicts : st = IF l[4] # "-" THEN "OK" ELSE "MORE"
      <4>1. CASE l[4] # "-"
        BY <4>1 DEF Verdicts
      <4>2. CASE ~(l[4] # "-")
        BY <4>2 DEF Verdicts
      <4>. QED  BY <4>1, <4>2
    <3>4. Append(r.texts, txt) \in Seq(Seq(Byte))
      <4>1. PICK q \in Seq(Seq(Byte)) : q = r.texts
        BY <2>1
      <4>2. PICK x \in Seq(Byte) : x = txt
        BY <3>1 DEF txt
      <4>3. Append(q, x) \in Seq(Seq(Byte))
        OBVIOUS
      <4>. QED  BY <4>1, <4>2, <4>3
    <3>5. u = [status |-> st, code |-> code, consumed |-> consumed, texts |-> Append(r.texts, txt)]
      BY <2>6, <3>3 DEF code, txt, consumed
    <3>6. code \in Seq(Byte)
      BY <3>1 DEF code
    <3>. QED  BY <3>2, <3>4, <3>5, <3>6 DEF Replies, u
  <2>. QED  BY <2>2, <2>3, <2>4, <2>5, <2>6, AddLineIs
<1>. QED  BY <1>1, <1>2

\* Values made one of the other stay in A.
LEMMA Typed ==
    ASSUME NEW A, NEW lo \in Nat, NEW hi \in Nat, NEW c, c[lo] \in A,
           \A i \in (lo + 1)..hi : c[i - 1] \in A => c[i] \in A
    PROVE  \A i \in lo..hi : c[i] \in A
<1>. DEFINE T == {i \in lo..hi : c[i] \notin A}
<1>1. SUFFICES ASSUME T # {} PROVE FALSE
  OBVIOUS
<1>2. T \subseteq Nat
  OBVIOUS
<1>3. PICK i \in T : \A j \in T : i <= j
  BY <1>1, <1>2, LeastNatural
<1>4. i \in (lo + 1)..hi /\ i - 1 \in lo..hi /\ ~(i <= i - 1)
  BY <1>3
<1>. QED  BY <1>3, <1>4

\* What the iterations find, one after the other.
Reading(s, g) ==
    /\ g \in [0..MaxLines -> Replies] /\ g[0] = NothingRead
    /\ \A i \in 1..MaxLines : g[i] = NextLine(s, g[i - 1])

LEMMA NothingReadIsReply == NothingRead \in Replies
<1>1. <<>> \in Seq(Byte) /\ <<>> \in Seq(Seq(Byte)) /\ "MORE" \in Verdicts /\ 0 \in Nat
  BY DEF Verdicts
<1>. QED  BY <1>1 DEF NothingRead, Replies

LEMMA ReplyReadIs ==
    ASSUME NEW s \in Seq(Byte)
    PROVE  \E g : /\ Reading(s, g)
                  /\ ReplyRead(s) = IF g[MaxLines].status = "MORE"
                                      THEN [g[MaxLines] EXCEPT !.status = "ERROR"]
                                      ELSE g[MaxLines]
<1>. DEFINE Body(g) == [n \in 0..MaxLines |->
                IF n = 0 THEN NothingRead
                ELSE IF g[n - 1].status # "MORE" THEN g[n - 1]
                ELSE AddLine(g[n - 1], ParseLine(SubSeq(s, g[n - 1].consumed + 1, Len(s))))]
            c == CHOOSE g : g = Body(g)
<1>1. MaxLines \in Nat /\ MaxLines >= 1
  BY MaxLinesAssumption
<1>2. ReplyRead(s) = IF c[MaxLines].status = "MORE" THEN [c[MaxLines] EXCEPT !.status = "ERROR"]
                     ELSE c[MaxLines]
  BY DEF ReplyRead
<1>3. \E d : d = Body(d)
  <2>. DEFINE F == [i \in (0 + 1)..MaxLines |-> [r \in Replies |-> NextLine(s, r)]]
  <2>1. F \in [(0 + 1)..MaxLines -> [Replies -> Replies]]
    BY NextLineType
  <2>. HIDE DEF F
  <2>2. PICK d \in [0..MaxLines -> Replies] :
            d[0] = NothingRead /\ \A i \in (0 + 1)..MaxLines : d[i] = F[i][d[i - 1]]
    <3>. DEFINE A == Replies
    <3>1. NothingRead \in A /\ F \in [(0 + 1)..MaxLines -> [A -> A]] /\ 0 \in Nat /\ MaxLines \in Nat
          /\ 0 <= MaxLines
      BY <1>1, <2>1, NothingReadIsReply
    <3>. HIDE DEF A
    <3>2. PICK x \in A : x = NothingRead
      BY <3>1
    <3>3. \E d : Recursive(A, 0, MaxLines, x, F, d)
      BY <3>1, Recursion
    <3>. QED  BY <3>2, <3>3 DEF A, Recursive
  <2>3. ASSUME NEW n \in 0..MaxLines PROVE d[n] = Body(d)[n]
    <3>1. CASE n = 0
      BY <2>2, <3>1
    <3>2. CASE n # 0
      <4>1. n \in (0 + 1)..MaxLines /\ n - 1 \in 0..MaxLines
        BY <1>1, <3>2
      <4>2. d[n] = F[n][d[n - 1]] /\ d[n - 1] \in Replies
        BY <2>2, <4>1
      <4>3. F[n][d[n - 1]] = NextLine(s, d[n - 1])
        <5>1. PICK r \in Replies : r = d[n - 1]
          BY <4>2
        <5>2. F[n][r] = NextLine(s, r)
          BY <4>1 DEF F
        <5>. QED  BY <5>1, <5>2
      <4>. QED  BY <3>2, <4>2, <4>3 DEF NextLine, Rest
    <3>. QED  BY <3>1, <3>2
  <2>4. d = [n \in 0..MaxLines |-> d[n]]
    OBVIOUS
  <2>. QED  BY <2>3, <2>4
<1>4. c = Body(c)
  BY <1>3
<1>. HIDE DEF c
<1>5. c[0] = NothingRead /\ \A i \in 1..MaxLines : c[i] = NextLine(s, c[i - 1])
  <2>. DEFINE b == Body(c)
  <2>1. b[0] = NothingRead /\ \A i \in 1..MaxLines : b[i] = NextLine(s, c[i - 1])
    <3>1. 0 \in 0..MaxLines /\ \A i \in 1..MaxLines : i \in 0..MaxLines /\ i # 0
      BY <1>1
    <3>. QED  BY <3>1 DEF NextLine, Rest
  <2>2. c = b
    BY <1>4
  <2>. HIDE DEF b
  <2>. QED  BY <2>1, <2>2
<1>6. \A i \in 0..MaxLines : c[i] \in Replies
  <2>1. c[0] \in Replies
    BY <1>5, NothingReadIsReply
  <2>2. \A i \in (0 + 1)..MaxLines : c[i - 1] \in Replies => c[i] \in Replies
    BY <1>5, NextLineType
  <2>. QED  BY <1>1, <2>1, <2>2, Typed
<1>7. c = [n \in 0..MaxLines |-> c[n]]
  <2>. DEFINE b == Body(c)
  <2>1. b = [n \in 0..MaxLines |-> b[n]]
    OBVIOUS
  <2>2. c = b
    BY <1>4
  <2>. HIDE DEF b
  <2>. QED  BY <2>1, <2>2
<1>8. Reading(s, c)
  <2>1. c \in [0..MaxLines -> Replies]
    BY <1>6, <1>7
  <2>. QED  BY <1>5, <2>1 DEF Reading
<1>. QED  BY <1>2, <1>8

\* What each iteration finds is what the lines before it say.
LEMMA ReadingKeeps ==
    ASSUME NEW s \in Seq(Byte), NEW g, Reading(s, g), NEW n \in 0..MaxLines
    PROVE  ReadBy(s, g[n], n)
<1>. DEFINE T == {i \in 0..MaxLines : ~ReadBy(s, g[i], i)}
<1>0. MaxLines \in Nat
  BY MaxLinesAssumption
<1>1. SUFFICES ASSUME T # {} PROVE FALSE
  OBVIOUS
<1>2. T \subseteq Nat
  OBVIOUS
<1>3. PICK i \in T : \A j \in T : i <= j
  BY <1>1, <1>2, LeastNatural
<1>4. ReadBy(s, g[0], 0)
  <2>. DEFINE e == [z \in 0..0 |-> 0]
  <2>1. Len(s) \in Nat
    BY Extension
  <2>2. e \in [0..0 -> 0..Len(s)] /\ e[0] = 0
    BY <2>1
  <2>. HIDE DEF e
  <2>3. Cut(s, e, 0)
    BY <2>2 DEF Cut
  <2>4. /\ NothingRead.consumed = 0 /\ Len(NothingRead.texts) = 0 /\ NothingRead.status = "MORE"
        /\ NothingRead.consumed = e[0]
    BY <2>2 DEF NothingRead
  <2>5. ReadTo(s, e, 0, NothingRead)
    BY <2>3, <2>4 DEF ReadTo
  <2>6. ReadIn(s, NothingRead, 0, e, 0)
    BY <2>4, <2>5 DEF ReadIn, Continued
  <2>7. g[0] = NothingRead /\ 0 \in 0..0
    BY DEF Reading
  <2>. QED  BY <2>6, <2>7, NothingReadIsReply DEF ReadBy
<1>5. i \in 1..MaxLines /\ i - 1 \in 0..MaxLines /\ ~(i <= i - 1) /\ (i - 1) + 1 = i
  BY <1>0, <1>3, <1>4
<1>6. ReadBy(s, g[i - 1], i - 1)
  BY <1>3, <1>5
<1>7. g[i] = NextLine(s, g[i - 1])
  BY <1>5 DEF Reading
<1>8. ReadBy(s, NextLine(s, g[i - 1]), (i - 1) + 1)
  <2>1. PICK n1 \in Nat : n1 = i - 1
    BY <1>5
  <2>2. PICK r : r = g[i - 1]
    OBVIOUS
  <2>3. ReadBy(s, r, n1)
    BY <1>6, <2>1, <2>2
  <2>4. ReadBy(s, NextLine(s, r), n1 + 1)
    BY <2>3, NextLineKeeps
  <2>. QED  BY <2>1, <2>2, <2>4
<1>. QED  BY <1>3, <1>5, <1>7, <1>8

-----------------------------------------------------------------------------
(* The verdict on a reply is final.                                          *)

LEMMA RestOfLonger ==
    ASSUME NEW s \in Seq(Byte), NEW t \in Seq(Byte), NEW i \in 0..Len(s)
    PROVE  Rest(s \o t, i) = Rest(s, i) \o t
<1>. DEFINE u == s \o t
            a == Rest(u, i)
            r == Rest(s, i)
            b == r \o t
<1>1. /\ Len(s) \in Nat /\ Len(t) \in Nat /\ u \in Seq(Byte) /\ Len(u) = Len(s) + Len(t) /\ i \in Nat
      /\ i <= Len(s) /\ i <= Len(u)
  BY Extension
<1>2. /\ a \in Seq(Byte) /\ Len(a) = Len(u) - i /\ \A k \in 1..(Len(u) - i) : a[k] = u[i + k]
      /\ r \in Seq(Byte) /\ Len(r) = Len(s) - i /\ \A k \in 1..(Len(s) - i) : r[k] = s[i + k]
  <2>. HIDE DEF u
  <2>. QED  BY <1>1, RestIs
<1>. HIDE DEF a, r
<1>3. b \in Seq(Byte) /\ Len(b) = Len(r) + Len(t)
  BY <1>2, Extension
<1>4. ASSUME NEW k \in 1..Len(a) PROVE a[k] = b[k]
  <2>1. k \in Nat /\ k >= 1 /\ k <= Len(u) - i /\ a[k] = u[i + k]
    BY <1>1, <1>2
  <2>2. CASE k <= Len(r)
    <3>1. b[k] = r[k]
      BY <1>2, <2>1, <2>2
    <3>2. u[i + k] = s[i + k]
      BY <1>1, <1>2, <2>1, <2>2
    <3>. QED  BY <1>2, <2>1, <2>2, <3>1, <3>2
  <2>3. CASE ~(k <= Len(r))
    <3>1. b[k] = t[k - Len(r)]
      BY <1>1, <1>2, <2>1, <2>3
    <3>2. u[i + k] = t[(i + k) - Len(s)]
      BY <1>1, <1>2, <2>1, <2>3
    <3>3. k - Len(r) = (i + k) - Len(s)
      BY <1>1, <1>2, <2>1
    <3>. QED  BY <2>1, <3>1, <3>2, <3>3
  <2>. QED  BY <2>2, <2>3
<1>5. Len(a) = Len(b)
  BY <1>1, <1>2, <1>3
<1>. HIDE DEF u, b
<1>6. a = b
  BY <1>2, <1>3, <1>4, <1>5, SeqEqual
<1>. QED  BY <1>6 DEF a, b, u, r

LEMMA ConsumedWithin ==
    ASSUME NEW s \in Seq(Byte), NEW n \in Nat, NEW r, ReadBy(s, r, n)
    PROVE  r \in Replies /\ r.consumed \in 0..Len(s)
<1>1. PICK k \in 0..n : \E e : ReadIn(s, r, n, e, k)
  BY DEF ReadBy
<1>2. PICK e : ReadIn(s, r, n, e, k)
  BY <1>1
<1>3. r.consumed = e[k] /\ e \in [0..k -> 0..Len(s)] /\ k \in 0..k
  BY <1>2 DEF ReadIn, ReadTo, Cut
<1>. QED  BY <1>3 DEF ReadBy

LEMMA ReadingFinal ==
    ASSUME NEW s \in Seq(Byte), NEW t \in Seq(Byte), NEW g, NEW h, Reading(s, g), Reading(s \o t, h),
           NEW n \in 0..MaxLines, g[n].status # "INCOMPLETE"
    PROVE  h[n] = g[n]
<1>. DEFINE T == {i \in 0..MaxLines : g[i].status # "INCOMPLETE" /\ h[i] # g[i]}
<1>1. SUFFICES ASSUME T # {} PROVE FALSE
  OBVIOUS
<1>2. T \subseteq Nat
  OBVIOUS
<1>3. PICK i \in T : \A j \in T : i <= j
  BY <1>1, <1>2, LeastNatural
<1>4. g[0] = NothingRead /\ h[0] = NothingRead
  BY DEF Reading
<1>5. i \in 1..MaxLines /\ i - 1 \in 0..MaxLines /\ ~(i <= i - 1) /\ i - 1 \in Nat
  BY <1>3, <1>4, MaxLinesAssumption
<1>6. g[i] = NextLine(s, g[i - 1]) /\ h[i] = NextLine(s \o t, h[i - 1])
  BY <1>5 DEF Reading
<1>7. g[i - 1].status # "INCOMPLETE"
  <2>. SUFFICES ASSUME g[i - 1].status = "INCOMPLETE" PROVE FALSE
    OBVIOUS
  <2>1. g[i] = g[i - 1]
    BY <1>6 DEF NextLine
  <2>. QED  BY <1>3, <2>1
<1>8. h[i - 1] = g[i - 1]
  BY <1>3, <1>5, <1>7
<1>9. CASE g[i - 1].status # "MORE"
  BY <1>3, <1>6, <1>8, <1>9 DEF NextLine
<1>10. CASE g[i - 1].status = "MORE"
  <2>1. PICK r : r = g[i - 1]
    OBVIOUS
  <2>2. ReadBy(s, r, i - 1)
    BY <1>5, <2>1, ReadingKeeps
  <2>3. PICK m \in Nat : m = i - 1
    BY <1>5
  <2>4. r \in Replies /\ r.consumed \in 0..Len(s)
    BY <2>2, <2>3, ConsumedWithin
  <2>. DEFINE w == Rest(s, r.consumed)
  <2>5. Rest(s \o t, r.consumed) = w \o t
    BY <2>4, RestOfLonger
  <2>6. w \in Seq(Byte)
    BY <2>4, RestIs DEF Replies
  <2>7. g[i] = AddLine(r, ParseLine(w)) /\ h[i] = AddLine(r, ParseLine(w \o t))
    BY <1>6, <1>8, <1>10, <2>1, <2>5 DEF NextLine
  <2>. HIDE DEF w
  <2>8. LineStatus(w) # "INCOMPLETE"
    <3>. SUFFICES ASSUME LineStatus(w) = "INCOMPLETE" PROVE FALSE
      OBVIOUS
    <3>1. g[i] = [r EXCEPT !.status = "INCOMPLETE"]
      <4>1. ParseLine(w) = [status |-> "INCOMPLETE"]
        BY DEF ParseLine
      <4>2. [status |-> "INCOMPLETE"].status = "INCOMPLETE"
        OBVIOUS
      <4>. QED  BY <2>7, <4>1, <4>2 DEF AddLine
    <3>2. "INCOMPLETE" \in Verdicts
      BY DEF Verdicts
    <3>3. g[i].status = "INCOMPLETE"
      BY <2>4, <3>1 DEF Replies
    <3>. QED  BY <1>3, <3>3
  <2>9. ParseLine(w \o t) = ParseLine(w)
    BY <2>6, <2>8, LineVerdictFinal
  <2>. QED  BY <1>3, <2>7, <2>9
<1>. QED  BY <1>9, <1>10

\* Whatever arrives behind a reply that was accepted or refused, reading the
\* whole buffer again gives the same reply, of the same bytes.
THEOREM ReplyVerdictFinal ==
    ASSUME NEW s \in Seq(Byte), NEW t \in Seq(Byte), ReplyRead(s).status # "INCOMPLETE"
    PROVE  ReplyRead(s \o t) = ReplyRead(s)
<1>1. s \o t \in Seq(Byte) /\ MaxLines \in 0..MaxLines /\ MaxLines \in Nat
  BY MaxLinesAssumption, Extension
<1>2. PICK g : /\ Reading(s, g)
               /\ ReplyRead(s) = IF g[MaxLines].status = "MORE"
                                   THEN [g[MaxLines] EXCEPT !.status = "ERROR"] ELSE g[MaxLines]
  BY ReplyReadIs
<1>3. PICK h : /\ Reading(s \o t, h)
               /\ ReplyRead(s \o t) = IF h[MaxLines].status = "MORE"
                                        THEN [h[MaxLines] EXCEPT !.status = "ERROR"] ELSE h[MaxLines]
  BY <1>1, ReplyReadIs
<1>4. g[MaxLines].status # "INCOMPLETE"
  BY <1>2
<1>5. h[MaxLines] = g[MaxLines]
  BY <1>1, <1>2, <1>3, <1>4, ReadingFinal
<1>. QED  BY <1>2, <1>3, <1>5

\* What is sent are bytes, and the reply is read of all that has arrived.
Fed ==
    /\ left \in Seq(Byte) /\ buf \in Seq(Byte)
    /\ reply = ReplyRead(buf)

LEMMA FedInit == Init => Fed
  BY DEF Init, Fed

LEMMA FedStep == ASSUME Fed, [Next]_vars PROVE Fed' /\ (reply.status # "INCOMPLETE" => reply' = reply)
<1>1. ASSUME NEW line \in Lines, Send(line) PROVE Fed' /\ reply' = reply
  <2>1. line \in Seq(Byte)
    BY EhloAssumption DEF Byte
  <2>. QED  BY <1>1, <2>1 DEF Send, Fed
<1>2. CASE ReadByte
  <2>. DEFINE b == Append(buf, Head(left))
  <2>1. Head(left) \in Byte /\ left' \in Seq(Byte)
    BY <1>2 DEF ReadByte, Fed
  <2>2. b \in Seq(Byte) /\ b = buf \o <<Head(left)>> /\ <<Head(left)>> \in Seq(Byte)
    BY <2>1 DEF Fed
  <2>. HIDE DEF b
  <2>3. buf' = b /\ reply' = ReplyRead(b)
    BY <1>2 DEF ReadByte, b
  <2>4. Fed'
    BY <2>1, <2>2, <2>3 DEF Fed
  <2>5. ASSUME reply.status # "INCOMPLETE" PROVE reply' = reply
    <3>1. PICK x \in Seq(Byte) : x = buf
      BY DEF Fed
    <3>2. PICK y \in Seq(Byte) : y = <<Head(left)>>
      BY <2>2
    <3>3. ReplyRead(x).status # "INCOMPLETE"
      BY <2>5, <3>1 DEF Fed
    <3>4. ReplyRead(x \o y) = ReplyRead(x)
      BY <3>3, ReplyVerdictFinal
    <3>5. b = x \o y
      BY <2>2, <3>1, <3>2
    <3>. QED  BY <2>3, <3>1, <3>4, <3>5 DEF Fed
  <2>. QED  BY <2>4, <2>5
<1>3. CASE UNCHANGED vars
  BY <1>3 DEF vars, Fed
<1>. QED  BY <1>1, <1>2, <1>3 DEF Next, Silent

\* VerdictStable: once the verdict on the bytes received is anything but
\* "incomplete", no byte that follows changes the reply the connection acts on.
THEOREM VerdictFinal == Spec => VerdictStable
<1>1. Fed /\ [Next]_vars => Fed'
  BY FedStep
<1>2. Fed /\ [Next]_vars => [reply.status # "INCOMPLETE" => reply' = reply]_vars
  BY FedStep
<1>. QED  BY FedInit, <1>1, <1>2, PTL DEF Spec, VerdictStable

-----------------------------------------------------------------------------
(* The lines of a buffer, by where they end.                                 *)

LEMMA CutGrows ==
    ASSUME NEW s \in Seq(Byte), NEW k, NEW e, Cut(s, e, k), NEW i \in 0..k, NEW j \in 0..k, i < j
    PROVE  e[i] < e[j]
<1>. DEFINE T == {x \in (i + 1)..k : ~(e[i] < e[x])}
<1>0. k \in Nat /\ e \in [0..k -> 0..Len(s)] /\ Len(s) \in Nat
  BY Extension DEF Cut
<1>1. SUFFICES ASSUME T # {} PROVE FALSE
  <2>1. j \in (i + 1)..k
    BY <1>0
  <2>. QED  BY <2>1
<1>2. T \subseteq Nat
  BY <1>0
<1>3. PICK x \in T : \A y \in T : x <= y
  BY <1>1, <1>2, LeastNatural
<1>4. x \in 1..k /\ x - 1 \in 0..k /\ x \in 0..k /\ ~(x <= x - 1) /\ (x - 1 = i \/ x - 1 \in (i + 1)..k)
  BY <1>0, <1>3
<1>5. e[x - 1] < e[x]
  BY <1>4 DEF Cut
<1>6. e[x - 1] \in Nat /\ e[x] \in Nat /\ e[i] \in Nat
  BY <1>0, <1>4
<1>7. x - 1 = i \/ e[i] < e[x - 1]
  BY <1>3, <1>4
<1>8. e[i] < e[x]
  BY <1>5, <1>6, <1>7
<1>. QED  BY <1>3, <1>8

\* Up to the end of the last one, they end where an LF is.
LEMMA CutEnds ==
    ASSUME NEW s \in Seq(Byte), NEW k, NEW e, Cut(s, e, k), NEW x \in 1..e[k], s[x] = "LF"
    PROVE  \E i \in 1..k : x = e[i]
<1>0. k \in Nat /\ e \in [0..k -> 0..Len(s)] /\ Len(s) \in Nat /\ e[0] = 0
  BY Extension DEF Cut
<1>. DEFINE T == {y \in 0..k : x <= e[y]}
<1>1. k \in T /\ T \subseteq Nat
  BY <1>0
<1>2. PICK i \in T : \A y \in T : i <= y
  BY <1>1, LeastNatural
<1>3. i # 0
  BY <1>0, <1>2
<1>4. i \in 1..k /\ i - 1 \in 0..k /\ ~(i <= i - 1) /\ i \in 0..k
  BY <1>0, <1>2, <1>3
<1>5. e[i - 1] < x /\ x <= e[i] /\ e[i] \in Nat /\ e[i - 1] \in Nat
  BY <1>0, <1>2, <1>4
<1>6. \A j \in (e[i - 1] + 1)..(e[i] - 1) : s[j] # "LF"
  BY <1>4 DEF Cut
<1>7. x = e[i]
  <2>. SUFFICES ASSUME x # e[i] PROVE FALSE
    OBVIOUS
  <2>1. x \in (e[i - 1] + 1)..(e[i] - 1)
    BY <1>0, <1>5
  <2>. QED  BY <1>6, <2>1
<1>. QED  BY <1>4, <1>7

LEMMA CutCount ==
    ASSUME NEW s \in Seq(Byte), NEW k, NEW e, Cut(s, e, k),
           NEW T, \A x : x \in T <=> \E i \in 1..k : x = e[i]
    PROVE  IsFiniteSet(T) /\ Cardinality(T) = k
<1>. DEFINE f == [i \in 1..k |-> e[i]]
<1>0. k \in Nat /\ e \in [0..k -> 0..Len(s)] /\ Len(s) \in Nat
  BY Extension DEF Cut
<1>1. \A i \in 1..k : i \in 0..k /\ e[i] \in Nat
  BY <1>0
<1>2. \A i, j \in 1..k : e[i] = e[j] => i = j
  <2>. SUFFICES ASSUME NEW i \in 1..k, NEW j \in 1..k, e[i] = e[j], i # j PROVE FALSE
    OBVIOUS
  <2>1. CASE i < j
    BY <1>1, <2>1, CutGrows
  <2>2. CASE j < i
    BY <1>1, <2>2, CutGrows
  <2>. QED  BY <1>0, <2>1, <2>2
<1>3. f \in [1..k -> T] /\ (\A i, j \in 1..k : f[i] = f[j] => i = j) /\ \A t \in T : \E i \in 1..k : f[i] = t
  BY <1>2
<1>. HIDE DEF f
<1>4. f \in Bijection(1..k, T)
  BY <1>3 DEF Bijection, Injection, Surjection, IsInjective
<1>5. ExistsBijection(1..k, T)
  BY <1>4 DEF ExistsBijection
<1>6. IsFiniteSet(T)
  BY <1>0, <1>5, FS_NatBijection
<1>7. Cardinality(T) = k
  BY <1>0, <1>5, FS_CountingElements
<1>. QED  BY <1>6, <1>7

LEMMA GreatestNatural ==
    ASSUME NEW T, NEW n \in Nat, T \subseteq 0..n, T # {}
    PROVE  Max(T) \in T /\ \A m \in T : m <= Max(T)
<1>. DEFINE D == {n - t : t \in T}
<1>1. D \subseteq Nat /\ D # {}
  <2>1. \A t \in T : t \in 0..n
    OBVIOUS
  <2>2. \A t \in T : n - t \in Nat
    BY <2>1
  <2>3. PICK t : t \in T
    OBVIOUS
  <2>4. n - t \in D
    BY <2>3
  <2>. QED  BY <2>2, <2>4
<1>2. PICK d \in D : \A c \in D : d <= c
  BY <1>1, LeastNatural
<1>3. PICK t \in T : d = n - t
  BY <1>2
<1>4. \A m \in T : t >= m
  <2>. TAKE m \in T
  <2>1. n - m \in D
    OBVIOUS
  <2>2. d <= n - m
    BY <1>2, <2>1
  <2>. QED  BY <1>3, <2>2
<1>5. Max(T) \in T /\ \A m \in T : Max(T) >= m
  BY <1>4 DEF Max
<1>. QED  BY <1>5

\* The line that ends at an LF begins behind the one before it.
LEMMA LineAtIs ==
    ASSUME NEW p \in Seq(Byte), NEW end \in LineEnds(p)
    PROVE  \E start \in 0..(end - 1) :
              /\ LineAt(p, end) = SubSeq(p, start + 1, end)
              /\ start = 0 \/ p[start] = "LF"
              /\ \A j \in (start + 1)..(end - 1) : p[j] # "LF"
<1>. DEFINE before == {e \in LineEnds(p) : e < end}
            start == IF before = {} THEN 0 ELSE Max(before)
<1>1. /\ Len(p) \in Nat /\ DOMAIN p = 1..Len(p) /\ end \in 1..Len(p)
      /\ \A j : j \in before <=> j \in 1..Len(p) /\ p[j] = "LF" /\ j < end
  BY Extension DEF LineEnds
<1>2. LineAt(p, end) = SubSeq(p, start + 1, end)
  BY DEF LineAt
<1>3. CASE before = {}
  <2>1. start = 0
    BY <1>3
  <2>2. \A j \in 1..(end - 1) : p[j] # "LF"
    <3>1. \A j \in 1..(end - 1) : j \in 1..Len(p) /\ j < end
      BY <1>1
    <3>. QED  BY <1>1, <1>3, <3>1
  <2>. QED  BY <1>1, <1>2, <2>1, <2>2
<1>4. CASE before # {}
  <2>1. start = Max(before)
    BY <1>4
  <2>2. before \subseteq 0..Len(p)
    BY <1>1
  <2>. HIDE DEF before
  <2>3. Max(before) \in before /\ \A m \in before : m <= Max(before)
    BY <1>1, <1>4, <2>2, GreatestNatural
  <2>. HIDE DEF start
  <2>4. start \in 1..Len(p) /\ start < end /\ p[start] = "LF"
    BY <1>1, <2>1, <2>3
  <2>5. \A j \in (start + 1)..(end - 1) : p[j] # "LF"
    <3>. SUFFICES ASSUME NEW j \in (start + 1)..(end - 1), p[j] = "LF" PROVE FALSE
      OBVIOUS
    <3>1. j \in before
      BY <1>1, <2>4
    <3>. QED  BY <1>1, <2>1, <2>3, <2>4, <3>1
  <2>. QED  BY <1>1, <1>2, <2>4, <2>5
<1>. QED  BY <1>3, <1>4

\* p is the beginning of s.
Begins(p, s) == p \in Seq(Byte) /\ Len(p) <= Len(s) /\ \A i \in 1..Len(p) : p[i] = s[i]

LEMMA LineAtEnd ==
    ASSUME NEW s \in Seq(Byte), NEW k, NEW e, Cut(s, e, k), NEW i \in 1..k,
           NEW p, Begins(p, s), e[i] <= Len(p)
    PROVE  e[i] \in LineEnds(p) /\ LineAt(p, e[i]) = Piece(s, e, i)
<1>0. /\ k \in Nat /\ e \in [0..k -> 0..Len(s)] /\ Len(s) \in Nat /\ e[0] = 0 /\ Len(p) \in Nat
      /\ DOMAIN p = 1..Len(p) /\ Len(p) <= Len(s) /\ p \in Seq(Byte)
  BY Extension DEF Cut, Begins
<1>1. i \in 0..k /\ i - 1 \in 0..k
  BY <1>0
<1>2. /\ e[i] \in Nat /\ e[i - 1] \in Nat /\ e[i - 1] < e[i] /\ s[e[i]] = "LF"
      /\ \A j \in (e[i - 1] + 1)..(e[i] - 1) : s[j] # "LF"
  <2>1. e[i] \in Nat /\ e[i - 1] \in Nat
    BY <1>0, <1>1
  <2>. QED  BY <2>1 DEF Cut
<1>3. e[i - 1] = 0 \/ s[e[i - 1]] = "LF"
  <2>1. CASE i = 1
    BY <1>0, <2>1
  <2>2. CASE i # 1
    <3>1. i - 1 \in 1..k
      BY <1>0, <2>2
    <3>. QED  BY <3>1 DEF Cut
  <2>. QED  BY <2>1, <2>2
<1>4. e[i] \in LineEnds(p)
  <2>1. e[i] \in 1..Len(p)
    BY <1>0, <1>2
  <2>2. p[e[i]] = "LF"
    BY <1>2, <2>1 DEF Begins
  <2>. QED  BY <1>0, <2>1, <2>2 DEF LineEnds
<1>5. PICK start \in 0..(e[i] - 1) :
          /\ LineAt(p, e[i]) = SubSeq(p, start + 1, e[i])
          /\ start = 0 \/ p[start] = "LF"
          /\ \A j \in (start + 1)..(e[i] - 1) : p[j] # "LF"
  <2>1. PICK end \in LineEnds(p) : end = e[i]
    BY <1>4
  <2>. QED  BY <2>1, <1>0, LineAtIs
<1>6. start = e[i - 1]
  <2>1. ~(start < e[i - 1])
    <3>. SUFFICES ASSUME start < e[i - 1] PROVE FALSE
      OBVIOUS
    <3>1. e[i - 1] \in (start + 1)..(e[i] - 1) /\ e[i - 1] \in 1..Len(p) /\ e[i - 1] # 0
      BY <1>0, <1>2
    <3>. QED  BY <1>3, <1>5, <3>1 DEF Begins
  <2>2. ~(e[i - 1] < start)
    <3>. SUFFICES ASSUME e[i - 1] < start PROVE FALSE
      OBVIOUS
    <3>1. start \in (e[i - 1] + 1)..(e[i] - 1) /\ start \in 1..Len(p) /\ start # 0
      BY <1>0, <1>2
    <3>. QED  BY <1>2, <1>5, <3>1 DEF Begins
  <2>. QED  BY <1>2, <2>1, <2>2
<1>7. SubSeq(p, e[i - 1] + 1, e[i]) = SubSeq(s, e[i - 1] + 1, e[i])
  <2>1. e[i - 1] + 1 \in 1..Len(p) /\ e[i] \in 0..Len(p)
    BY <1>0, <1>2
  <2>2. \A j \in 1..Len(p) : s[j] = p[j]
    BY DEF Begins
  <2>3. PICK a \in 1..Len(p) : a = e[i - 1] + 1
    BY <2>1
  <2>4. PICK b \in 0..Len(p) : b = e[i]
    BY <2>1
  <2>5. SubSeq(s, a, b) = SubSeq(p, a, b)
    BY <1>0, <2>2, SamePart
  <2>. QED  BY <2>3, <2>4, <2>5
<1>. QED  BY <1>4, <1>5, <1>6, <1>7 DEF Piece

-----------------------------------------------------------------------------
(* The reply and the grammar.                                                *)

\* What a reading ends with: k lines, a line that is final or that refuses the
\* reply, or as many lines as there may be.
Result(s, r, e, k) ==
    /\ ReadTo(s, e, k, r)
    /\ \/ r.status = "OK" /\ k # 0 /\ Continued(s, e, k - 1) /\ Piece(s, e, k)[4] # "-"
       \/ r.status = "INCOMPLETE" /\ Continued(s, e, k) /\ LineStatus(Rest(s, e[k])) = "INCOMPLETE"
       \/ r.status = "ERROR" /\ Continued(s, e, k) /\ (Refused(s, e, k, r) \/ k = MaxLines)

LEMMA ReplyIs ==
    ASSUME NEW s \in Seq(Byte)
    PROVE  ReplyRead(s) \in Replies /\ \E k \in 0..MaxLines : \E e : Result(s, ReplyRead(s), e, k)
<1>0. MaxLines \in Nat /\ MaxLines \in 0..MaxLines
  BY MaxLinesAssumption
<1>1. PICK g : /\ Reading(s, g)
               /\ ReplyRead(s) = IF g[MaxLines].status = "MORE"
                                   THEN [g[MaxLines] EXCEPT !.status = "ERROR"] ELSE g[MaxLines]
  BY ReplyReadIs
<1>2. PICK r : r = g[MaxLines]
  OBVIOUS
<1>3. ReadBy(s, r, MaxLines)
  BY <1>0, <1>1, <1>2, ReadingKeeps
<1>4. r \in Replies
  BY <1>3 DEF ReadBy
<1>5. PICK k \in 0..MaxLines : \E e : ReadIn(s, r, MaxLines, e, k)
  BY <1>3 DEF ReadBy
<1>6. PICK e : ReadIn(s, r, MaxLines, e, k)
  BY <1>5
<1>7. CASE r.status = "MORE"
  <2>1. PICK st \in Verdicts : st = "ERROR"
    BY DEF Verdicts
  <2>2. LET u == [r EXCEPT !.status = st]
        IN  /\ u \in Replies /\ u.status = st /\ u.code = r.code
            /\ u.consumed = r.consumed /\ u.texts = r.texts
    BY <1>4, StatusSet
  <2>3. ReplyRead(s) = [r EXCEPT !.status = st]
    BY <1>1, <1>2, <1>7, <2>1
  <2>4. PICK u : u = ReplyRead(s)
    OBVIOUS
  <2>5. u \in Replies /\ u.status = "ERROR" /\ u.code = r.code /\ u.consumed = r.consumed /\ u.texts = r.texts
    BY <2>1, <2>2, <2>3, <2>4
  <2>6. ReadTo(s, e, k, u)
    BY <1>6, <2>5 DEF ReadIn, ReadTo
  <2>7. k = MaxLines /\ Continued(s, e, k)
    BY <1>6, <1>7 DEF ReadIn
  <2>8. Result(s, u, e, k)
    BY <2>5, <2>6, <2>7 DEF Result
  <2>. QED  BY <2>4, <2>5, <2>8
<1>8. CASE r.status # "MORE"
  <2>1. ReplyRead(s) = r
    BY <1>1, <1>2, <1>8
  <2>2. Result(s, r, e, k)
    BY <1>6, <1>8 DEF Result, ReadIn
  <2>. QED  BY <1>4, <2>1, <2>2
<1>. QED  BY <1>7, <1>8

LEMMA PrefixBegins ==
    ASSUME NEW s \in Seq(Byte), NEW n \in 0..Len(s)
    PROVE  Begins(SubSeq(s, 1, n), s) /\ Len(SubSeq(s, 1, n)) = n
<1>1. Len(s) \in Nat
  BY Extension
<1>2. SubSeq(s, 1, n) \in Seq(Byte) /\ Len(SubSeq(s, 1, n)) = n /\ \A i \in 1..n : SubSeq(s, 1, n)[i] = s[i]
  BY <1>1
<1>3. n <= Len(s)
  BY <1>1
<1>. QED  BY <1>2, <1>3 DEF Begins

\* The first three bytes of the first line are those of everything that begins
\* with it.
LEMMA FirstThree ==
    ASSUME NEW s \in Seq(Byte), NEW k, NEW e, Cut(s, e, k), NEW p, Begins(p, s), k # 0,
           e[1] <= Len(p), Len(Piece(s, e, 1)) >= 5
    PROVE  SubSeq(p, 1, 3) = SubSeq(Piece(s, e, 1), 1, 3)
<1>0. /\ k \in Nat /\ e \in [0..k -> 0..Len(s)] /\ Len(s) \in Nat /\ e[0] = 0 /\ Len(p) \in Nat
      /\ Len(p) <= Len(s) /\ p \in Seq(Byte)
  BY Extension DEF Cut, Begins
<1>1. 1 \in 0..k /\ e[1] \in 0..Len(s)
  BY <1>0
<1>. DEFINE l == Piece(s, e, 1)
<1>2. l = SubSeq(s, 1, e[1])
  BY <1>0 DEF Piece
<1>3. l \in Seq(Byte) /\ Len(l) = e[1] /\ \A i \in 1..e[1] : l[i] = s[i]
  <2>1. PICK m \in 0..Len(s) : m = e[1]
    BY <1>1
  <2>2. SubSeq(s, 1, m) \in Seq(Byte) /\ Len(SubSeq(s, 1, m)) = m /\ \A i \in 1..m : SubSeq(s, 1, m)[i] = s[i]
    BY <1>0
  <2>. QED  BY <1>2, <2>1, <2>2
<1>. HIDE DEF l
<1>4. \A i \in 1..Len(l) : i \in 1..Len(p) /\ p[i] = l[i]
  <2>1. \A i \in 1..Len(l) : i \in 1..Len(p)
    BY <1>0, <1>1, <1>3
  <2>. QED  BY <1>3, <2>1 DEF Begins
<1>5. 1 \in 1..Len(l) /\ 3 \in 0..Len(l)
  BY <1>1, <1>3 DEF l
<1>6. SubSeq(p, 1, 3) = SubSeq(l, 1, 3)
  <2>1. Len(l) <= Len(p)
    BY <1>3
  <2>. QED  BY <1>0, <1>3, <1>4, <1>5, <2>1, SamePart
<1>. QED  BY <1>6 DEF l

\* An accepted reply is one of the grammar.
LEMMA AcceptedIsReply ==
    ASSUME NEW s \in Seq(Byte), NEW r, NEW e, NEW k \in 1..MaxLines, ReadTo(s, e, k, r),
           Continued(s, e, k - 1), Piece(s, e, k)[4] # "-"
    PROVE  r.consumed \in 1..Len(s) /\ IsReply(SubSeq(s, 1, r.consumed))
<1>. DEFINE n == e[k]
            p == SubSeq(s, 1, n)
<1>0. /\ MaxLines \in Nat /\ k \in Nat /\ e \in [0..k -> 0..Len(s)] /\ Len(s) \in Nat /\ e[0] = 0
      /\ k \in 0..k /\ 0 \in 0..k /\ k # 0 /\ r.consumed = n
  BY MaxLinesAssumption, Extension DEF ReadTo, Cut
<1>cut. Cut(s, e, k)
  BY DEF ReadTo
<1>1. n \in 1..Len(s)
  <2>1. e[0] < e[k]
    BY <1>0, <1>cut, CutGrows
  <2>. QED  BY <1>0, <2>1
<1>2. Begins(p, s) /\ Len(p) = n /\ p \in Seq(Byte) /\ DOMAIN p = 1..n
  <2>1. PICK m \in 0..Len(s) : m = n
    BY <1>0
  <2>2. Begins(SubSeq(s, 1, m), s) /\ Len(SubSeq(s, 1, m)) = m
    BY PrefixBegins
  <2>. QED  BY <1>0, <2>1, <2>2 DEF Begins
<1>. HIDE DEF p, n
<1>3. ASSUME NEW i \in 1..k
      PROVE  e[i] \in LineEnds(p) /\ LineAt(p, e[i]) = Piece(s, e, i) /\ e[i] <= n /\ (e[i] = n <=> i = k)
  <2>1. e[i] <= n /\ (e[i] = n <=> i = k)
    <3>1. CASE i = k
      BY <1>0, <3>1 DEF n
    <3>2. CASE i # k
      <4>1. i \in 0..k /\ i < k
        BY <1>0, <3>2
      <4>2. e[i] < e[k]
        BY <1>0, <1>cut, <4>1, CutGrows
      <4>. QED  BY <1>0, <3>2, <4>1, <4>2 DEF n
    <3>. QED  BY <3>1, <3>2
  <2>. QED  BY <1>cut, <1>2, <2>1, LineAtEnd
<1>4. ASSUME NEW end \in LineEnds(p) PROVE \E i \in 1..k : end = e[i]
  <2>1. end \in 1..e[k] /\ s[end] = "LF"
    BY <1>2 DEF LineEnds, Begins, n
  <2>2. PICK x \in 1..e[k] : x = end
    BY <2>1
  <2>3. \E i \in 1..k : x = e[i]
    BY <1>cut, <2>1, <2>2, CutEnds
  <2>. QED  BY <2>2, <2>3
<1>5. Cardinality(LineEnds(p)) <= MaxLines
  <2>1. \A x : x \in LineEnds(p) <=> \E i \in 1..k : x = e[i]
    BY <1>3, <1>4
  <2>2. Cardinality(LineEnds(p)) = k
    BY <1>cut, <2>1, CutCount
  <2>. QED  BY <1>0, <2>1, <2>2
<1>6. \A i \in 1..k : IsReplyLine(Piece(s, e, i)) /\ SubSeq(Piece(s, e, i), 1, 3) = r.code
  BY DEF ReadTo
<1>7. SubSeq(p, 1, 3) = r.code
  <2>1. 1 \in 1..k
    BY <1>0
  <2>2. e[1] <= Len(p) /\ Len(Piece(s, e, 1)) >= 5
    BY <1>2, <1>3, <1>6, <2>1 DEF IsReplyLine
  <2>3. PICK q : q = p
    OBVIOUS
  <2>4. SubSeq(q, 1, 3) = SubSeq(Piece(s, e, 1), 1, 3)
    <3>1. Begins(q, s) /\ e[1] <= Len(q)
      BY <1>2, <2>2, <2>3
    <3>2. k # 0 /\ Len(Piece(s, e, 1)) >= 5
      BY <1>0, <2>2
    <3>. QED  BY <1>cut, <3>1, <3>2, FirstThree
  <2>. QED  BY <1>6, <2>1, <2>3, <2>4
<1>8. p # <<>> /\ p[Len(p)] = "LF"
  <2>1. n \in LineEnds(p)
    BY <1>0, <1>3 DEF n
  <2>2. p # <<>>
    BY <1>1, <1>2
  <2>. QED  BY <1>2, <2>1, <2>2 DEF LineEnds
<1>9. ASSUME NEW end \in LineEnds(p)
      PROVE  LET l == LineAt(p, end)
             IN  /\ IsReplyLine(l)
                 /\ SubSeq(l, 1, 3) = SubSeq(p, 1, 3)
                 /\ (l[4] # "-") <=> (end = Len(p))
  <2>1. PICK i \in 1..k : end = e[i]
    BY <1>4
  <2>2. LineAt(p, end) = Piece(s, e, i) /\ (end = Len(p) <=> i = k)
    BY <1>2, <1>3, <2>1
  <2>3. i # k => Piece(s, e, i)[4] = "-"
    <3>1. i # k => i \in 1..(k - 1)
      BY <1>0
    <3>. QED  BY <3>1 DEF Continued
  <2>. QED  BY <1>6, <1>7, <2>2, <2>3
<1>10. IsReply(p)
  BY <1>5, <1>8, <1>9 DEF IsReply
<1>. QED  BY <1>0, <1>1, <1>10 DEF p

\* No beginning of the bytes is a reply if the lines read are all continued and
\* the next one is not there, is refused, or would be one too many.
LEMMA NothingIsReply ==
    ASSUME NEW s \in Seq(Byte), NEW r, NEW e, NEW k \in 0..MaxLines, ReadTo(s, e, k, r),
           Continued(s, e, k),
           \/ LineStatus(Rest(s, e[k])) = "INCOMPLETE" \/ Refused(s, e, k, r) \/ k = MaxLines,
           NEW n \in 1..Len(s), IsReply(SubSeq(s, 1, n))
    PROVE  FALSE
<1>. DEFINE p == SubSeq(s, 1, n)
<1>0. MaxLines \in Nat /\ k \in Nat /\ e \in [0..k -> 0..Len(s)] /\ Len(s) \in Nat /\ n \in Nat /\ k \in 0..k
  BY MaxLinesAssumption, Extension DEF ReadTo, Cut
<1>cut. Cut(s, e, k)
  BY DEF ReadTo
<1>1. Begins(p, s) /\ Len(p) = n /\ p \in Seq(Byte) /\ DOMAIN p = 1..n
  <2>1. PICK m \in 0..Len(s) : m = n
    BY <1>0
  <2>2. Begins(SubSeq(s, 1, m), s) /\ Len(SubSeq(s, 1, m)) = m
    BY PrefixBegins
  <2>. QED  BY <1>0, <2>1, <2>2 DEF Begins
<1>2. IsReply(p)
  OBVIOUS
<1>. HIDE DEF p
<1>3. /\ p[n] = "LF" /\ n \in LineEnds(p) /\ Cardinality(LineEnds(p)) <= MaxLines
      /\ \A end \in LineEnds(p) : /\ IsReplyLine(LineAt(p, end))
                                  /\ SubSeq(LineAt(p, end), 1, 3) = SubSeq(p, 1, 3)
                                  /\ (LineAt(p, end)[4] # "-") <=> (end = n)
  <2>1. n \in 1..n
    BY <1>0
  <2>. QED  BY <1>1, <1>2, <2>1 DEF IsReply, LineEnds
<1>4. CASE n <= e[k]
  <2>1. n \in 1..e[k] /\ s[n] = "LF"
    <3>1. n \in 1..e[k] /\ n \in 1..Len(p)
      BY <1>0, <1>1, <1>4
    <3>. QED  BY <1>1, <1>3, <3>1 DEF Begins
  <2>2. PICK i \in 1..k : n = e[i]
    BY <1>cut, <2>1, CutEnds
  <2>3. LineAt(p, e[i]) = Piece(s, e, i)
    <3>1. e[i] <= Len(p)
      BY <1>0, <1>1, <2>2
    <3>. QED  BY <1>cut, <1>1, <3>1, LineAtEnd
  <2>4. Piece(s, e, i)[4] # "-"
    BY <1>3, <2>2, <2>3
  <2>. QED  BY <2>4 DEF Continued
<1>5. CASE ~(n <= e[k])
  <2>. DEFINE M == {j \in 1..(n - e[k]) : s[e[k] + j] = "LF"}
  <2>0. e[k] \in Nat /\ e[k] \in 0..Len(s) /\ e[k] < n
    BY <1>0, <1>5
  <2>1. n - e[k] \in M /\ M \subseteq Nat
    <3>1. n - e[k] \in 1..(n - e[k]) /\ e[k] + (n - e[k]) = n /\ n \in 1..Len(p)
      BY <1>0, <1>1, <2>0
    <3>2. s[n] = "LF"
      BY <1>1, <1>3, <3>1 DEF Begins
    <3>. QED  BY <1>0, <2>0, <3>1, <3>2
  <2>2. PICK m \in M : \A j \in M : m <= j
    BY <2>1, LeastNatural
  <2>3. /\ m \in 1..(Len(s) - e[k]) /\ m <= n - e[k] /\ m \in Nat /\ e[k] + m <= n /\ e[k] + m \in Nat
        /\ s[e[k] + m] = "LF" /\ m \in 1..(n - e[k])
    BY <1>0, <2>0, <2>2
  <2>4. \A j \in 1..(m - 1) : s[e[k] + j] # "LF"
    <3>. SUFFICES ASSUME NEW j \in 1..(m - 1), s[e[k] + j] = "LF" PROVE FALSE
      OBVIOUS
    <3>1. j \in 1..(n - e[k]) /\ ~(m <= j)
      BY <1>0, <2>0, <2>3
    <3>2. j \in M
      BY <3>1
    <3>. QED  BY <2>2, <3>1, <3>2
  <2>. HIDE DEF M
  <2>5. PICK f : /\ Cut(s, f, k + 1) /\ f[k + 1] = e[k] + m
                 /\ \A i \in 1..k : Piece(s, f, i) = Piece(s, e, i)
                 /\ Piece(s, f, k + 1) = SubSeq(s, e[k] + 1, e[k] + m)
    <3>1. PICK d \in 1..(Len(s) - e[k]) : d = m
      BY <2>3
    <3>2. s[e[k] + d] = "LF" /\ \A j \in 1..(d - 1) : s[e[k] + j] # "LF"
      BY <2>3, <2>4, <3>1
    <3>3. PICK k0 \in Nat : k0 = k
      BY <1>0
    <3>4. \E f : /\ Cut(s, f, k0 + 1) /\ f[k0 + 1] = e[k0] + d
                 /\ \A i \in 1..k0 : Piece(s, f, i) = Piece(s, e, i)
                 /\ Piece(s, f, k0 + 1) = SubSeq(s, e[k0] + 1, e[k0] + d)
      <4>1. Cut(s, e, k0) /\ d \in 1..(Len(s) - e[k0]) /\ s[e[k0] + d] = "LF"
        BY <1>cut, <3>2, <3>3
      <4>2. \A j \in 1..(d - 1) : s[e[k0] + j] # "LF"
        BY <3>2, <3>3
      <4>3. Len(s) - e[k0] \in Int
        BY <4>1, Extension DEF Cut
      <4>. QED  BY <4>1, <4>2, OneMoreLine, SMTT(20)
    <3>. QED  BY <3>1, <3>3, <3>4
  <2>. DEFINE w == Rest(s, e[k])
              l == SubSeq(w, 1, m)
  <2>6. \A i \in 1..(k + 1) : f[i] <= n
    <3>. SUFFICES ASSUME NEW i \in 1..(k + 1) PROVE f[i] <= n
      OBVIOUS
    <3>1. f \in [0..(k + 1) -> 0..Len(s)] /\ i \in 0..(k + 1) /\ k + 1 \in 0..(k + 1)
      BY <1>0, <2>5 DEF Cut
    <3>2. CASE i = k + 1
      BY <2>3, <2>5, <3>2
    <3>3. CASE i # k + 1
      <4>1. i < k + 1
        BY <1>0, <3>3
      <4>2. PICK k1 : k1 = k + 1
        OBVIOUS
      <4>3. Cut(s, f, k1) /\ i \in 0..k1 /\ k1 \in 0..k1 /\ i < k1
        BY <2>5, <3>1, <4>1, <4>2
      <4>4. f[i] < f[k1]
        BY <4>3, CutGrows
      <4>5. f[i] \in Nat /\ f[k1] \in Nat /\ f[k1] <= n /\ n \in Nat
        <5>1. f[i] \in 0..Len(s) /\ Len(s) \in Nat /\ n \in Nat
          BY <1>0, <3>1
        <5>2. f[k1] = e[k] + m
          BY <2>5, <4>2
        <5>. QED  BY <2>3, <5>1, <5>2
      <4>. QED  BY <4>4, <4>5
    <3>. QED  BY <3>2, <3>3
  <2>7. \A i \in 1..(k + 1) : f[i] \in LineEnds(p) /\ LineAt(p, f[i]) = Piece(s, f, i)
    <3>1. PICK k1 : k1 = k + 1
      OBVIOUS
    <3>2. Cut(s, f, k1) /\ \A i \in 1..k1 : f[i] <= Len(p)
      BY <1>1, <2>5, <2>6, <3>1
    <3>3. \A i \in 1..k1 : f[i] \in LineEnds(p) /\ LineAt(p, f[i]) = Piece(s, f, i)
      BY <1>1, <3>2, LineAtEnd
    <3>. QED  BY <3>1, <3>3
  <2>8. l = Piece(s, f, k + 1)
    <3>1. PICK i \in 0..Len(s) : i = e[k]
      BY <2>0
    <3>2. PICK j \in 0..(Len(s) - i) : j = m
      BY <2>3, <3>1
    <3>3. SubSeq(Rest(s, i), 1, j) = SubSeq(s, i + 1, i + j)
      BY PartOfRest
    <3>. QED  BY <2>5, <3>1, <3>2, <3>3
  <2>9. IsReplyLine(l) /\ SubSeq(l, 1, 3) = SubSeq(p, 1, 3)
    <3>1. k + 1 \in 1..(k + 1)
      BY <1>0
    <3>. QED  BY <1>3, <2>7, <2>8, <3>1
  <2>10. w \in Seq(Byte) /\ m \in 1..Len(w)
    <3>1. PICK i \in Nat : i = e[k] /\ i <= Len(s)
      BY <1>0, <2>0
    <3>2. Rest(s, i) \in Seq(Byte) /\ Len(Rest(s, i)) = Len(s) - i
      BY <3>1, RestIs
    <3>. QED  BY <2>3, <3>1, <3>2
  <2>. HIDE DEF w
  <2>11. LineStatus(w) = "OK" /\ TextEnd(w) + 1 = m
    BY <2>9, <2>10, LineIs
  <2>12. SubSeq(w, 1, 3) = SubSeq(p, 1, 3)
    BY <2>9, <2>10, <2>11, CodeOfLine
  <2>. HIDE DEF l
  <2>13. k # 0 => SubSeq(p, 1, 3) = r.code
    <3>. SUFFICES ASSUME k # 0 PROVE SubSeq(p, 1, 3) = r.code
      OBVIOUS
    <3>1. 1 \in 1..k /\ 1 \in 1..(k + 1)
      BY <1>0
    <3>2. LineAt(p, f[1]) = Piece(s, e, 1) /\ f[1] \in LineEnds(p)
      BY <2>5, <2>7, <3>1
    <3>3. SubSeq(Piece(s, e, 1), 1, 3) = r.code
      BY <3>1 DEF ReadTo
    <3>. QED  BY <1>3, <3>2, <3>3
  <2>14. LineStatus(Rest(s, e[k])) = "OK" /\ (k # 0 => SubSeq(Rest(s, e[k]), 1, 3) = r.code)
    BY <2>11, <2>12, <2>13 DEF w
  <2>15. k = MaxLines
    BY <2>14 DEF Refused
  <2>. DEFINE E == {f[i] : i \in 1..(k + 1)}
  <2>16. Cardinality(E) = k + 1
    <3>1. PICK k1 : k1 = k + 1
      OBVIOUS
    <3>2. Cut(s, f, k1) /\ \A x : x \in E <=> \E i \in 1..k1 : x = f[i]
      BY <2>5, <3>1
    <3>. HIDE DEF E
    <3>. QED  BY <3>1, <3>2, CutCount
  <2>17. E \in SUBSET LineEnds(p)
    BY <2>7
  <2>. HIDE DEF E
  <2>18. IsFiniteSet(LineEnds(p))
    <3>1. IsFiniteSet(1..n)
      BY <1>0, FS_Interval
    <3>2. LineEnds(p) \in SUBSET (1..n)
      BY <1>1 DEF LineEnds
    <3>. QED  BY <3>1, <3>2, FS_Subset
  <2>19. Cardinality(E) <= Cardinality(LineEnds(p)) /\ Cardinality(LineEnds(p)) \in Nat
    BY <2>17, <2>18, FS_Subset, FS_CardinalityType
  <2>. QED  BY <1>0, <1>3, <2>15, <2>16, <2>19
<1>. QED  BY <1>4, <1>5

\* What an incomplete reply has behind it.
LEMMA IncompleteHas ==
    ASSUME NEW s \in Seq(Byte), NEW r, NEW e, NEW k \in 0..MaxLines, ReadTo(s, e, k, r),
           Continued(s, e, k), LineStatus(Rest(s, e[k])) = "INCOMPLETE",
           NEW end \in LineEnds(s)
    PROVE  LET l == LineAt(s, end)
           IN  \/ IsReplyLine(l) /\ l[4] = "-"
               \/ Len(s) - (end - Len(l)) < 3
<1>. DEFINE l == LineAt(s, end)
<1>0. /\ MaxLines \in Nat /\ k \in Nat /\ e \in [0..k -> 0..Len(s)] /\ Len(s) \in Nat /\ k \in 0..k
      /\ e[k] \in 0..Len(s) /\ e[k] \in Nat /\ DOMAIN s = 1..Len(s) /\ end \in 1..Len(s) /\ s[end] = "LF"
      /\ e[0] = 0
  BY MaxLinesAssumption, Extension DEF ReadTo, Cut, LineEnds
<1>cut. Cut(s, e, k)
  BY DEF ReadTo
<1>1. CASE end <= e[k]
  <2>1. PICK x \in 1..e[k] : x = end
    BY <1>0, <1>1
  <2>2. s[x] = "LF"
    BY <1>0, <2>1
  <2>3. PICK i \in 1..k : x = e[i]
    BY <1>cut, <2>2, CutEnds
  <2>4. Begins(s, s) /\ e[i] <= Len(s)
    BY <1>0, <2>1, <2>3 DEF Begins
  <2>5. l = Piece(s, e, i)
    BY <1>cut, <2>1, <2>3, <2>4, LineAtEnd
  <2>. QED  BY <2>5 DEF ReadTo, Continued
<1>2. CASE ~(end <= e[k])
  <2>. DEFINE w == Rest(s, e[k])
              d == end - e[k]
  <2>1. w \in Seq(Byte) /\ Len(w) = Len(s) - e[k] /\ \A j \in 1..(Len(s) - e[k]) : w[j] = s[e[k] + j]
    <3>1. PICK i \in Nat : i = e[k] /\ i <= Len(s)
      BY <1>0
    <3>2. /\ Rest(s, i) \in Seq(Byte) /\ Len(Rest(s, i)) = Len(s) - i
          /\ \A j \in 1..(Len(s) - i) : Rest(s, i)[j] = s[i + j]
      BY <3>1, RestIs
    <3>. QED  BY <3>1, <3>2
  <2>2. LineStatus(w) = "INCOMPLETE"
    OBVIOUS
  <2>. HIDE DEF w
  <2>3. d \in 1..Len(w) /\ e[k] + d = end /\ Len(w) \in Nat
    BY <1>0, <1>2, <2>1
  <2>. HIDE DEF d
  <2>4. w[d] = "LF"
    BY <1>0, <2>1, <2>3
  <2>5. Len(w) < 3
    BY <2>1, <2>2, <2>3, <2>4, IncompleteLine
  <2>6. PICK start \in 0..(end - 1) :
            /\ l = SubSeq(s, start + 1, end)
            /\ start = 0 \/ s[start] = "LF"
            /\ \A j \in (start + 1)..(end - 1) : s[j] # "LF"
    BY LineAtIs
  <2>7. Len(l) = end - start
    BY <1>0, <2>6
  <2>8. ~(start < e[k])
    <3>. SUFFICES ASSUME start < e[k] PROVE FALSE
      OBVIOUS
    <3>1. e[k] \in (start + 1)..(end - 1)
      BY <1>0, <1>2
    <3>2. k # 0
      BY <1>0
    <3>3. k \in 1..k
      BY <1>0, <3>2
    <3>4. s[e[k]] = "LF"
      BY <1>cut, <3>3 DEF Cut
    <3>. QED  BY <2>6, <3>1, <3>4
  <2>9. end - Len(l) = start /\ start \in Nat
    BY <1>0, <2>6, <2>7
  <2>. HIDE DEF l
  <2>10. Len(s) - (end - Len(l)) < 3
    BY <1>0, <2>1, <2>5, <2>8, <2>9
  <2>. QED  BY <2>10 DEF l
<1>. QED  BY <1>1, <1>2

\* MatchesGrammar: the reader accepts what the grammar accepts, wherever the
\* buffer ends, takes no byte beyond, and waits only where nothing is wrong yet.
THEOREM GrammarInvariant == Spec => []MatchesGrammar
<1>1. Fed /\ [Next]_vars => Fed'
  BY FedStep
<1>2. Fed => MatchesGrammar
  <2>. SUFFICES ASSUME Fed PROVE MatchesGrammar
    OBVIOUS
  <2>1. PICK s \in Seq(Byte) : s = buf
    BY DEF Fed
  <2>2. PICK r : r = reply
    OBVIOUS
  <2>3. r = ReplyRead(s)
    BY <2>1, <2>2 DEF Fed
  <2>4. PICK k \in 0..MaxLines : \E e : Result(s, r, e, k)
    BY <2>3, ReplyIs
  <2>5. PICK e : Result(s, r, e, k)
    BY <2>4
  <2>6. ReadTo(s, e, k, r)
    BY <2>5 DEF Result
  <2>7. CASE r.status = "OK"
    <3>1. k # 0 /\ Continued(s, e, k - 1) /\ Piece(s, e, k)[4] # "-"
      BY <2>5, <2>7 DEF Result
    <3>2. k \in 1..MaxLines
      BY <3>1, MaxLinesAssumption
    <3>3. r.consumed \in 1..Len(s) /\ IsReply(SubSeq(s, 1, r.consumed))
      BY <2>6, <3>1, <3>2, AcceptedIsReply
    <3>. QED  BY <2>1, <2>2, <2>7, <3>3 DEF MatchesGrammar
  <2>8. CASE r.status # "OK"
    <3>1. /\ Continued(s, e, k)
          /\ \/ LineStatus(Rest(s, e[k])) = "INCOMPLETE" \/ Refused(s, e, k, r) \/ k = MaxLines
          /\ r.status = "INCOMPLETE" => LineStatus(Rest(s, e[k])) = "INCOMPLETE"
      BY <2>5, <2>8 DEF Result
    <3>2. ASSUME NEW n \in 1..Len(s), IsReply(SubSeq(s, 1, n)) PROVE FALSE
      BY <2>6, <3>1, <3>2, NothingIsReply
    <3>3. ASSUME r.status = "INCOMPLETE", NEW end \in LineEnds(s)
          PROVE  LET l == LineAt(s, end)
                 IN  \/ IsReplyLine(l) /\ l[4] = "-"
                     \/ Len(s) - (end - Len(l)) < 3
      BY <2>6, <3>1, <3>3, IncompleteHas
    <3>. QED  BY <2>1, <2>2, <2>8, <3>2, <3>3 DEF MatchesGrammar
  <2>. QED  BY <2>7, <2>8
<1>. QED  BY FedInit, <1>1, <1>2, PTL DEF Spec

-----------------------------------------------------------------------------
(* One capability line.                                                      *)

LEMMA LeastIs ==
    ASSUME NEW T, T \subseteq Nat, T # {}
    PROVE  Min(T) \in T /\ \A m \in T : Min(T) <= m
<1>1. \E n \in T : \A m \in T : n <= m
  BY LeastNatural
<1>. QED  BY <1>1 DEF Min

LEMMA KeywordIs ==
    ASSUME NEW text \in Seq(Byte)
    PROVE  /\ Keyword(text) \in Seq(Byte) /\ Params(text) \in Seq(Byte)
           /\ text = <<>> => Keyword(text) = <<>>
<1>. DEFINE T == {i \in 1..Len(text) : IsSpace(text[i])}
            space == SelectInSeq(text, IsSpace)
            n == KeywordLen(text)
<1>0. Len(text) \in Nat
  BY Extension
<1>1. space = IF T # {} THEN Min(T) ELSE 0
  BY DEF SelectInSeq
<1>2. space \in 0..Len(text)
  <2>1. CASE T = {}
    BY <1>0, <1>1, <2>1
  <2>2. CASE T # {}
    <3>1. T \subseteq Nat
      BY <1>0
    <3>. HIDE DEF T
    <3>2. Min(T) \in T
      BY <2>2, <3>1, LeastIs
    <3>3. Min(T) \in 1..Len(text)
      BY <3>2 DEF T
    <3>. QED  BY <1>0, <1>1, <2>2, <3>3
  <2>. QED  BY <2>1, <2>2
<1>3. n = IF space = 0 THEN Len(text) ELSE space - 1
  BY DEF KeywordLen
<1>. HIDE DEF space, n, T
<1>4. n \in 0..Len(text)
  BY <1>0, <1>2, <1>3
<1>5. SubSeq(text, 1, n) \in Seq(Byte) /\ SubSeq(text, n + 2, Len(text)) \in Seq(Byte)
  <2>1. SubSeq(text, 1, n) \in Seq(Byte)
    BY <1>0, <1>4
  <2>2. SubSeq(text, n + 2, Len(text)) \in Seq(Byte)
    BY <1>0, <1>4
  <2>. QED  BY <2>1, <2>2
<1>6. text = <<>> => SubSeq(text, 1, n) = <<>>
  BY <1>0, <1>4
<1>. QED  BY <1>5, <1>6 DEF Keyword, Params, n

LEMMA CopyIs ==
    ASSUME NEW src \in Seq(Byte), NEW size \in Nat \ {0}
    PROVE  LET copy == BoundedCopy(src, size) IN
           /\ copy \in Seq(Byte) /\ IsCopy(copy, src, size)
           /\ Fits(src, size) \in BOOLEAN /\ (Fits(src, size) <=> copy = src)
<1>1. Len(src) \in Nat /\ SubSeq(src, 1, Len(src)) = src
  BY Extension
<1>2. CASE Fits(src, size)
  BY <1>1, <1>2 DEF BoundedCopy, Fits, IsCopy, IsPrefix
<1>3. CASE ~Fits(src, size)
  <2>. DEFINE copy == SubSeq(src, 1, size - 1)
  <2>1. size - 1 \in 0..Len(src) /\ size - 1 < Len(src)
    BY <1>1, <1>3 DEF Fits
  <2>2. copy \in Seq(Byte) /\ Len(copy) = size - 1 /\ SubSeq(copy, 1, size - 1) = copy
    BY <1>1, <2>1
  <2>. HIDE DEF copy
  <2>3. copy # src
    BY <2>1, <2>2
  <2>4. IsCopy(copy, src, size)
    BY <1>1, <2>1, <2>2 DEF IsCopy, IsPrefix, copy
  <2>5. BoundedCopy(src, size) = copy
    BY <1>3 DEF BoundedCopy, copy
  <2>. QED  BY <1>3, <2>2, <2>3, <2>4, <2>5 DEF Fits
<1>. QED  BY <1>2, <1>3

\* A size as far as it has been read.
Sizes == [valid : BOOLEAN, value : Nat]
Announcing(params) == {Mechanism(t) : t \in Tokens(params)}

Entries == [keyword : Seq(Byte), params : Seq(Byte), truncated : BOOLEAN]
Tables == [flags : SUBSET Flags, has_size : BOOLEAN, size_valid : BOOLEAN, size_limit : Nat,
           has_auth : BOOLEAN, auth_mechs : SUBSET (Mechanisms \cup {"UNKNOWN"}),
           auth_raw : Seq(Byte), unknown : Seq(Entries), unknown_overflow : Nat]

\* u is c with what the line says.
Takes(c, text, u) ==
    LET keyword == Keyword(text)
        size == SizeParam(Params(text))
    IN  /\ u.flags = c.flags \cup {f \in Flags : keyword = <<f>>}
        /\ u.has_size <=> c.has_size \/ keyword = <<"SIZE">>
        /\ u.has_auth <=> c.has_auth \/ keyword = <<"AUTH">>
        /\ u.auth_mechs = c.auth_mechs \cup (IF keyword = <<"AUTH">> THEN Announcing(Params(text)) ELSE {})
        /\ keyword = <<"SIZE">> => u.size_valid = size.valid /\ (size.valid => u.size_limit = size.value)
        /\ keyword # <<"SIZE">> => u.size_valid = c.size_valid /\ u.size_limit = c.size_limit
        /\ Len(c.unknown) <= MaxUnknown => Len(u.unknown) <= MaxUnknown
        /\ Len(u.unknown) + u.unknown_overflow =
              Len(c.unknown) + c.unknown_overflow
                + (IF text # <<>> /\ keyword \notin Known THEN 1 ELSE 0)
        /\ keyword = <<"AUTH">> => IsCopy(u.auth_raw, Params(text), MaxParamLen)
        /\ keyword # <<"AUTH">> => u.auth_raw = c.auth_raw
        /\ \A i \in DOMAIN u.unknown :
              \/ i \in DOMAIN c.unknown /\ u.unknown[i] = c.unknown[i]
              \/ text # <<>> /\ keyword \notin Known /\ Tells(u.unknown[i], text)

LEMMA CapabilityTaken ==
    ASSUME NEW c \in Tables, NEW text \in Seq(Byte), SizeParam(Params(text)) \in Sizes
    PROVE  ParseCapability(c, text) \in Tables /\ Takes(c, text, ParseCapability(c, text))
<1>. DEFINE keyword == Keyword(text)
            params == Params(text)
            u == ParseCapability(c, text)
<1>1. keyword \in Seq(Byte) /\ params \in Seq(Byte) /\ (text = <<>> => keyword = <<>>)
  BY KeywordIs
<1>2. /\ c.flags \in SUBSET Flags /\ c.unknown \in Seq(Entries) /\ c.unknown_overflow \in Nat
      /\ Len(c.unknown) \in Nat
      /\ c.auth_mechs \in SUBSET (Mechanisms \cup {"UNKNOWN"}) /\ c.has_size \in BOOLEAN /\ c.has_auth \in BOOLEAN
  <2>1. c.unknown \in Seq(Entries)
    BY DEF Tables
  <2>2. Len(c.unknown) \in Nat
    BY <2>1
  <2>. QED  BY <2>1, <2>2 DEF Tables
<1>3. MaxUnknown \in Nat /\ MaxKeywordLen \in Nat \ {0} /\ MaxParamLen \in Nat \ {0}
  BY CapabilitiesAssumption
<1>. HIDE DEF keyword, params, u
<1>4. CASE text = <<>>
  <2>1. u = c
    <3>1. \A f \in Flags : keyword # <<f>>
      BY <1>1, <1>4
    <3>2. keyword # <<"SIZE">> /\ keyword # <<"AUTH">>
      BY <1>1, <1>4
    <3>. QED  BY <1>4, <3>1, <3>2 DEF ParseCapability, keyword, u
  <2>2. {f \in Flags : keyword = <<f>>} = {} /\ keyword # <<"SIZE">> /\ keyword # <<"AUTH">>
    BY <1>1, <1>4
  <2>3. Takes(c, text, c)
    BY <1>2, <1>4, <2>2 DEF Takes, keyword
  <2>. QED  BY <2>1, <2>3 DEF u
<1>5. ASSUME NEW f \in Flags, keyword = <<f>> PROVE u \in Tables /\ Takes(c, text, u)
  <2>1. text # <<>> /\ keyword # <<"SIZE">> /\ keyword # <<"AUTH">> /\ keyword \in {<<g>> : g \in Flags}
    BY <1>1, <1>5 DEF Flags
  <2>2. u = [c EXCEPT !.flags = @ \cup {f}]
    <3>1. keyword[1] = f
      BY <1>5
    <3>. QED  BY <2>1, <3>1 DEF ParseCapability, keyword, u
  <2>3. /\ u \in Tables /\ u.flags = c.flags \cup {f} /\ u.has_size = c.has_size /\ u.has_auth = c.has_auth
        /\ u.size_valid = c.size_valid /\ u.size_limit = c.size_limit /\ u.auth_mechs = c.auth_mechs
        /\ u.unknown = c.unknown /\ u.unknown_overflow = c.unknown_overflow
        /\ u.auth_raw = c.auth_raw
    BY <1>2, <2>2 DEF Tables
  <2>4. {g \in Flags : keyword = <<g>>} = {f}
    BY <1>5
  <2>5. keyword \in Known
    BY <2>1 DEF Known
  <2>. QED  BY <1>2, <2>1, <2>3, <2>4, <2>5 DEF Takes, keyword
<1>6. CASE keyword = <<"SIZE">>
  <2>1. text # <<>> /\ keyword # <<"AUTH">> /\ \A f \in Flags : keyword # <<f>>
    BY <1>1, <1>6 DEF Flags
  <2>. DEFINE size == SizeParam(params)
  <2>2. u = StoreSize(c, params)
    BY <1>6, <2>1 DEF ParseCapability, keyword, params, u
  <2>3. size \in Sizes
    BY DEF params
  <2>4. u = [c EXCEPT !.has_size = TRUE, !.size_valid = size.valid,
                      !.size_limit = IF size.valid THEN size.value ELSE c.size_limit]
    BY <2>2 DEF StoreSize
  <2>. HIDE DEF size
  <2>5. /\ u \in Tables /\ u.flags = c.flags /\ u.has_size = TRUE /\ u.has_auth = c.has_auth
        /\ u.size_valid = size.valid /\ (size.valid => u.size_limit = size.value)
        /\ u.auth_mechs = c.auth_mechs /\ u.unknown = c.unknown /\ u.unknown_overflow = c.unknown_overflow
        /\ u.auth_raw = c.auth_raw
    <3>1. size.valid \in BOOLEAN /\ (IF size.valid THEN size.value ELSE c.size_limit) \in Nat
      BY <2>3 DEF Sizes, Tables
    <3>. QED  BY <2>4, <3>1 DEF Tables
  <2>6. {g \in Flags : keyword = <<g>>} = {} /\ keyword \in Known
    BY <1>6, <2>1 DEF Known
  <2>. QED  BY <1>2, <1>6, <2>1, <2>5, <2>6 DEF Takes, keyword, size, params, u
<1>7. CASE keyword = <<"AUTH">>
  <2>1. text # <<>> /\ keyword # <<"SIZE">> /\ \A f \in Flags : keyword # <<f>>
    BY <1>1, <1>7 DEF Flags
  <2>2. u = StoreAuth(c, params)
    BY <1>7, <2>1 DEF ParseCapability, keyword, params, u
  <2>. DEFINE raw == BoundedCopy(params, MaxParamLen)
  <2>3. /\ Announcing(params) \subseteq Mechanisms \cup {"UNKNOWN"}
        /\ raw \in Seq(Byte) /\ IsCopy(raw, params, MaxParamLen)
    BY <1>1, <1>3, CopyIs DEF Announcing, Mechanism
  <2>4. u = [c EXCEPT !.has_auth = TRUE, !.auth_raw = raw,
                      !.auth_mechs = @ \cup Announcing(params)]
    BY <2>2 DEF StoreAuth, Announcing
  <2>. HIDE DEF raw
  <2>5. /\ u \in Tables /\ u.flags = c.flags /\ u.has_size = c.has_size /\ u.has_auth = TRUE
        /\ u.size_valid = c.size_valid /\ u.size_limit = c.size_limit
        /\ u.auth_mechs = c.auth_mechs \cup Announcing(params)
        /\ u.unknown = c.unknown /\ u.unknown_overflow = c.unknown_overflow
        /\ u.auth_raw = raw
    BY <1>2, <2>3, <2>4 DEF Tables
  <2>6. {g \in Flags : keyword = <<g>>} = {} /\ keyword \in Known
    BY <1>7, <2>1 DEF Known
  <2>. QED  BY <1>2, <1>7, <2>1, <2>3, <2>5, <2>6 DEF Takes, keyword, params, u
<1>8. CASE text # <<>> /\ keyword \notin Known
  <2>1. keyword # <<"SIZE">> /\ keyword # <<"AUTH">> /\ \A f \in Flags : keyword # <<f>>
    BY <1>8 DEF Known
  <2>2. u = StoreUnknown(c, keyword, params)
    BY <1>8, <2>1 DEF ParseCapability, keyword, params, u
  <2>3. {g \in Flags : keyword = <<g>>} = {}
    BY <2>1
  <2>4. CASE Len(c.unknown) >= MaxUnknown
    <3>1. u = [c EXCEPT !.unknown_overflow = @ + 1]
      BY <2>2, <2>4 DEF StoreUnknown
    <3>. HIDE DEF u
    <3>2. /\ u \in Tables /\ u.flags = c.flags /\ u.has_size = c.has_size /\ u.has_auth = c.has_auth
          /\ u.size_valid = c.size_valid /\ u.size_limit = c.size_limit /\ u.auth_mechs = c.auth_mechs
          /\ u.unknown = c.unknown /\ u.unknown_overflow = c.unknown_overflow + 1
          /\ u.auth_raw = c.auth_raw
      <4>1. PICK o \in Nat : o = c.unknown_overflow + 1
        BY <1>2 DEF Tables
      <4>2. u = [c EXCEPT !.unknown_overflow = o]
        BY <3>1, <4>1
      <4>. QED  BY <1>2, <4>1, <4>2 DEF Tables
    <3>. QED  BY <1>2, <1>8, <2>1, <2>3, <3>2 DEF Takes, keyword, u
  <2>5. CASE ~(Len(c.unknown) >= MaxUnknown)
    <3>. DEFINE entry == Entry(keyword, params,
                            ~Fits(keyword, MaxKeywordLen) \/ ~Fits(params, MaxParamLen))
                q == Append(c.unknown, entry)
    <3>1. entry \in Entries /\ Tells(entry, text)
      <4>. DEFINE k == BoundedCopy(keyword, MaxKeywordLen)
                  p == BoundedCopy(params, MaxParamLen)
                  cut == ~Fits(keyword, MaxKeywordLen) \/ ~Fits(params, MaxParamLen)
      <4>1. /\ k \in Seq(Byte) /\ IsCopy(k, keyword, MaxKeywordLen)
            /\ Fits(keyword, MaxKeywordLen) <=> k = keyword
        BY <1>1, <1>3, CopyIs
      <4>2. /\ p \in Seq(Byte) /\ IsCopy(p, params, MaxParamLen)
            /\ Fits(params, MaxParamLen) <=> p = params
        BY <1>1, <1>3, CopyIs
      <4>3. cut \in BOOLEAN /\ (cut <=> ~(k = keyword /\ p = params))
        BY <4>1, <4>2
      <4>4. entry.keyword = k /\ entry.params = p /\ entry.truncated = cut
            /\ entry = [keyword |-> k, params |-> p, truncated |-> cut]
        BY DEF Entry
      <4>. HIDE DEF k, p, cut, entry
      <4>. QED  BY <4>1, <4>2, <4>3, <4>4 DEF Entries, Tells, keyword, params
    <3>2. u = [c EXCEPT !.unknown = q]
      BY <2>2, <2>5 DEF StoreUnknown
    <3>. HIDE DEF entry
    <3>3. /\ q \in Seq(Entries) /\ Len(q) = Len(c.unknown) + 1
          /\ \A i \in DOMAIN q : (i \in DOMAIN c.unknown /\ q[i] = c.unknown[i]) \/ q[i] = entry
      BY <1>2, <3>1
    <3>. HIDE DEF q
    <3>4. /\ u \in Tables /\ u.flags = c.flags /\ u.has_size = c.has_size /\ u.has_auth = c.has_auth
          /\ u.size_valid = c.size_valid /\ u.size_limit = c.size_limit /\ u.auth_mechs = c.auth_mechs
          /\ u.unknown = q /\ u.unknown_overflow = c.unknown_overflow
          /\ u.auth_raw = c.auth_raw
      BY <1>2, <3>2, <3>3 DEF Tables
    <3>5. Len(q) <= MaxUnknown
      BY <1>2, <1>3, <2>5, <3>3
    <3>6. Len(q) + c.unknown_overflow = Len(c.unknown) + c.unknown_overflow + 1
      <4>1. \A a, b \in Nat : (a + 1) + b = a + b + 1
        OBVIOUS
      <4>. QED  BY <1>2, <3>3, <4>1
    <3>7. \A i \in DOMAIN q : (i \in DOMAIN c.unknown /\ q[i] = c.unknown[i]) \/ Tells(q[i], text)
      BY <3>1, <3>3
    <3>. QED  BY <1>2, <1>8, <2>1, <2>3, <3>4, <3>5, <3>6, <3>7 DEF Takes, keyword, u
  <2>. QED  BY <2>4, <2>5
<1>. QED  BY <1>4, <1>5, <1>6, <1>7, <1>8 DEF Known, u

-----------------------------------------------------------------------------
(* The number a SIZE line announces.                                         *)

LEMMA DigitIs == ASSUME NEW d \in Digits PROVE DigitValue(d) \in 0..9
<1>1. \E v \in 0..9 : d = <<"0", "1", "2", "3", "4", "5", "6", "7", "8", "9">>[v + 1]
  BY DEF Digits
<1>. QED  BY <1>1 DEF DigitValue

LEMMA NumberIs ==
    ASSUME NEW s \in Seq(Digits)
    PROVE  \E c : /\ c \in [0..Len(s) -> Nat] /\ c[0] = 0 /\ Number(s) = c[Len(s)]
                  /\ \A i \in 1..Len(s) : c[i] = 10 * c[i - 1] + DigitValue(s[i])
<1>. DEFINE hi == Len(s)
            Body(g) == [n \in 0..hi |-> IF n = 0 THEN 0 ELSE 10 * g[n - 1] + DigitValue(s[n])]
            c == CHOOSE g : g = Body(g)
<1>0. hi \in Nat /\ \A i \in 1..hi : DigitValue(s[i]) \in Nat
  <2>1. hi \in Nat /\ \A i \in 1..hi : s[i] \in Digits
    OBVIOUS
  <2>2. \A d \in Digits : DigitValue(d) \in 0..9
    BY DigitIs
  <2>. QED  BY <2>1, <2>2
<1>1. Number(s) = c[hi]
  BY DEF Number
<1>. HIDE DEF hi
<1>2. \E d : d = Body(d)
  <2>. DEFINE F == [i \in (0 + 1)..hi |-> [v \in Nat |-> 10 * v + DigitValue(s[i])]]
  <2>1. F \in [(0 + 1)..hi -> [Nat -> Nat]]
    <3>1. ASSUME NEW i \in (0 + 1)..hi, NEW v \in Nat PROVE 10 * v + DigitValue(s[i]) \in Nat
      <4>1. DigitValue(s[i]) \in Nat
        BY <1>0
      <4>. QED  BY <4>1
    <3>. QED  BY <3>1
  <2>. HIDE DEF F
  <2>2. PICK d : Recursive(Nat, 0, hi, 0, F, d)
    <3>1. 0 <= hi /\ 0 \in Nat
      BY <1>0
    <3>. QED  BY <1>0, <2>1, <3>1, Recursion
  <2>3. ASSUME NEW n \in 0..hi PROVE d[n] = Body(d)[n]
    <3>1. CASE n = 0
      BY <2>2, <3>1 DEF Recursive
    <3>2. CASE n # 0
      <4>1. n \in (0 + 1)..hi /\ n - 1 \in 0..hi
        BY <1>0, <3>2
      <4>2. d[n] = F[n][d[n - 1]] /\ d[n - 1] \in Nat
        BY <2>2, <4>1 DEF Recursive
      <4>3. PICK v \in Nat : v = d[n - 1]
        BY <4>2
      <4>4. F[n][v] = 10 * v + DigitValue(s[n])
        BY <4>1 DEF F
      <4>. QED  BY <3>2, <4>2, <4>3, <4>4
    <3>. QED  BY <3>1, <3>2
  <2>4. d = [n \in 0..hi |-> d[n]]
    BY <2>2 DEF Recursive
  <2>. QED  BY <2>3, <2>4
<1>3. c = Body(c)
  BY <1>2
<1>. HIDE DEF c
<1>4. c[0] = 0 /\ \A i \in 1..hi : c[i] = 10 * c[i - 1] + DigitValue(s[i])
  <2>. DEFINE b == Body(c)
  <2>1. b[0] = 0 /\ \A i \in 1..hi : b[i] = 10 * c[i - 1] + DigitValue(s[i])
    <3>1. 0 \in 0..hi /\ \A i \in 1..hi : i \in 0..hi /\ i # 0
      BY <1>0
    <3>. QED  BY <3>1
  <2>2. c = b
    BY <1>3
  <2>. HIDE DEF b
  <2>. QED  BY <2>1, <2>2
<1>5. \A i \in 0..hi : c[i] \in Nat
  <2>1. c[0] \in Nat
    BY <1>4
  <2>2. ASSUME NEW i \in (0 + 1)..hi, c[i - 1] \in Nat PROVE c[i] \in Nat
    <3>1. c[i] = 10 * c[i - 1] + DigitValue(s[i]) /\ DigitValue(s[i]) \in Nat
      BY <1>0, <1>4
    <3>. QED  BY <2>2, <3>1
  <2>. QED  BY <1>0, <2>1, <2>2, Typed
<1>6. c = [n \in 0..hi |-> c[n]]
  <2>. DEFINE b == Body(c)
  <2>1. b = [n \in 0..hi |-> b[n]]
    OBVIOUS
  <2>2. c = b
    BY <1>3
  <2>. HIDE DEF b
  <2>. QED  BY <2>1, <2>2
<1>7. c \in [0..hi -> Nat]
  BY <1>5, <1>6
<1>. QED  BY <1>1, <1>4, <1>7 DEF hi

\* What smtp_cap_parse_size_param() makes of a run of digits.
SizeOf(digits) ==
    LET result[n \in 0..Len(digits)] ==
            IF n = 0 THEN [valid |-> TRUE, value |-> 0]
            ELSE AddDigit(result[n - 1], digits[n])
    IN  result[Len(digits)]

LEMMA AddDigitIs ==
    ASSUME NEW size \in Sizes, NEW d \in Digits
    PROVE  LET u == AddDigit(size, d)
           IN  /\ u \in Sizes
               /\ u.valid <=> size.valid /\ size.value * 10 + DigitValue(d) <= SizeMax
               /\ u.valid => u.value = size.value * 10 + DigitValue(d)
<1>. DEFINE u == AddDigit(size, d)
<1>1. DigitValue(d) \in 0..9 /\ SizeMax \in Nat /\ size.value \in Nat /\ size.valid \in BOOLEAN
  BY DigitIs, CapabilitiesAssumption DEF Sizes
<1>2. size.value <= (SizeMax - DigitValue(d)) \div 10 <=> size.value * 10 + DigitValue(d) <= SizeMax
  <2>1. \A x \in Nat, v \in 0..9, m \in Nat : x <= (m - v) \div 10 <=> x * 10 + v <= m
    OBVIOUS
  <2>. QED  BY <1>1, <2>1
<1>3. size.value * 10 + DigitValue(d) \in Nat
  BY <1>1
<1>4. CASE size.valid /\ size.value <= (SizeMax - DigitValue(d)) \div 10
  <2>1. u = [size EXCEPT !.value = size.value * 10 + DigitValue(d)]
    BY <1>4 DEF AddDigit
  <2>2. u \in Sizes /\ u.valid = size.valid /\ u.value = size.value * 10 + DigitValue(d)
    BY <1>3, <2>1 DEF Sizes
  <2>. QED  BY <1>2, <1>4, <2>2
<1>5. CASE ~(size.valid /\ size.value <= (SizeMax - DigitValue(d)) \div 10)
  <2>1. u = [size EXCEPT !.valid = FALSE]
    BY <1>5 DEF AddDigit
  <2>2. u \in Sizes /\ u.valid = FALSE
    BY <2>1 DEF Sizes
  <2>. QED  BY <1>2, <1>5, <2>2
<1>. QED  BY <1>4, <1>5

LEMMA SizeOfIs ==
    ASSUME NEW s \in Seq(Digits)
    PROVE  /\ SizeOf(s) \in Sizes
           /\ SizeOf(s).valid <=> Number(s) <= SizeMax
           /\ SizeOf(s).valid => SizeOf(s).value = Number(s)
<1>. DEFINE hi == Len(s)
            none == [valid |-> TRUE, value |-> 0]
            Body(g) == [n \in 0..hi |-> IF n = 0 THEN none ELSE AddDigit(g[n - 1], s[n])]
            c == CHOOSE g : g = Body(g)
<1>0. hi \in Nat /\ (\A i \in 1..hi : s[i] \in Digits) /\ none \in Sizes /\ SizeMax \in Nat
  BY CapabilitiesAssumption DEF Sizes
<1>1. SizeOf(s) = c[hi]
  BY DEF SizeOf
<1>. HIDE DEF hi, none
<1>2. \E d : d = Body(d)
  <2>. DEFINE F == [i \in (0 + 1)..hi |-> [v \in Sizes |-> AddDigit(v, s[i])]]
  <2>1. F \in [(0 + 1)..hi -> [Sizes -> Sizes]]
    <3>1. ASSUME NEW i \in (0 + 1)..hi, NEW v \in Sizes PROVE AddDigit(v, s[i]) \in Sizes
      <4>1. PICK d \in Digits : d = s[i]
        BY <1>0
      <4>2. AddDigit(v, d) \in Sizes
        BY AddDigitIs
      <4>. QED  BY <4>1, <4>2
    <3>. QED  BY <3>1
  <2>. HIDE DEF F
  <2>2. PICK d : Recursive(Sizes, 0, hi, none, F, d)
    <3>1. 0 <= hi /\ 0 \in Nat
      BY <1>0
    <3>. QED  BY <1>0, <2>1, <3>1, Recursion
  <2>3. ASSUME NEW n \in 0..hi PROVE d[n] = Body(d)[n]
    <3>1. CASE n = 0
      BY <2>2, <3>1 DEF Recursive
    <3>2. CASE n # 0
      <4>1. n \in (0 + 1)..hi /\ n - 1 \in 0..hi
        BY <1>0, <3>2
      <4>2. d[n] = F[n][d[n - 1]] /\ d[n - 1] \in Sizes
        BY <2>2, <4>1 DEF Recursive
      <4>3. PICK v \in Sizes : v = d[n - 1]
        BY <4>2
      <4>4. F[n][v] = AddDigit(v, s[n])
        BY <4>1 DEF F
      <4>. QED  BY <3>2, <4>2, <4>3, <4>4
    <3>. QED  BY <3>1, <3>2
  <2>4. d = [n \in 0..hi |-> d[n]]
    BY <2>2 DEF Recursive
  <2>. QED  BY <2>3, <2>4
<1>3. c = Body(c)
  BY <1>2
<1>. HIDE DEF c
<1>4. c[0] = none /\ \A i \in 1..hi : c[i] = AddDigit(c[i - 1], s[i])
  <2>. DEFINE b == Body(c)
  <2>1. b[0] = none /\ \A i \in 1..hi : b[i] = AddDigit(c[i - 1], s[i])
    <3>1. 0 \in 0..hi /\ \A i \in 1..hi : i \in 0..hi /\ i # 0
      BY <1>0
    <3>. QED  BY <3>1
  <2>2. c = b
    BY <1>3
  <2>. HIDE DEF b
  <2>. QED  BY <2>1, <2>2
<1>5. PICK num : /\ num \in [0..hi -> Nat] /\ num[0] = 0 /\ Number(s) = num[hi]
                 /\ \A i \in 1..hi : num[i] = 10 * num[i - 1] + DigitValue(s[i])
  BY NumberIs DEF hi
<1>. DEFINE Right(i) == /\ c[i] \in Sizes /\ (c[i].valid <=> num[i] <= SizeMax)
                        /\ c[i].valid => c[i].value = num[i]
            T == {i \in 0..hi : ~Right(i)}
<1>6. Right(0)
  <2>1. c[0].valid = TRUE /\ c[0].value = 0
    BY <1>4 DEF none
  <2>2. num[0] <= SizeMax
    BY <1>0, <1>5
  <2>. QED  BY <1>0, <1>4, <1>5, <2>1, <2>2
<1>7. T = {}
  <2>. SUFFICES ASSUME T # {} PROVE FALSE
    OBVIOUS
  <2>1. T \subseteq Nat
    OBVIOUS
  <2>2. PICK i \in T : \A j \in T : i <= j
    BY <2>1, LeastNatural
  <2>3. i \in 1..hi /\ i - 1 \in 0..hi /\ ~(i <= i - 1) /\ i \in 0..hi
    BY <1>0, <1>6, <2>2
  <2>4. Right(i - 1)
    BY <2>2, <2>3
  <2>5. PICK v \in Sizes : v = c[i - 1]
    BY <2>4
  <2>6. PICK d \in Digits : d = s[i]
    BY <1>0, <2>3
  <2>7. PICK x \in 0..9 : x = DigitValue(d)
    BY DigitIs
  <2>8. PICK m \in Nat : m = num[i - 1]
    BY <1>5, <2>3
  <2>9. PICK u : u = c[i]
    OBVIOUS
  <2>10. num[i] = 10 * m + x
    BY <1>5, <2>3, <2>6, <2>7, <2>8
  <2>11. u = AddDigit(v, d)
    BY <1>4, <2>3, <2>5, <2>6, <2>9
  <2>12. /\ u \in Sizes
         /\ u.valid <=> v.valid /\ v.value * 10 + x <= SizeMax
         /\ u.valid => u.value = v.value * 10 + x
    BY <2>7, <2>11, AddDigitIs
  <2>13. (v.valid <=> m <= SizeMax) /\ (v.valid => v.value = m)
    BY <2>4, <2>5, <2>8
  <2>14. u.valid <=> 10 * m + x <= SizeMax
    <3>1. CASE v.valid
      <4>1. v.value = m /\ m * 10 + x = 10 * m + x
        BY <2>13, <3>1
      <4>. QED  BY <2>12, <3>1, <4>1
    <3>2. CASE ~v.valid
      <4>1. ~(m <= SizeMax)
        BY <2>13, <3>2
      <4>2. ~(10 * m + x <= SizeMax)
        BY <1>0, <4>1
      <4>. QED  BY <2>12, <3>2, <4>2
    <3>. QED  BY <3>1, <3>2
  <2>15. u.valid => u.value = 10 * m + x
    <3>1. m * 10 + x = 10 * m + x
      OBVIOUS
    <3>. QED  BY <2>12, <2>13, <3>1
  <2>16. Right(i)
    BY <2>9, <2>10, <2>12, <2>14, <2>15
  <2>. QED  BY <2>2, <2>16
<1>8. Right(hi)
  <2>1. hi \in 0..hi
    BY <1>0
  <2>. QED  BY <1>7, <2>1
<1>. QED  BY <1>1, <1>5, <1>8

\* The digits from the first byte that is no space, if it is one, to the first
\* that is none: the one number there is to announce.
LEMMA SizeParamIs ==
    ASSUME NEW params \in Seq(Byte)
    PROVE  /\ SizeParam(params) \in Sizes
           /\ SizeParam(params).valid <=> \E n \in Announced(params) : n <= SizeMax
           /\ SizeParam(params).valid =>
                 SizeParam(params).value \in Announced(params) /\ SizeParam(params).value <= SizeMax
<1>. DEFINE len == Len(params)
            Blanks == {i \in 1..len : ~IsSpace(params[i])}
            first == SelectInSeq(params, LAMBDA c : ~IsSpace(c))
            after == SelectInSubSeq(params, first, len, LAMBDA c : c \notin Digits)
            last == IF after = 0 THEN len ELSE after - 1
            digits == SubSeq(params, first, last)
            Others == {i \in first..len : params[i] \notin Digits}
            none == [valid |-> FALSE, value |-> 0]
            IsNumber(i, j) ==
                /\ i <= j /\ \A k \in i..j : params[k] \in Digits
                /\ \A k \in 1..(i - 1) : IsSpace(params[k])
                /\ j = Len(params) \/ params[j + 1] \notin Digits
<1>0. len \in Nat /\ DOMAIN params = 1..len
  BY Extension
<1>1. SizeParam(params) = IF first = 0 \/ params[first] \notin Digits THEN none ELSE SizeOf(digits)
  BY DEF SizeParam, SizeOf
<1>2. \A n : n \in Announced(params) <=>
          \E i, j \in 1..len : IsNumber(i, j) /\ n = Number(SubSeq(params, i, j))
  <2>1. Announced(params) = {Number(SubSeq(params, r[1], r[2])) :
                               r \in {q \in (1..len) \X (1..len) : IsNumber(q[1], q[2])}}
    BY <1>0 DEF Announced
  <2>2. ASSUME NEW i \in 1..len, NEW j \in 1..len, IsNumber(i, j)
        PROVE  Number(SubSeq(params, i, j)) \in Announced(params)
    <3>1. <<i, j>> \in {q \in (1..len) \X (1..len) : IsNumber(q[1], q[2])}
      BY <2>2
    <3>. QED  BY <2>1, <3>1
  <2>3. ASSUME NEW n \in Announced(params)
        PROVE  \E i, j \in 1..len : IsNumber(i, j) /\ n = Number(SubSeq(params, i, j))
    <3>1. PICK r \in (1..len) \X (1..len) : IsNumber(r[1], r[2]) /\ n = Number(SubSeq(params, r[1], r[2]))
      BY <2>1, <2>3
    <3>. QED  BY <3>1
  <2>. QED  BY <2>2, <2>3
<1>3. first = IF Blanks # {} THEN Min(Blanks) ELSE 0
  BY DEF SelectInSeq
<1>4. after = IF Others # {} THEN Min(Others) ELSE 0
  BY DEF SelectInSubSeq
<1>5. \/ first = 0 /\ \A i \in 1..len : IsSpace(params[i])
      \/ first \in 1..len /\ ~IsSpace(params[first]) /\ \A i \in 1..(first - 1) : IsSpace(params[i])
  <2>1. CASE Blanks = {}
    BY <1>3, <2>1
  <2>2. CASE Blanks # {}
    <3>1. Blanks \subseteq Nat
      BY <1>0
    <3>2. Min(Blanks) \in Blanks /\ \A m \in Blanks : Min(Blanks) <= m
      BY <2>2, <3>1, LeastIs
    <3>. HIDE DEF first
    <3>3. first \in 1..len /\ ~IsSpace(params[first]) /\ \A m \in Blanks : first <= m
      BY <1>3, <2>2, <3>2
    <3>4. \A i \in 1..(first - 1) : i \in 1..len /\ ~(first <= i)
      BY <1>0, <3>3
    <3>. QED  BY <3>3, <3>4
  <2>. QED  BY <2>1, <2>2
<1>. HIDE DEF first, after, len
\* Wherever a number stands, it begins there.
<1>6. ASSUME NEW i \in 1..len, NEW j \in 1..len, IsNumber(i, j)
      PROVE  i = first /\ params[first] \in Digits
  <2>1. params[i] \in Digits /\ ~IsSpace(params[i])
    <3>1. i \in i..j
      BY <1>6
    <3>2. params[i] \in Digits
      BY <1>6, <3>1
    <3>. QED  BY <3>2 DEF Digits, IsSpace
  <2>2. first \in 1..len /\ ~IsSpace(params[first]) /\ \A k \in 1..(first - 1) : IsSpace(params[k])
    BY <1>5, <2>1
  <2>3. ~(i < first)
    <3>. SUFFICES ASSUME i < first PROVE FALSE
      OBVIOUS
    <3>1. i \in 1..(first - 1)
      BY <1>0, <2>2
    <3>. QED  BY <2>1, <2>2, <3>1
  <2>4. ~(first < i)
    <3>. SUFFICES ASSUME first < i PROVE FALSE
      OBVIOUS
    <3>1. first \in 1..(i - 1)
      BY <1>0, <2>2
    <3>. QED  BY <1>6, <2>2, <3>1
  <2>5. i = first
    BY <1>0, <2>2, <2>3, <2>4
  <2>. QED  BY <2>1, <2>5
<1>7. CASE first = 0 \/ params[first] \notin Digits
  <2>1. SizeParam(params) = none
    BY <1>1, <1>7
  <2>2. ASSUME NEW n \in Announced(params) PROVE FALSE
    <3>1. PICK i \in 1..len, j \in 1..len : IsNumber(i, j)
      BY <1>2, <2>2
    <3>2. i = first /\ params[first] \in Digits
      BY <1>6, <3>1
    <3>. QED  BY <1>7, <3>2
  <2>3. none \in Sizes /\ none.valid = FALSE
    BY DEF Sizes
  <2>. QED  BY <2>1, <2>2, <2>3
<1>8. CASE first # 0 /\ params[first] \in Digits
  <2>1. first \in 1..len /\ \A i \in 1..(first - 1) : IsSpace(params[i])
    BY <1>5, <1>8
  <2>2. \/ after = 0 /\ \A i \in first..len : params[i] \in Digits
        \/ /\ after \in first..len /\ params[after] \notin Digits
           /\ \A i \in first..(after - 1) : params[i] \in Digits
    <3>1. CASE Others = {}
      BY <1>4, <3>1
    <3>2. CASE Others # {}
      <4>1. Others \subseteq Nat
        BY <1>0, <2>1
      <4>2. Min(Others) \in Others /\ \A m \in Others : Min(Others) <= m
        BY <3>2, <4>1, LeastIs
      <4>3. after \in first..len /\ params[after] \notin Digits /\ \A m \in Others : after <= m
        BY <1>4, <3>2, <4>2
      <4>4. \A i \in first..(after - 1) : i \in first..len /\ ~(after <= i)
        BY <1>0, <2>1, <4>3
      <4>. QED  BY <4>3, <4>4
    <3>. QED  BY <3>1, <3>2
  <2>. HIDE DEF Others
  <2>3. /\ last \in first..len /\ (\A i \in first..last : params[i] \in Digits)
        /\ last = len \/ (last + 1 \in 1..len /\ params[last + 1] \notin Digits)
    <3>1. CASE after = 0
      <4>1. last = len
        BY <3>1
      <4>. QED  BY <1>0, <2>1, <2>2, <3>1, <4>1
    <3>2. CASE after # 0
      <4>1. after \in first..len /\ params[after] \notin Digits
            /\ \A i \in first..(after - 1) : params[i] \in Digits
        BY <2>2, <3>2
      <4>2. after # first
        BY <1>8, <4>1
      <4>3. last = after - 1 /\ last + 1 = after /\ last \in first..len /\ after \in 1..len
        BY <1>0, <2>1, <3>2, <4>1, <4>2
      <4>. QED  BY <4>1, <4>3
    <3>. QED  BY <3>1, <3>2
  <2>. HIDE DEF last
  <2>4. digits \in Seq(Digits)
    <3>1. Len(digits) = last - first + 1 /\ Len(digits) \in Nat
          /\ \A i \in 1..(last - first + 1) : digits[i] = params[first + i - 1]
      <4>1. PICK a \in 1..len : a = first
        BY <2>1
      <4>2. PICK b \in 1..len : b = last /\ a <= b
        BY <1>0, <2>1, <2>3, <4>1
      <4>3. /\ SubSeq(params, a, b) \in Seq(Byte) /\ Len(SubSeq(params, a, b)) = b - a + 1
            /\ b - a + 1 \in Nat
            /\ \A i \in 1..(b - a + 1) : SubSeq(params, a, b)[i] = params[a + i - 1]
        BY <1>0, <4>2 DEF len
      <4>. QED  BY <4>1, <4>2, <4>3
    <3>2. \A i \in 1..(last - first + 1) : first + i - 1 \in first..last
      BY <1>0, <2>1, <2>3
    <3>3. \A i \in 1..Len(digits) : digits[i] \in Digits
      BY <2>3, <3>1, <3>2
    <3>4. digits = [i \in 1..Len(digits) |-> digits[i]]
      <4>1. digits \in Seq(Byte)
        <5>1. PICK a \in 1..len : a = first
          BY <2>1
        <5>2. PICK b \in 1..len : b = last /\ a <= b
          BY <1>0, <2>1, <2>3, <5>1
        <5>3. SubSeq(params, a, b) \in Seq(Byte)
          BY <1>0, <5>2 DEF len
        <5>. QED  BY <5>1, <5>2, <5>3
      <4>. HIDE DEF digits
      <4>. QED  BY <4>1
    <3>. HIDE DEF digits
    <3>. QED  BY <3>1, <3>3, <3>4
  <2>5. SizeParam(params) = SizeOf(digits)
    BY <1>1, <1>8
  <2>6. Number(digits) \in Announced(params)
    <3>1. IsNumber(first, last)
      <4>1. first <= last
        BY <1>0, <2>1, <2>3
      <4>2. last = Len(params) \/ params[last + 1] \notin Digits
        BY <2>3 DEF len
      <4>. QED  BY <2>1, <2>3, <4>1, <4>2
    <3>2. last \in 1..len
      BY <1>0, <2>1, <2>3
    <3>. QED  BY <1>2, <2>1, <3>1, <3>2
  <2>7. ASSUME NEW n \in Announced(params) PROVE n = Number(digits)
    <3>1. PICK i \in 1..len, j \in 1..len : IsNumber(i, j) /\ n = Number(SubSeq(params, i, j))
      BY <1>2, <2>7
    <3>2. i = first
      BY <1>6, <3>1
    <3>3. ~(j < last)
      <4>. SUFFICES ASSUME j < last PROVE FALSE
        OBVIOUS
      <4>1. j + 1 \in first..last /\ j # len
        BY <1>0, <2>1, <2>3, <3>1, <3>2
      <4>. QED  BY <2>3, <3>1, <4>1 DEF len
    <3>4. ~(last < j)
      <4>. SUFFICES ASSUME last < j PROVE FALSE
        OBVIOUS
      <4>1. last + 1 \in i..j /\ last # len
        BY <1>0, <2>1, <2>3, <3>1, <3>2
      <4>. QED  BY <2>3, <3>1, <4>1
    <3>5. j = last
      BY <1>0, <2>1, <2>3, <3>3, <3>4
    <3>. QED  BY <3>1, <3>2, <3>5
  <2>. HIDE DEF digits
  <2>8. /\ SizeOf(digits) \in Sizes
        /\ SizeOf(digits).valid <=> Number(digits) <= SizeMax
        /\ SizeOf(digits).valid => SizeOf(digits).value = Number(digits)
    BY <2>4, SizeOfIs
  <2>. QED  BY <2>5, <2>6, <2>7, <2>8
<1>. QED  BY <1>7, <1>8

-----------------------------------------------------------------------------
(* The table after the lines of a response.                                  *)

Unknowns(texts, n) == {i \in 2..n : texts[i] # <<>> /\ Keyword(texts[i]) \notin Known}

\* What the first n lines say, and nothing else; of the lines that announce a
\* size, what the last one says.
Shows(c, texts, n) ==
    /\ \A f \in Flags : f \in c.flags <=> \E i \in 2..n : Keyword(texts[i]) = <<f>>
    /\ c.has_size <=> \E i \in 2..n : Keyword(texts[i]) = <<"SIZE">>
    /\ c.has_auth <=> \E i \in 2..n : Keyword(texts[i]) = <<"AUTH">>
    /\ \A m : m \in c.auth_mechs <=>
                 \E i \in 2..n : Keyword(texts[i]) = <<"AUTH">> /\ m \in Announcing(Params(texts[i]))
    /\ \A i \in 2..n :
          Keyword(texts[i]) = <<"SIZE">> /\ (\A j \in (i + 1)..n : Keyword(texts[j]) # <<"SIZE">>) =>
              /\ c.size_valid = SizeParam(Params(texts[i])).valid
              /\ c.size_valid => c.size_limit = SizeParam(Params(texts[i])).value
    /\ (\A j \in 2..n : Keyword(texts[j]) # <<"SIZE">>) => ~c.size_valid
    /\ Len(c.unknown) <= MaxUnknown
    /\ Len(c.unknown) + c.unknown_overflow = Cardinality(Unknowns(texts, n))
    /\ \A i \in 2..n :
          Keyword(texts[i]) = <<"AUTH">> /\ (\A j \in (i + 1)..n : Keyword(texts[j]) # <<"AUTH">>) =>
              IsCopy(c.auth_raw, Params(texts[i]), MaxParamLen)
    /\ \A i \in DOMAIN c.unknown : \E j \in Unknowns(texts, n) : Tells(c.unknown[i], texts[j])

LEMMA ShowsFirst == ASSUME NEW texts PROVE NoCapabilities \in Tables /\ Shows(NoCapabilities, texts, 1)
<1>. DEFINE c == NoCapabilities
<1>1. MaxUnknown \in Nat
  BY CapabilitiesAssumption
<1>2. /\ c.flags = {} /\ c.has_size = FALSE /\ c.has_auth = FALSE /\ c.auth_mechs = {}
      /\ c.size_valid = FALSE /\ c.size_limit = 0 /\ c.unknown = <<>> /\ c.unknown_overflow = 0
      /\ c.auth_raw = <<>>
  BY DEF NoCapabilities
<1>3. c \in Tables
  <2>1. <<>> \in Seq(Byte) /\ <<>> \in Seq(Entries)
    OBVIOUS
  <2>. QED  BY <2>1 DEF NoCapabilities, Tables
<1>4. Unknowns(texts, 1) = {}
  BY DEF Unknowns
<1>5. Cardinality(Unknowns(texts, 1)) = 0
  BY <1>4, FS_EmptySet
<1>6. Len(c.unknown) = 0 /\ DOMAIN c.unknown = {}
  BY <1>2
<1>. HIDE DEF c
<1>7. 2..1 = {}
  OBVIOUS
<1>8. Len(c.unknown) <= MaxUnknown /\ Len(c.unknown) + c.unknown_overflow = 0
  BY <1>1, <1>2, <1>6
<1>9. Shows(c, texts, 1)
  BY <1>2, <1>5, <1>6, <1>7, <1>8 DEF Shows
<1>. QED  BY <1>3, <1>9 DEF c

LEMMA ShowsNext ==
    ASSUME NEW texts, NEW n \in Nat, n >= 1, NEW c \in Tables, NEW u \in Tables,
           Shows(c, texts, n), Takes(c, texts[n + 1], u)
    PROVE  Shows(u, texts, n + 1)
<1>. DEFINE x == texts[n + 1]
            keyword == Keyword(x)
            size == SizeParam(Params(x))
<1>1. /\ n + 1 \in 2..(n + 1) /\ (\A i \in 2..n : i \in 2..(n + 1))
      /\ \A i \in 2..(n + 1) : i \in 2..n \/ i = n + 1
  OBVIOUS
<1>2. /\ u.flags = c.flags \cup {f \in Flags : keyword = <<f>>}
      /\ u.has_size <=> c.has_size \/ keyword = <<"SIZE">>
      /\ u.has_auth <=> c.has_auth \/ keyword = <<"AUTH">>
      /\ u.auth_mechs = c.auth_mechs \cup (IF keyword = <<"AUTH">> THEN Announcing(Params(x)) ELSE {})
      /\ keyword = <<"SIZE">> => u.size_valid = size.valid /\ (size.valid => u.size_limit = size.value)
      /\ keyword # <<"SIZE">> => u.size_valid = c.size_valid /\ u.size_limit = c.size_limit
      /\ Len(c.unknown) <= MaxUnknown => Len(u.unknown) <= MaxUnknown
      /\ Len(u.unknown) + u.unknown_overflow =
            Len(c.unknown) + c.unknown_overflow
              + (IF x # <<>> /\ keyword \notin Known THEN 1 ELSE 0)
      /\ keyword = <<"AUTH">> => IsCopy(u.auth_raw, Params(x), MaxParamLen)
      /\ keyword # <<"AUTH">> => u.auth_raw = c.auth_raw
      /\ \A i \in DOMAIN u.unknown :
            \/ i \in DOMAIN c.unknown /\ u.unknown[i] = c.unknown[i]
            \/ x # <<>> /\ keyword \notin Known /\ Tells(u.unknown[i], x)
  BY DEF Takes
<1>. HIDE DEF size
<1>3. ASSUME NEW f \in Flags
      PROVE  f \in u.flags <=> \E i \in 2..(n + 1) : Keyword(texts[i]) = <<f>>
  <2>1. f \in c.flags <=> \E i \in 2..n : Keyword(texts[i]) = <<f>>
    BY DEF Shows
  <2>2. f \in u.flags <=> f \in c.flags \/ keyword = <<f>>
    BY <1>2
  <2>. QED  BY <1>1, <2>1, <2>2
<1>4. u.has_size <=> \E i \in 2..(n + 1) : Keyword(texts[i]) = <<"SIZE">>
  <2>1. c.has_size <=> \E i \in 2..n : Keyword(texts[i]) = <<"SIZE">>
    BY DEF Shows
  <2>. QED  BY <1>1, <1>2, <2>1
<1>5. u.has_auth <=> \E i \in 2..(n + 1) : Keyword(texts[i]) = <<"AUTH">>
  <2>1. c.has_auth <=> \E i \in 2..n : Keyword(texts[i]) = <<"AUTH">>
    BY DEF Shows
  <2>. QED  BY <1>1, <1>2, <2>1
<1>6. ASSUME NEW m
      PROVE  m \in u.auth_mechs <=>
               \E i \in 2..(n + 1) : Keyword(texts[i]) = <<"AUTH">> /\ m \in Announcing(Params(texts[i]))
  <2>1. m \in c.auth_mechs <=>
          \E i \in 2..n : Keyword(texts[i]) = <<"AUTH">> /\ m \in Announcing(Params(texts[i]))
    BY DEF Shows
  <2>2. m \in u.auth_mechs <=> m \in c.auth_mechs \/ (keyword = <<"AUTH">> /\ m \in Announcing(Params(x)))
    BY <1>2
  <2>. QED  BY <1>1, <2>1, <2>2
<1>7. ASSUME NEW i \in 2..(n + 1), Keyword(texts[i]) = <<"SIZE">>,
             \A j \in (i + 1)..(n + 1) : Keyword(texts[j]) # <<"SIZE">>
      PROVE  /\ u.size_valid = SizeParam(Params(texts[i])).valid
             /\ u.size_valid => u.size_limit = SizeParam(Params(texts[i])).value
  <2>1. CASE i = n + 1
    <3>1. keyword = <<"SIZE">> /\ SizeParam(Params(texts[i])) = size
      BY <1>7, <2>1 DEF size
    <3>. QED  BY <1>2, <3>1
  <2>2. CASE i # n + 1
    <3>1. i \in 2..n /\ n + 1 \in (i + 1)..(n + 1) /\ \A j \in (i + 1)..n : j \in (i + 1)..(n + 1)
      BY <1>1, <2>2
    <3>2. keyword # <<"SIZE">> /\ \A j \in (i + 1)..n : Keyword(texts[j]) # <<"SIZE">>
      BY <1>7, <3>1
    <3>3. /\ c.size_valid = SizeParam(Params(texts[i])).valid
          /\ c.size_valid => c.size_limit = SizeParam(Params(texts[i])).value
      BY <1>7, <3>1, <3>2 DEF Shows
    <3>. QED  BY <1>2, <3>2, <3>3
  <2>. QED  BY <2>1, <2>2
<1>8. ASSUME \A j \in 2..(n + 1) : Keyword(texts[j]) # <<"SIZE">> PROVE ~u.size_valid
  <2>1. keyword # <<"SIZE">> /\ \A j \in 2..n : Keyword(texts[j]) # <<"SIZE">>
    BY <1>1, <1>8
  <2>2. ~c.size_valid
    BY <2>1 DEF Shows
  <2>. QED  BY <1>2, <2>1, <2>2
<1>9. Len(u.unknown) <= MaxUnknown
  BY <1>2 DEF Shows
<1>10. Len(u.unknown) + u.unknown_overflow = Cardinality(Unknowns(texts, n + 1))
  <2>1. IsFiniteSet(Unknowns(texts, n)) /\ Cardinality(Unknowns(texts, n)) \in Nat
    <3>1. IsFiniteSet(2..n)
      BY FS_Interval
    <3>2. Unknowns(texts, n) \in SUBSET (2..n)
      BY DEF Unknowns
    <3>3. IsFiniteSet(Unknowns(texts, n))
      BY <3>1, <3>2, FS_Subset
    <3>. QED  BY <3>3, FS_CardinalityType
  <2>2. Len(c.unknown) + c.unknown_overflow = Cardinality(Unknowns(texts, n))
    BY DEF Shows
  <2>3. CASE x # <<>> /\ keyword \notin Known
    <3>1. Unknowns(texts, n + 1) = Unknowns(texts, n) \cup {n + 1}
      BY <1>1, <2>3 DEF Unknowns
    <3>2. n + 1 \notin Unknowns(texts, n)
      BY DEF Unknowns
    <3>3. Cardinality(Unknowns(texts, n + 1)) = Cardinality(Unknowns(texts, n)) + 1
      BY <2>1, <3>1, <3>2, FS_AddElement
    <3>. QED  BY <1>2, <2>2, <2>3, <3>3
  <2>4. CASE ~(x # <<>> /\ keyword \notin Known)
    <3>1. Unknowns(texts, n + 1) = Unknowns(texts, n)
      BY <1>1, <2>4 DEF Unknowns
    <3>. QED  BY <1>2, <2>1, <2>2, <2>4, <3>1
  <2>. QED  BY <2>3, <2>4
<1>11. ASSUME NEW i \in 2..(n + 1), Keyword(texts[i]) = <<"AUTH">>,
              \A j \in (i + 1)..(n + 1) : Keyword(texts[j]) # <<"AUTH">>
       PROVE  IsCopy(u.auth_raw, Params(texts[i]), MaxParamLen)
  <2>1. CASE i = n + 1
    BY <1>2, <1>11, <2>1
  <2>2. CASE i # n + 1
    <3>1. i \in 2..n /\ n + 1 \in (i + 1)..(n + 1) /\ \A j \in (i + 1)..n : j \in (i + 1)..(n + 1)
      BY <1>1, <2>2
    <3>2. keyword # <<"AUTH">> /\ \A j \in (i + 1)..n : Keyword(texts[j]) # <<"AUTH">>
      BY <1>11, <3>1
    <3>3. IsCopy(c.auth_raw, Params(texts[i]), MaxParamLen)
      BY <1>11, <3>1, <3>2 DEF Shows
    <3>. QED  BY <1>2, <3>2, <3>3
  <2>. QED  BY <2>1, <2>2
<1>12. ASSUME NEW i \in DOMAIN u.unknown
       PROVE  \E j \in Unknowns(texts, n + 1) : Tells(u.unknown[i], texts[j])
  <2>1. CASE i \in DOMAIN c.unknown /\ u.unknown[i] = c.unknown[i]
    <3>1. PICK j \in Unknowns(texts, n) : Tells(c.unknown[i], texts[j])
      BY <2>1 DEF Shows
    <3>2. j \in Unknowns(texts, n + 1)
      BY <1>1, <3>1 DEF Unknowns
    <3>. QED  BY <2>1, <3>1, <3>2
  <2>2. CASE x # <<>> /\ keyword \notin Known /\ Tells(u.unknown[i], x)
    <3>1. n + 1 \in Unknowns(texts, n + 1)
      BY <1>1, <2>2 DEF Unknowns
    <3>. QED  BY <2>2, <3>1
  <2>. QED  BY <1>2, <2>1, <2>2
<1>. HIDE DEF x, keyword
<1>. QED  BY <1>3, <1>4, <1>5, <1>6, <1>7, <1>8, <1>9, <1>10, <1>11, <1>12 DEF Shows

LEMMA FilledShows ==
    ASSUME NEW texts \in Seq(Seq(Byte)), texts # <<>>
    PROVE  LET c == Filled(NoCapabilities, texts) IN c \in Tables /\ Shows(c, texts, Len(texts))
<1>. DEFINE hi == Len(texts)
            Body(g) == [n \in 1..hi |-> IF n = 1 THEN NoCapabilities ELSE ParseCapability(g[n - 1], texts[n])]
            c == CHOOSE g : g = Body(g)
<1>0. hi \in Nat /\ 1 <= hi /\ \A i \in 1..hi : texts[i] \in Seq(Byte)
  OBVIOUS
<1>1. Filled(NoCapabilities, texts) = c[hi]
  BY DEF Filled
<1>. HIDE DEF hi
<1>2. NoCapabilities \in Tables /\ Shows(NoCapabilities, texts, 1)
  BY ShowsFirst
<1>3. ASSUME NEW v \in Tables, NEW i \in 1..hi
      PROVE  ParseCapability(v, texts[i]) \in Tables /\ Takes(v, texts[i], ParseCapability(v, texts[i]))
  <2>1. PICK t \in Seq(Byte) : t = texts[i]
    BY <1>0
  <2>2. PICK p \in Seq(Byte) : p = Params(t)
    BY KeywordIs
  <2>3. SizeParam(p) \in Sizes
    BY SizeParamIs
  <2>4. ParseCapability(v, t) \in Tables /\ Takes(v, t, ParseCapability(v, t))
    BY <2>2, <2>3, CapabilityTaken
  <2>. QED  BY <2>1, <2>4
<1>4. \E d : d = Body(d)
  <2>. DEFINE F == [i \in (1 + 1)..hi |-> [v \in Tables |-> ParseCapability(v, texts[i])]]
  <2>1. F \in [(1 + 1)..hi -> [Tables -> Tables]]
    <3>1. ASSUME NEW i \in (1 + 1)..hi, NEW v \in Tables PROVE ParseCapability(v, texts[i]) \in Tables
      <4>1. i \in 1..hi
        OBVIOUS
      <4>. QED  BY <1>3, <4>1
    <3>. QED  BY <3>1
  <2>. HIDE DEF F
  <2>2. PICK d : Recursive(Tables, 1, hi, NoCapabilities, F, d)
    <3>1. 1 \in Nat
      OBVIOUS
    <3>. QED  BY <1>0, <1>2, <2>1, <3>1, Recursion
  <2>3. ASSUME NEW n \in 1..hi PROVE d[n] = Body(d)[n]
    <3>1. CASE n = 1
      BY <2>2, <3>1 DEF Recursive
    <3>2. CASE n # 1
      <4>1. n \in (1 + 1)..hi /\ n - 1 \in 1..hi
        BY <1>0, <3>2
      <4>2. d[n] = F[n][d[n - 1]] /\ d[n - 1] \in Tables
        BY <2>2, <4>1 DEF Recursive
      <4>3. PICK v \in Tables : v = d[n - 1]
        BY <4>2
      <4>4. F[n][v] = ParseCapability(v, texts[n])
        BY <4>1 DEF F
      <4>. QED  BY <3>2, <4>2, <4>3, <4>4
    <3>. QED  BY <3>1, <3>2
  <2>4. d = [n \in 1..hi |-> d[n]]
    BY <2>2 DEF Recursive
  <2>. DEFINE b == Body(d)
  <2>5. b = [n \in 1..hi |-> b[n]] /\ \A n \in 1..hi : d[n] = b[n]
    BY <2>3
  <2>. HIDE DEF b
  <2>6. d = b
    BY <2>4, <2>5
  <2>. QED  BY <2>6 DEF b
<1>5. c = Body(c)
  BY <1>4
<1>. HIDE DEF c
<1>6. c[1] = NoCapabilities /\ \A i \in 2..hi : c[i] = ParseCapability(c[i - 1], texts[i])
  <2>. DEFINE b == Body(c)
  <2>1. b[1] = NoCapabilities /\ \A i \in 2..hi : b[i] = ParseCapability(c[i - 1], texts[i])
    <3>1. 1 \in 1..hi /\ \A i \in 2..hi : i \in 1..hi /\ i # 1
      BY <1>0
    <3>. QED  BY <3>1
  <2>2. c = b
    BY <1>5
  <2>. HIDE DEF b
  <2>. QED  BY <2>1, <2>2
<1>. DEFINE Right(i) == c[i] \in Tables /\ Shows(c[i], texts, i)
            T == {i \in 1..hi : ~Right(i)}
<1>7. T = {}
  <2>. SUFFICES ASSUME T # {} PROVE FALSE
    OBVIOUS
  <2>1. T \subseteq Nat
    OBVIOUS
  <2>2. PICK i \in T : \A j \in T : i <= j
    BY <2>1, LeastNatural
  <2>3. Right(1)
    BY <1>2, <1>6
  <2>4. i \in 2..hi /\ i - 1 \in 1..hi /\ ~(i <= i - 1) /\ i \in 1..hi /\ i # 1
    <3>1. i # 1
      BY <2>2, <2>3
    <3>. QED  BY <1>0, <2>2, <3>1
  <2>5. Right(i - 1)
    BY <2>2, <2>4
  <2>6. PICK v \in Tables : v = c[i - 1]
    BY <2>5
  <2>7. PICK m \in Nat : m = i - 1 /\ m >= 1 /\ m + 1 = i
    BY <2>4
  <2>8. PICK u : u = c[i]
    OBVIOUS
  <2>9. u = ParseCapability(v, texts[i])
    BY <1>6, <2>4, <2>6, <2>8
  <2>10. u \in Tables /\ Takes(v, texts[i], u)
    BY <1>3, <2>4, <2>9
  <2>11. Shows(v, texts, m) /\ Takes(v, texts[m + 1], u)
    BY <2>5, <2>6, <2>7, <2>10
  <2>12. Shows(u, texts, m + 1)
    BY <2>7, <2>10, <2>11, ShowsNext
  <2>. QED  BY <2>2, <2>7, <2>8, <2>10, <2>12
<1>8. Right(hi)
  <2>1. hi \in 1..hi
    BY <1>0
  <2>. QED  BY <1>7, <2>1
<1>. QED  BY <1>1, <1>8 DEF hi

\* The table shows the reply, once there is one.
Told == reply.status = "OK" => caps = Filled(NoCapabilities, reply.texts)

LEMMA ToldInit == Init => Told
<1>. SUFFICES ASSUME Init, reply.status = "OK" PROVE FALSE
  BY DEF Told
<1>0. <<>> \in Seq(Byte)
  OBVIOUS
<1>1. PICK s \in Seq(Byte) : s = <<>>
  BY <1>0, Zenon
<1>2. PICK r : r = reply
  OBVIOUS
<1>3. r = ReplyRead(s) /\ r.status = "OK"
  BY <1>1, <1>2 DEF Init
<1>4. PICK k \in 0..MaxLines : \E e : Result(s, r, e, k)
  BY <1>3, ReplyIs
<1>5. PICK e : Result(s, r, e, k)
  BY <1>4
<1>6. ReadTo(s, e, k, r) /\ k # 0 /\ Continued(s, e, k - 1) /\ Piece(s, e, k)[4] # "-"
  BY <1>3, <1>5 DEF Result
<1>7. k \in 1..MaxLines
  BY <1>6, MaxLinesAssumption
<1>8. r.consumed \in 1..Len(s)
  BY <1>6, <1>7, AcceptedIsReply
<1>9. Len(s) = 0
  BY <1>1
<1>. QED  BY <1>8, <1>9

LEMMA ToldStep == Told /\ [Next]_vars => Told'
<1>. SUFFICES ASSUME Told, [Next]_vars PROVE Told'
  OBVIOUS
<1>1. CASE UNCHANGED <<reply, caps>>
  BY <1>1 DEF Told
<1>2. CASE ReadByte
  <2>1. reply' = ReplyRead(buf') /\ caps' = ParseEhloResponse(caps, buf')
    BY <1>2 DEF ReadByte
  <2>. QED  BY <2>1 DEF Told, ParseEhloResponse
<1>. QED  BY <1>1, <1>2 DEF Next, Send, Silent, vars

\* The capability lines, by where they end, are the second to the last.
LEMMA TextsByEnd ==
    ASSUME NEW k \in 1..MaxLines, NEW e, buf \in Seq(Byte), ReadTo(buf, e, k, reply)
    PROVE  /\ \A x : x \in DOMAIN CapabilityTexts <=> \E i \in 2..k : x = e[i]
           /\ \A i \in 2..k : CapabilityTexts[e[i]] = reply.texts[i] /\ e[i] \in 0..Len(buf)
           /\ \A i, j \in 2..k : i < j => e[i] < e[j]
<1>. DEFINE ends == {x \in LineEnds(buf) : x <= reply.consumed}
            D == {x \in ends : \E d \in ends : d < x}
            text(x) == LET l == LineAt(buf, x) IN SubSeq(l, 5, Len(l) - 2)
<1>1. PICK s \in Seq(Byte) : s = buf
  OBVIOUS
<1>2. PICK r : r = reply
  OBVIOUS
<1>3. ReadTo(s, e, k, r)
  BY <1>1, <1>2
<1>cut. Cut(s, e, k)
  BY <1>3 DEF ReadTo
<1>0. /\ MaxLines \in Nat /\ k \in Nat /\ k >= 1 /\ e \in [0..k -> 0..Len(s)] /\ Len(s) \in Nat
      /\ r.consumed = e[k] /\ DOMAIN s = 1..Len(s) /\ e[k] \in 0..Len(s) /\ k \in 0..k
  BY <1>3, MaxLinesAssumption, Extension DEF ReadTo, Cut
<1>4. \A i, j \in 0..k : i < j => e[i] < e[j]
  BY <1>cut, CutGrows
<1>5. ASSUME NEW i \in 1..k
      PROVE  e[i] \in LineEnds(s) /\ e[i] <= e[k] /\ LineAt(s, e[i]) = Piece(s, e, i)
  <2>1. Begins(s, s) /\ e[i] <= Len(s)
    <3>1. i \in 0..k
      OBVIOUS
    <3>. QED  BY <1>0, <3>1 DEF Begins
  <2>2. e[i] \in LineEnds(s) /\ LineAt(s, e[i]) = Piece(s, e, i)
    BY <1>cut, <2>1, LineAtEnd
  <2>3. e[i] <= e[k]
    <3>1. i \in 0..k /\ e[i] \in Nat /\ e[k] \in Nat
      BY <1>0
    <3>2. i = k \/ i < k
      BY <1>0
    <3>. QED  BY <1>0, <1>4, <3>1, <3>2
  <2>. QED  BY <2>2, <2>3
<1>6. \A x : x \in ends <=> \E i \in 1..k : x = e[i]
  <2>1. ASSUME NEW x \in ends PROVE \E i \in 1..k : x = e[i]
    <3>1. x \in 1..e[k] /\ s[x] = "LF"
      BY <1>0, <1>1, <1>2 DEF LineEnds
    <3>. QED  BY <1>cut, <3>1, CutEnds
  <2>2. ASSUME NEW i \in 1..k PROVE e[i] \in ends
    BY <1>0, <1>1, <1>2, <1>5
  <2>. QED  BY <2>1, <2>2
<1>. HIDE DEF ends
<1>7. \A x : x \in D <=> \E i \in 2..k : x = e[i]
  <2>1. ASSUME NEW x \in D PROVE \E i \in 2..k : x = e[i]
    <3>1. x \in ends /\ \E d \in ends : d < x
      OBVIOUS
    <3>2. PICK i \in 1..k : x = e[i]
      BY <1>6, <3>1
    <3>3. PICK d \in ends : d < x
      BY <3>1
    <3>4. PICK j \in 1..k : d = e[j]
      BY <1>6
    <3>5. i # 1
      <4>. SUFFICES ASSUME i = 1 PROVE FALSE
        OBVIOUS
      <4>1. i \in 0..k /\ j \in 0..k /\ (j = i \/ i < j) /\ e[i] \in Nat /\ e[j] \in Nat
        BY <1>0
      <4>2. e[j] < e[i]
        BY <3>2, <3>3, <3>4
      <4>. QED  BY <1>4, <4>1, <4>2
    <3>. QED  BY <3>2, <3>5
  <2>2. ASSUME NEW i \in 2..k PROVE e[i] \in D
    <3>1. i \in 1..k /\ 1 \in 1..k /\ i \in 0..k /\ 1 \in 0..k /\ 1 < i
      BY <1>0
    <3>2. e[i] \in ends /\ e[1] \in ends /\ e[1] < e[i]
      BY <1>4, <1>6, <3>1
    <3>. QED  BY <3>2
  <2>. QED  BY <2>1, <2>2
<1>8. CapabilityTexts = [x \in D |-> text(x)]
  BY DEF CapabilityTexts, ends
<1>. HIDE DEF D
<1>9. DOMAIN CapabilityTexts = D /\ \A x \in D : CapabilityTexts[x] = text(x)
  BY <1>8
<1>10. ASSUME NEW i \in 2..k PROVE CapabilityTexts[e[i]] = reply.texts[i] /\ e[i] \in 0..Len(buf)
  <2>1. i \in 1..k /\ i \in 0..k
    OBVIOUS
  <2>2. e[i] \in D
    BY <1>7
  <2>3. LineAt(buf, e[i]) = Piece(s, e, i)
    BY <1>1, <1>5, <2>1
  <2>4. r.texts[i] = SubSeq(Piece(s, e, i), 5, Len(Piece(s, e, i)) - 2)
    BY <1>3, <2>1 DEF ReadTo
  <2>5. CapabilityTexts[e[i]] = SubSeq(LineAt(buf, e[i]), 5, Len(LineAt(buf, e[i])) - 2)
    BY <1>9, <2>2
  <2>. QED  BY <1>0, <1>1, <1>2, <2>1, <2>3, <2>4, <2>5
<1>11. \A i, j \in 2..k : i < j => e[i] < e[j]
  <2>1. \A i \in 2..k : i \in 0..k
    OBVIOUS
  <2>. QED  BY <1>4, <2>1
<1>. QED  BY <1>7, <1>9, <1>10, <1>11

LEMMA ShownTable ==
    ASSUME Fed, Told, reply.status = "OK"
    PROVE  /\ caps \in Tables /\ reply.texts \in Seq(Seq(Byte))
           /\ \E k \in 1..MaxLines : \E e :
                 /\ ReadTo(buf, e, k, reply) /\ Len(reply.texts) = k
                 /\ Shows(caps, reply.texts, k)
<1>1. PICK s \in Seq(Byte) : s = buf
  BY DEF Fed
<1>2. PICK r : r = reply
  OBVIOUS
<1>3. r = ReplyRead(s) /\ r.status = "OK"
  BY <1>1, <1>2 DEF Fed
<1>4. r \in Replies
  BY <1>3, ReplyIs
<1>5. PICK k \in 0..MaxLines : \E e : Result(s, r, e, k)
  BY <1>3, ReplyIs
<1>6. PICK e : Result(s, r, e, k)
  BY <1>5
<1>7. ReadTo(s, e, k, r) /\ k # 0
  BY <1>3, <1>6 DEF Result
<1>8. k \in 1..MaxLines
  BY <1>7, MaxLinesAssumption
<1>9. PICK texts \in Seq(Seq(Byte)) : texts = r.texts
  BY <1>4 DEF Replies
<1>10. Len(texts) = k
  BY <1>7, <1>9 DEF ReadTo
<1>11. texts # <<>>
  BY <1>8, <1>10, MaxLinesAssumption
<1>12. PICK c : c = Filled(NoCapabilities, texts)
  OBVIOUS
<1>13. c \in Tables /\ Shows(c, texts, k)
  BY <1>10, <1>11, <1>12, FilledShows
<1>14. caps = c
  BY <1>2, <1>3, <1>9, <1>12 DEF Told
<1>. QED  BY <1>1, <1>2, <1>7, <1>8, <1>9, <1>10, <1>13, <1>14

\* CapsMatchReply: the table shows the last complete response, line by line, and
\* nothing that was in it before.
THEOREM CapsInvariant == Spec => []CapsMatchReply
<1>1. Fed /\ [Next]_vars => Fed'
  BY FedStep
<1>2. Fed /\ Told => CapsMatchReply
  <2>. SUFFICES ASSUME Fed, Told, reply.status = "OK" PROVE CapsMatchReply
    BY DEF CapsMatchReply
  <2>. DEFINE D == DOMAIN CapabilityTexts
              texts == reply.texts
              others == {x \in D : CapabilityTexts[x] # <<>> /\ KeywordAt(x) \notin Known}
  <2>1. caps \in Tables
    BY ShownTable
  <2>2. PICK k \in 1..MaxLines : \E e : ReadTo(buf, e, k, reply) /\ Shows(caps, texts, k)
    BY ShownTable
  <2>3. PICK e : ReadTo(buf, e, k, reply) /\ Shows(caps, texts, k)
    BY <2>2
  <2>4. /\ \A x : x \in D <=> \E i \in 2..k : x = e[i]
        /\ \A i \in 2..k : CapabilityTexts[e[i]] = texts[i]
        /\ \A i, j \in 2..k : i < j => e[i] < e[j]
        /\ \A i \in 2..k : e[i] \in Nat
    <3>1. buf \in Seq(Byte)
      BY DEF Fed
    <3>2. \A i \in 2..k : e[i] \in 0..Len(buf)
      BY <2>3, <3>1, TextsByEnd
    <3>. QED  BY <2>3, <3>1, <3>2, TextsByEnd
  <2>5. \A i \in 2..k : KeywordAt(e[i]) = Keyword(texts[i])
    BY <2>4 DEF KeywordAt
  <2>. HIDE DEF D, texts
  <2>6. caps.flags = {f \in Flags : \E x \in D : KeywordAt(x) = <<f>>}
    <3>1. caps.flags \subseteq Flags
      BY <2>1 DEF Tables
    <3>2. \A f \in Flags : f \in caps.flags <=> \E i \in 2..k : Keyword(texts[i]) = <<f>>
      BY <2>3 DEF Shows
    <3>3. \A f \in Flags : (\E i \in 2..k : Keyword(texts[i]) = <<f>>) <=> \E x \in D : KeywordAt(x) = <<f>>
      BY <2>4, <2>5
    <3>. QED  BY <3>1, <3>2, <3>3
  <2>7. caps.has_size <=> \E x \in D : KeywordAt(x) = <<"SIZE">>
    <3>1. caps.has_size <=> \E i \in 2..k : Keyword(texts[i]) = <<"SIZE">>
      BY <2>3 DEF Shows
    <3>. QED  BY <2>4, <2>5, <3>1
  <2>8. caps.has_auth <=> \E x \in D : KeywordAt(x) = <<"AUTH">>
    <3>1. caps.has_auth <=> \E i \in 2..k : Keyword(texts[i]) = <<"AUTH">>
      BY <2>3 DEF Shows
    <3>. QED  BY <2>4, <2>5, <3>1
  <2>9. caps.auth_mechs = UNION {Announcing(Params(CapabilityTexts[x])) :
                                   x \in {y \in D : KeywordAt(y) = <<"AUTH">>}}
    <3>1. \A m : m \in caps.auth_mechs <=>
             \E i \in 2..k : Keyword(texts[i]) = <<"AUTH">> /\ m \in Announcing(Params(texts[i]))
      BY <2>3 DEF Shows
    <3>2. ASSUME NEW m
          PROVE  (\E i \in 2..k : Keyword(texts[i]) = <<"AUTH">> /\ m \in Announcing(Params(texts[i])))
                 <=> \E x \in D : KeywordAt(x) = <<"AUTH">> /\ m \in Announcing(Params(CapabilityTexts[x]))
      BY <2>4, <2>5
    <3>. QED  BY <3>1, <3>2
  <2>10. Len(caps.unknown) <= MaxUnknown
    BY <2>3 DEF Shows
  <2>11. Len(caps.unknown) + caps.unknown_overflow = Cardinality(others)
    <3>. DEFINE U == Unknowns(texts, k)
                f == [i \in U |-> e[i]]
    <3>1. Len(caps.unknown) + caps.unknown_overflow = Cardinality(U)
      BY <2>3 DEF Shows
    <3>2. IsFiniteSet(U)
      <4>1. k \in Int
        OBVIOUS
      <4>2. IsFiniteSet(2..k)
        BY <4>1, FS_Interval
      <4>3. U \in SUBSET (2..k)
        BY DEF Unknowns
      <4>. QED  BY <4>2, <4>3, FS_Subset
    <3>3. \A i : i \in U <=> i \in 2..k /\ e[i] \in others
      BY <2>4, <2>5 DEF Unknowns
    <3>4. \A x \in others : \E i \in 2..k : x = e[i]
      BY <2>4
    <3>5. \A i, j \in 2..k : e[i] = e[j] => i = j
      <4>. SUFFICES ASSUME NEW i \in 2..k, NEW j \in 2..k, e[i] = e[j], i # j PROVE FALSE
        OBVIOUS
      <4>1. i < j \/ j < i
        OBVIOUS
      <4>. QED  BY <2>4, <4>1
    <3>. HIDE DEF U, others
    <3>6. /\ f \in [U -> others] /\ (\A i, j \in U : f[i] = f[j] => i = j)
          /\ \A x \in others : \E i \in U : f[i] = x
      BY <3>3, <3>4, <3>5
    <3>. HIDE DEF f
    <3>7. ExistsBijection(U, others)
      <4>1. f \in Bijection(U, others)
        BY <3>6 DEF Bijection, Injection, Surjection, IsInjective
      <4>. QED  BY <4>1 DEF ExistsBijection
    <3>8. Cardinality(others) = Cardinality(U)
      BY <3>2, <3>7, FS_Bijection
    <3>. QED  BY <3>1, <3>8
  <2>. QED  BY <2>6, <2>7, <2>8, <2>9, <2>10, <2>11 DEF CapsMatchReply, UnknownLines, Announcing, D
<1>. QED  BY FedInit, ToldInit, ToldStep, <1>1, <1>2, PTL DEF Spec

\* CutIsTold: what the table holds of a line it has no field for is that line, and
\* it is marked if, and only if, its fields could not take all of it.
THEOREM CutInvariant == Spec => []CutIsTold
<1>1. Fed /\ [Next]_vars => Fed'
  BY FedStep
<1>2. Fed /\ Told => CutIsTold
  <2>. SUFFICES ASSUME Fed, Told, reply.status = "OK" PROVE CutIsTold
    BY DEF CutIsTold
  <2>. DEFINE D == DOMAIN CapabilityTexts
              texts == reply.texts
  <2>1. PICK k \in 1..MaxLines : \E e : ReadTo(buf, e, k, reply) /\ Shows(caps, texts, k)
    BY ShownTable
  <2>2. PICK e : ReadTo(buf, e, k, reply) /\ Shows(caps, texts, k)
    BY <2>1
  <2>3. /\ \A x : x \in D <=> \E i \in 2..k : x = e[i]
        /\ \A i \in 2..k : CapabilityTexts[e[i]] = texts[i]
        /\ \A i, j \in 2..k : i < j => e[i] < e[j]
    <3>1. buf \in Seq(Byte)
      BY DEF Fed
    <3>. QED  BY <2>2, <3>1, TextsByEnd
  <2>4. \A i \in 2..k : KeywordAt(e[i]) = Keyword(texts[i])
    BY <2>3 DEF KeywordAt
  <2>. HIDE DEF D, texts
  <2>5. ASSUME NEW i \in DOMAIN caps.unknown
        PROVE  \E x \in UnknownLines : Tells(caps.unknown[i], CapabilityTexts[x])
    <3>1. PICK j \in Unknowns(texts, k) : Tells(caps.unknown[i], texts[j])
      BY <2>2 DEF Shows
    <3>2. j \in 2..k /\ e[j] \in D /\ CapabilityTexts[e[j]] = texts[j]
      BY <2>3, <3>1 DEF Unknowns
    <3>3. e[j] \in UnknownLines
      BY <2>4, <3>1, <3>2 DEF UnknownLines, Unknowns, D
    <3>. QED  BY <3>1, <3>2, <3>3
  <2>6. ASSUME NEW x \in D, KeywordAt(x) = <<"AUTH">>,
               \A d \in D : d > x => KeywordAt(d) # <<"AUTH">>
        PROVE  IsCopy(caps.auth_raw, Params(CapabilityTexts[x]), MaxParamLen)
    <3>1. PICK i \in 2..k : x = e[i]
      BY <2>3
    <3>2. Keyword(texts[i]) = <<"AUTH">>
      BY <2>4, <2>6, <3>1
    <3>3. ASSUME NEW j \in (i + 1)..k PROVE Keyword(texts[j]) # <<"AUTH">>
      <4>1. j \in 2..k /\ i < j
        OBVIOUS
      <4>2. e[i] < e[j] /\ e[j] \in D
        BY <2>3, <4>1
      <4>3. e[j] > x
        BY <3>1, <4>2
      <4>. QED  BY <2>4, <2>6, <4>1, <4>2, <4>3
    <3>4. IsCopy(caps.auth_raw, Params(texts[i]), MaxParamLen)
      BY <2>2, <3>2, <3>3 DEF Shows
    <3>. QED  BY <2>3, <3>1, <3>4
  <2>. QED  BY <2>5, <2>6 DEF CutIsTold, D
<1>. QED  BY FedInit, ToldInit, ToldStep, <1>1, <1>2, PTL DEF Spec

\* SizeAsAnnounced: without a SIZE line there is no limit; a number alone that
\* fits is the limit, and one that does not is none; and any limit is, in full, the
\* number that the last SIZE line's parameters begin with.
THEOREM SizeInvariant == Spec => []SizeAsAnnounced
<1>1. Fed /\ [Next]_vars => Fed'
  BY FedStep
<1>2. Fed /\ Told => SizeAsAnnounced
  <2>. SUFFICES ASSUME Fed, Told, reply.status = "OK" PROVE SizeAsAnnounced
    BY DEF SizeAsAnnounced
  <2>. DEFINE D == DOMAIN CapabilityTexts
              texts == reply.texts
              sizes == {x \in D : KeywordAt(x) = <<"SIZE">>}
              announced == Announced(Params(CapabilityTexts[Max(sizes)]))
  <2>1. PICK k \in 1..MaxLines : \E e : /\ ReadTo(buf, e, k, reply) /\ Shows(caps, texts, k)
                                        /\ texts \in Seq(Seq(Byte)) /\ Len(texts) = k
    BY ShownTable
  <2>2. PICK e : /\ ReadTo(buf, e, k, reply) /\ Shows(caps, texts, k)
                 /\ texts \in Seq(Seq(Byte)) /\ Len(texts) = k
    BY <2>1
  <2>3. /\ \A x : x \in D <=> \E i \in 2..k : x = e[i]
        /\ \A i \in 2..k : CapabilityTexts[e[i]] = texts[i] /\ e[i] \in 0..Len(buf)
        /\ \A i, j \in 2..k : i < j => e[i] < e[j]
    <3>1. buf \in Seq(Byte)
      BY DEF Fed
    <3>. QED  BY <2>2, <3>1, TextsByEnd
  <2>4. \A i \in 2..k : KeywordAt(e[i]) = Keyword(texts[i])
    BY <2>3 DEF KeywordAt
  <2>5. Len(buf) \in Nat
    <3>1. buf \in Seq(Byte)
      BY DEF Fed
    <3>. QED  BY <3>1
  <2>. HIDE DEF D, texts
  <2>6. CASE sizes = {}
    <3>1. \A j \in 2..k : Keyword(texts[j]) # <<"SIZE">>
      BY <2>3, <2>4, <2>6
    <3>2. ~caps.size_valid
      BY <2>2, <3>1 DEF Shows
    <3>. QED  BY <2>6, <3>2 DEF SizeAsAnnounced, SizeLines, sizes, D
  <2>7. CASE sizes # {}
    <3>1. sizes \subseteq 0..Len(buf)
      BY <2>3
    <3>. HIDE DEF sizes
    <3>2. Max(sizes) \in sizes /\ \A x \in sizes : x <= Max(sizes)
      BY <2>5, <2>7, <3>1, GreatestNatural
    <3>3. PICK i \in 2..k : Max(sizes) = e[i] /\ Keyword(texts[i]) = <<"SIZE">>
      <4>1. PICK x : x = Max(sizes)
        OBVIOUS
      <4>2. x \in D /\ KeywordAt(x) = <<"SIZE">>
        BY <3>2, <4>1 DEF sizes
      <4>3. PICK i \in 2..k : x = e[i]
        BY <2>3, <4>2
      <4>4. Keyword(texts[i]) = <<"SIZE">>
        BY <2>4, <4>2, <4>3
      <4>. QED  BY <4>1, <4>3, <4>4
    <3>4. ASSUME NEW j \in (i + 1)..k, Keyword(texts[j]) = <<"SIZE">> PROVE FALSE
      <4>1. j \in 2..k /\ i < j
        OBVIOUS
      <4>2. e[i] < e[j] /\ e[i] \in Nat /\ e[j] \in Nat
        BY <2>3, <4>1
      <4>3. e[j] \in sizes
        BY <2>3, <2>4, <3>4, <4>1 DEF sizes
      <4>. QED  BY <3>2, <3>3, <4>2, <4>3
    <3>. DEFINE p == Params(texts[i])
    <3>5. /\ caps.size_valid = SizeParam(p).valid
          /\ caps.size_valid => caps.size_limit = SizeParam(p).value
      BY <2>2, <3>3, <3>4 DEF Shows
    <3>6. p \in Seq(Byte)
      <4>1. PICK t \in Seq(Byte) : t = texts[i]
        BY <2>2
      <4>2. Params(t) \in Seq(Byte)
        BY KeywordIs
      <4>. QED  BY <4>1, <4>2
    <3>7. announced = Announced(p)
      BY <2>3, <2>7, <3>3
    <3>. HIDE DEF p, announced
    <3>8. /\ SizeParam(p).valid <=> \E n \in Announced(p) : n <= SizeMax
          /\ SizeParam(p).valid => SizeParam(p).value \in Announced(p) /\ SizeParam(p).value <= SizeMax
      BY <3>6, SizeParamIs
    <3>9. /\ caps.size_valid <=> \E n \in announced : n <= SizeMax
          /\ caps.size_valid => caps.size_limit \in announced /\ caps.size_limit <= SizeMax
      BY <3>5, <3>7, <3>8
    <3>10. sizes = SizeLines /\ announced = Announced(SizeParams)
      BY DEF SizeLines, SizeParams, announced, sizes, D
    <3>. QED  BY <2>7, <3>9, <3>10 DEF SizeAsAnnounced
  <2>. QED  BY <2>6, <2>7
<1>. QED  BY FedInit, ToldInit, ToldStep, <1>1, <1>2, PTL DEF Spec
=============================================================================
