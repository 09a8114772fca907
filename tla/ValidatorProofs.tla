-------------------------- MODULE ValidatorProofs --------------------------
(***************************************************************************)
(* Each validator accepts exactly the inputs of its grammar, whatever their  *)
(* length and the limits: a body, a header value, an address.  A grammar is  *)
(* read at positions of the input, and while a scan runs, its invariant says  *)
(* what the grammar asks of the input behind it; each failure points at what  *)
(* no reading of the grammar can mend.                                        *)
(***************************************************************************)
EXTENDS BodyValidator, HeaderValidator, AddressValidator,
        FiniteSetTheorems, SequenceTheorems, WellFoundedInduction, TLAPS

-----------------------------------------------------------------------------
(* What the validators share.                                                *)

Breaks == {"CR", "LF"}

\* Behind the scan, CR and LF come in pairs ...
PairedSoFar ==
    \A k \in 1..(scan.i - 1) :
        /\ text[k] = "CR" => k + 1 < scan.i /\ text[k + 1] = "LF"
        /\ text[k] = "LF" => k > 1 /\ text[k - 1] = "CR"

\* ... and there is a break in every run of more than max bytes.
FitsSoFar(max) ==
    \A s \in 1..Len(text) : s + max < scan.i =>
        \E k \in s..(s + max) : text[k] \in Breaks

\* Induction: of the positions that refute a claim, one is the first.
LEMMA LeastNatural ==
    ASSUME NEW T, T \subseteq Nat, T # {}
    PROVE  \E n \in T : \A m \in T : n <= m
<1>. DEFINE R == {p \in Nat \X Nat : p[1] < p[2]}
<1>1. IsWellFoundedOn(R, Nat)
  BY NatLessThanWellFounded DEF OpToRel
<1>2. \A m, n \in Nat : <<m, n>> \in R <=> m < n
  OBVIOUS
<1>3. PICK n \in T : \A m \in T : ~ (<<m, n>> \in R)
  BY <1>1, WFMin
<1>4. \A m \in T : ~ (m < n)
  BY <1>2, <1>3
<1>. QED  BY <1>4

\* What two texts in a row, and a part of a text, are at each position.
LEMMA Concatenated ==
    ASSUME NEW S, NEW a \in Seq(S), NEW b \in Seq(S)
    PROVE  /\ a \o b \in Seq(S) /\ Len(a \o b) = Len(a) + Len(b)
           /\ \A k \in 1..(Len(a) + Len(b)) :
                 (a \o b)[k] = IF k <= Len(a) THEN a[k] ELSE b[k - Len(a)]
  OBVIOUS

LEMMA Slice ==
    ASSUME NEW S, NEW s \in Seq(S), NEW a \in 1..(Len(s) + 1), NEW b \in (a - 1)..Len(s)
    PROVE  /\ SubSeq(s, a, b) \in Seq(S) /\ Len(SubSeq(s, a, b)) = b - a + 1
           /\ \A k \in 1..(b - a + 1) : SubSeq(s, a, b)[k] = s[a + k - 1]
  OBVIOUS

-----------------------------------------------------------------------------
(* Bodies: the scan                                                          *)

BodyErrors == {"BARE_CR", "BARE_LF", "PREMATURE_TERMINATOR", "CONTROL_CHAR",
               "8BIT_NOT_ALLOWED", "LINE_TOO_LONG", "EMPTY"}

\* The local variables: line_len and line_start agree, the line is within the limit.
BodyLocals ==
    /\ text \in Seq(BodyBytes)
    /\ scan \in [of : {"BODY"}, allow_8bit : BOOLEAN, i : Nat, line_start : Nat,
                 line_len : Nat, result : BodyErrors \cup {"NONE", "OK"}]

\* Where the scan is: in a line that began at the start or behind an LF.
BodyPosition ==
    /\ text # <<>>
    /\ scan.i \in 1..(Len(text) + 1) /\ scan.line_start \in 1..scan.i
    /\ scan.line_len = scan.i - scan.line_start
    /\ scan.line_len <= BodyMaxLine
    /\ scan.line_start = 1 \/ text[scan.line_start - 1] = "LF"
    /\ \A k \in scan.line_start..(scan.i - 1) : text[k] \notin Breaks

\* What is behind the scan, besides the line breaks and the lines' lengths.
BodyBytesSoFar ==
    \A k \in 1..(scan.i - 1) :
        /\ text[k] # "CTL"
        /\ text[k] = "8BIT" => scan.allow_8bit

\* A line that is a lone dot, told by the dot.
LoneDot(k) ==
    /\ text[k] = "DOT"
    /\ k = 1 \/ text[k - 1] = "LF"
    /\ k = Len(text) \/ text[k + 1] = "CR"

NoDotSoFar == \A k \in 1..(scan.line_start - 1) : ~LoneDot(k)

WellFormedText == WellFormedBody(text, scan.allow_8bit)

BodyIInv ==
    /\ BodyLocals
    /\ scan.result = "NONE" =>
        BodyPosition /\ PairedSoFar /\ FitsSoFar(BodyMaxLine) /\ BodyBytesSoFar /\ NoDotSoFar
    /\ scan.result = "OK" => WellFormedText
    /\ scan.result \in BodyErrors => ~WellFormedText

-----------------------------------------------------------------------------
(* Bodies: the bytes a step looks at                                         *)

LEMMA BodyLenIsNat == ASSUME BodyLocals PROVE Len(text) \in Nat
  BY DEF BodyLocals

\* A line that ends at the scan is a lone dot if the code says so.
LEMMA BareDotIsLoneDot ==
    ASSUME BodyLocals, BodyPosition, scan.i = Len(text) + 1 \/ text[scan.i] = "CR"
    PROVE  BareDotLine(scan.i) <=> LoneDot(scan.line_start) /\ scan.line_start < scan.i
<1> DEFINE i == scan.i
           l == scan.line_start
<1> HIDE DEF i, l
<1>1. /\ i \in Nat /\ l \in Nat /\ Len(text) \in Nat /\ i <= Len(text) + 1 /\ l <= i /\ 1 <= l
      /\ l = 1 \/ text[l - 1] = "LF"
      /\ \A k \in l..(i - 1) : text[k] \notin Breaks
  BY BodyLenIsNat DEF BodyLocals, BodyPosition, i, l
<1>2. BareDotLine(i) <=> i - l = 1 /\ text[l] = "DOT"
  BY DEF BareDotLine, l
<1>3. ASSUME i - l = 1, text[l] = "DOT" PROVE LoneDot(l) /\ l < i
  <2>1. i = l + 1
    BY <1>1, <1>3
  <2>2. l = Len(text) \/ text[l + 1] = "CR"
    BY <1>1, <2>1 DEF i
  <2> QED
    BY <1>1, <1>3, <2>1, <2>2 DEF LoneDot
<1>4. ASSUME LoneDot(l), l < i PROVE i - l = 1 /\ text[l] = "DOT"
  <2>1. CASE l = Len(text)
    BY <1>1, <1>4, <2>1 DEF LoneDot
  <2>2. CASE text[l + 1] = "CR"
    <3>1. l + 1 \notin l..(i - 1)
      BY <1>1, <2>2 DEF Breaks
    <3> QED
      BY <1>1, <1>4, <3>1 DEF LoneDot
  <2> QED
    BY <1>4, <2>1, <2>2 DEF LoneDot
<1> QED
  BY <1>2, <1>3, <1>4 DEF i, l

-----------------------------------------------------------------------------
(* Bodies: what the steps do                                                 *)

BodySoFar == BodyPosition /\ PairedSoFar /\ FitsSoFar(BodyMaxLine) /\ BodyBytesSoFar /\ NoDotSoFar

\* The start of no later line has been passed.
LEMMA OneLineStart ==
    ASSUME BodyLocals, BodyPosition, NEW k \in scan.line_start..(scan.i - 1), LoneDot(k)
    PROVE  k = scan.line_start
<1>1. k \in Nat /\ scan.line_start \in Nat /\ scan.i \in Nat
  BY DEF BodyLocals
<1>2. CASE k > scan.line_start
  <2>1. k - 1 \in scan.line_start..(scan.i - 1)
    BY <1>1, <1>2
  <2>2. text[k - 1] \notin Breaks
    BY <2>1 DEF BodyPosition
  <2>3. k # 1
    BY <1>1, <1>2 DEF BodyPosition
  <2> QED
    BY <2>2, <2>3 DEF LoneDot, Breaks
<1> QED
  BY <1>1, <1>2

\* A line break moves on to the next line.
LEMMA BodyCrlfMovesOn ==
    ASSUME BodyLocals, BodySoFar, More, Byte = "CR", FollowedByLf, ~BareDotLine(scan.i),
           UNCHANGED text,
           scan' = [scan EXCEPT !.i = @ + 2, !.line_start = scan.i + 2, !.line_len = 0]
    PROVE  BodyLocals' /\ BodySoFar'
<1> USE BodyAssumption
<1>1. BodyLocals'
  <2>1. scan.i \in Nat /\ scan.i + 2 \in Nat
    BY DEF BodyLocals
  <2> QED
    BY <2>1 DEF BodyLocals
<1>2. /\ scan'.i = scan.i + 2 /\ scan'.line_start = scan.i + 2 /\ scan'.line_len = 0
      /\ scan'.allow_8bit = scan.allow_8bit
  BY DEF BodyLocals
<1>3. /\ scan.i \in Nat /\ scan.line_start \in Nat /\ Len(text) \in Nat
      /\ 1 <= scan.line_start /\ scan.line_start <= scan.i /\ scan.i < Len(text)
      /\ text[scan.i] = "CR" /\ text[scan.i + 1] = "LF"
  BY BodyLenIsNat DEF BodyLocals, BodySoFar, BodyPosition, FollowedByLf, Byte
<1>4. BodyPosition'
  BY <1>2, <1>3 DEF BodyPosition, BodySoFar, Breaks
<1>5. PairedSoFar'
  <2> SUFFICES ASSUME NEW k \in 1..(scan.i + 1)
               PROVE  /\ text[k] = "CR" => k + 1 < scan.i + 2 /\ text[k + 1] = "LF"
                      /\ text[k] = "LF" => k > 1 /\ text[k - 1] = "CR"
    BY <1>2, <1>3 DEF PairedSoFar
  <2>1. CASE k \in 1..(scan.i - 1)
    BY <1>3, <2>1 DEF BodySoFar, PairedSoFar
  <2>2. CASE k = scan.i
    BY <1>3, <2>2
  <2>3. CASE k = scan.i + 1
    BY <1>3, <2>3
  <2> QED
    BY <1>3, <2>1, <2>2, <2>3
<1>6. FitsSoFar(BodyMaxLine)'
  <2> SUFFICES ASSUME NEW s \in 1..Len(text), s + BodyMaxLine < scan.i + 2
               PROVE  \E k \in s..(s + BodyMaxLine) : text[k] \in Breaks
    BY <1>2 DEF FitsSoFar
  <2>1. CASE s + BodyMaxLine < scan.i
    BY <2>1 DEF BodySoFar, FitsSoFar
  <2>2. CASE ~(s + BodyMaxLine < scan.i)
    <3>1. scan.i \in s..(s + BodyMaxLine)
      BY <1>3, <2>2
    <3> QED
      BY <1>3, <3>1 DEF Breaks
  <2> QED
    BY <2>1, <2>2
<1>7. BodyBytesSoFar'
  <2> SUFFICES ASSUME NEW k \in 1..(scan.i + 1)
               PROVE  text[k] # "CTL" /\ (text[k] = "8BIT" => scan.allow_8bit)
    BY <1>2, <1>3 DEF BodyBytesSoFar
  <2>1. k \in 1..(scan.i - 1) \/ k = scan.i \/ k = scan.i + 1
    BY <1>3
  <2> QED
    BY <1>3, <2>1 DEF BodySoFar, BodyBytesSoFar
<1>8. NoDotSoFar'
  <2> SUFFICES ASSUME NEW k \in 1..(scan.i + 1), LoneDot(k) PROVE FALSE
    BY <1>2, <1>3 DEF NoDotSoFar, LoneDot
  <2>1. CASE k \in 1..(scan.line_start - 1)
    BY <2>1 DEF BodySoFar, NoDotSoFar
  <2>2. CASE k \in scan.line_start..(scan.i - 1)
    <3>1. k = scan.line_start /\ k < scan.i
      BY <1>3, <2>2, OneLineStart DEF BodySoFar
    <3> QED
      BY <1>3, <3>1, BareDotIsLoneDot DEF BodySoFar
  <2>3. CASE k = scan.i \/ k = scan.i + 1
    BY <1>3, <2>3 DEF LoneDot
  <2> QED
    BY <1>3, <2>1, <2>2, <2>3
<1> QED
  BY <1>1, <1>4, <1>5, <1>6, <1>7, <1>8 DEF BodySoFar

\* Another byte of the line.
LEMMA BodyByteMovesOn ==
    ASSUME BodyLocals, BodySoFar, More, Byte \notin Breaks, Byte # "CTL",
           Byte = "8BIT" => scan.allow_8bit, scan.line_len + 1 <= BodyMaxLine,
           UNCHANGED text, scan' = [scan EXCEPT !.i = @ + 1, !.line_len = @ + 1]
    PROVE  BodyLocals' /\ BodySoFar'
<1> USE BodyAssumption
<1>1. BodyLocals'
  <2>1. scan.i \in Nat /\ scan.i + 1 \in Nat /\ scan.line_len + 1 \in Nat
    BY DEF BodyLocals
  <2> QED
    BY <2>1 DEF BodyLocals
<1>2. /\ scan'.i = scan.i + 1 /\ scan'.line_start = scan.line_start
      /\ scan'.line_len = scan.line_len + 1 /\ scan'.allow_8bit = scan.allow_8bit
  BY DEF BodyLocals
<1>3. /\ scan.i \in Nat /\ scan.line_start \in Nat /\ Len(text) \in Nat
      /\ 1 <= scan.line_start /\ scan.line_start <= scan.i /\ scan.i <= Len(text)
      /\ scan.line_len = scan.i - scan.line_start
      /\ text[scan.i] \notin Breaks
  BY BodyLenIsNat DEF BodyLocals, BodySoFar, BodyPosition, More, Byte
<1>4. BodyPosition'
  <2>1. ASSUME NEW k \in scan.line_start..scan.i PROVE text[k] \notin Breaks
    <3>1. k = scan.i \/ k \in scan.line_start..(scan.i - 1)
      BY <1>3
    <3> QED
      BY <1>3, <3>1 DEF BodySoFar, BodyPosition
  <2> QED
    BY <1>2, <1>3, <2>1 DEF BodyPosition, BodySoFar
<1>5. PairedSoFar'
  <2> SUFFICES ASSUME NEW k \in 1..scan.i
               PROVE  /\ text[k] = "CR" => k + 1 < scan.i + 1 /\ text[k + 1] = "LF"
                      /\ text[k] = "LF" => k > 1 /\ text[k - 1] = "CR"
    BY <1>2, <1>3 DEF PairedSoFar
  <2>1. k \in 1..(scan.i - 1) \/ k = scan.i
    BY <1>3
  <2> QED
    BY <1>3, <2>1 DEF BodySoFar, PairedSoFar, Breaks
<1>6. FitsSoFar(BodyMaxLine)'
  <2> SUFFICES ASSUME NEW s \in 1..Len(text), s + BodyMaxLine < scan.i + 1
               PROVE  \E k \in s..(s + BodyMaxLine) : text[k] \in Breaks
    BY <1>2 DEF FitsSoFar
  <2>1. CASE s + BodyMaxLine < scan.i
    BY <2>1 DEF BodySoFar, FitsSoFar
  <2>2. CASE ~(s + BodyMaxLine < scan.i)
    <3>1. scan.line_start - 1 \in s..(s + BodyMaxLine) /\ scan.line_start # 1
      BY <1>3, <2>2
    <3>2. text[scan.line_start - 1] = "LF"
      BY <3>1 DEF BodySoFar, BodyPosition
    <3> QED
      BY <3>1, <3>2 DEF Breaks
  <2> QED
    BY <2>1, <2>2
<1>7. BodyBytesSoFar'
  <2> SUFFICES ASSUME NEW k \in 1..scan.i
               PROVE  text[k] # "CTL" /\ (text[k] = "8BIT" => scan.allow_8bit)
    BY <1>2, <1>3 DEF BodyBytesSoFar
  <2>1. k \in 1..(scan.i - 1) \/ k = scan.i
    BY <1>3
  <2> QED
    BY <1>3, <2>1 DEF BodySoFar, BodyBytesSoFar, Byte
<1>8. NoDotSoFar'
  BY <1>2 DEF BodySoFar, NoDotSoFar, LoneDot
<1> QED
  BY <1>1, <1>4, <1>5, <1>6, <1>7, <1>8 DEF BodySoFar

\* At the end, what is behind the scan is the whole body.
LEMMA BodyEndIsWellFormed ==
    ASSUME BodyLocals, BodySoFar, ~More, ~BareDotLine(scan.i)
    PROVE  WellFormedText
<1> USE BodyAssumption
<1>1. /\ scan.i = Len(text) + 1 /\ Len(text) \in Nat /\ scan.line_start \in Nat
      /\ 1 <= scan.line_start /\ scan.line_start <= scan.i /\ text # <<>>
  BY BodyLenIsNat DEF BodyLocals, BodySoFar, BodyPosition, More
<1>2. LineBreaksPaired(text)
  BY <1>1 DEF BodySoFar, PairedSoFar, LineBreaksPaired
<1>3. LinesFit(text, BodyMaxLine)
  <2> SUFFICES ASSUME NEW s \in 1..(Len(text) - BodyMaxLine)
               PROVE  \E k \in s..(s + BodyMaxLine) : text[k] \in Breaks
    BY DEF LinesFit, Breaks
  <2>1. s \in 1..Len(text) /\ s + BodyMaxLine < scan.i
    BY <1>1
  <2> QED
    BY <2>1 DEF BodySoFar, FitsSoFar
<1>4. ASSUME NEW k \in 1..Len(text), LoneDot(k) PROVE FALSE
  <2>1. CASE k \in 1..(scan.line_start - 1)
    BY <1>4, <2>1 DEF BodySoFar, NoDotSoFar
  <2>2. CASE k \in scan.line_start..(scan.i - 1)
    <3>1. k = scan.line_start /\ k < scan.i
      BY <1>1, <1>4, <2>2, OneLineStart DEF BodySoFar
    <3> QED
      BY <1>1, <1>4, <3>1, BareDotIsLoneDot DEF BodySoFar
  <2> QED
    BY <1>1, <2>1, <2>2
<1>5. ASSUME NEW k \in 1..Len(text)
      PROVE  text[k] # "CTL" /\ (text[k] = "8BIT" => scan.allow_8bit)
  BY <1>1 DEF BodySoFar, BodyBytesSoFar
<1> QED
  BY <1>1, <1>2, <1>3, <1>4, <1>5 DEF WellFormedText, WellFormedBody, LoneDot

-----------------------------------------------------------------------------
(* Bodies: the failures                                                      *)

LEMMA BreakUnpaired ==
    ASSUME BodyLocals, BodySoFar, More, Byte = "LF" \/ (Byte = "CR" /\ ~FollowedByLf)
    PROVE  ~WellFormedText
<1>1. scan.i \in Nat /\ Len(text) \in Nat /\ scan.i \in 1..Len(text)
  BY BodyLenIsNat DEF BodyLocals, BodySoFar, BodyPosition, More
<1>2. CASE Byte = "CR" /\ ~FollowedByLf
  BY <1>1, <1>2 DEF Byte, FollowedByLf, WellFormedText, WellFormedBody, LineBreaksPaired
<1>3. CASE Byte = "LF"
  <2>1. ~(scan.i > 1 /\ text[scan.i - 1] = "CR")
    <3> SUFFICES ASSUME scan.i > 1, text[scan.i - 1] = "CR" PROVE FALSE
      OBVIOUS
    <3>1. scan.i - 1 \in 1..(scan.i - 1) /\ ~(scan.i - 1 + 1 < scan.i)
      BY <1>1
    <3> QED
      BY <3>1 DEF BodySoFar, PairedSoFar
  <2> QED
    BY <1>1, <1>3, <2>1 DEF Byte, WellFormedText, WellFormedBody, LineBreaksPaired
<1> QED
  BY <1>2, <1>3

LEMMA DotAlone ==
    ASSUME BodyLocals, BodySoFar, ~More \/ Byte = "CR", BareDotLine(scan.i)
    PROVE  ~WellFormedText
<1>1. scan.i \in 1..(Len(text) + 1) /\ Len(text) \in Nat /\ scan.line_start \in 1..scan.i
  BY BodyLenIsNat DEF BodySoFar, BodyPosition
<1>2. scan.i = Len(text) + 1 \/ text[scan.i] = "CR"
  BY <1>1 DEF More, Byte
<1>3. LoneDot(scan.line_start) /\ scan.line_start < scan.i
  BY <1>2, BareDotIsLoneDot DEF BodySoFar
<1>4. scan.line_start \in 1..Len(text)
  BY <1>1, <1>3
<1> QED
  BY <1>3, <1>4 DEF LoneDot, WellFormedText, WellFormedBody

LEMMA BodyByteRefused ==
    ASSUME BodyLocals, BodySoFar, More, Byte = "CTL" \/ (Byte = "8BIT" /\ ~scan.allow_8bit)
    PROVE  ~WellFormedText
<1>1. scan.i \in 1..Len(text)
  BY BodyLenIsNat DEF BodySoFar, BodyPosition, More
<1> QED
  BY <1>1 DEF Byte, WellFormedText, WellFormedBody

LEMMA BodyTooLong ==
    ASSUME BodyLocals, BodySoFar, More, Byte \notin Breaks, scan.line_len + 1 > BodyMaxLine
    PROVE  ~WellFormedText
<1> USE BodyAssumption
<1>1. /\ scan.i \in 1..Len(text) /\ Len(text) \in Nat /\ scan.line_start \in 1..scan.i
      /\ scan.i = scan.line_start + BodyMaxLine
  BY BodyLenIsNat DEF BodyLocals, BodySoFar, BodyPosition, More
<1>2. ASSUME NEW k \in scan.line_start..(scan.line_start + BodyMaxLine)
      PROVE  text[k] \notin Breaks
  <2>1. k = scan.i \/ k \in scan.line_start..(scan.i - 1)
    BY <1>1
  <2> QED
    BY <2>1 DEF Byte, BodySoFar, BodyPosition
<1>3. scan.line_start \in 1..(Len(text) - BodyMaxLine)
  BY <1>1
<1> QED
  BY <1>2, <1>3 DEF WellFormedText, WellFormedBody, LinesFit, Breaks

-----------------------------------------------------------------------------
(* Bodies: the theorem                                                       *)

\* A step that ends the scan changes the result only.
LEMMA BodyEnded ==
    ASSUME BodyLocals, UNCHANGED text, NEW err \in BodyErrors \cup {"OK"},
           scan'.result = err, scan'.allow_8bit = scan.allow_8bit, BodyLocals',
           WellFormedText <=> err = "OK"
    PROVE  BodyIInv'
<1>1. WellFormedText' <=> err = "OK"
  BY DEF WellFormedText
<1>2. err # "NONE" /\ (err \in BodyErrors <=> err # "OK")
  BY DEF BodyErrors
<1> QED
  BY <1>1, <1>2 DEF BodyIInv

LEMMA BodyFailedIs ==
    ASSUME BodyLocals, UNCHANGED text, NEW err \in BodyErrors \cup {"OK"}, scan' = Fail(err),
           WellFormedText <=> err = "OK"
    PROVE  BodyIInv'
<1>1. BodyLocals' /\ scan'.result = err /\ scan'.allow_8bit = scan.allow_8bit
  BY DEF BodyLocals, Fail
<1> QED
  BY <1>1, BodyEnded

LEMMA BodyMovedOn ==
    ASSUME BodyLocals', BodySoFar', scan'.result = "NONE" PROVE BodyIInv'
  BY DEF BodyIInv, BodySoFar, BodyErrors

LEMMA BodyInductive == BodyIInv /\ [BodyNext]_scanVars => BodyIInv'
<1> SUFFICES ASSUME BodyIInv, [BodyNext]_scanVars PROVE BodyIInv'
  OBVIOUS
<1>1. CASE UNCHANGED scanVars
  BY <1>1 DEF scanVars, BodyIInv, BodyLocals, BodyPosition, PairedSoFar, FitsSoFar,
              BodyBytesSoFar, NoDotSoFar,
              LoneDot, WellFormedText
<1>2. CASE BodyNext
  <2>1. BodyLocals /\ BodySoFar /\ UNCHANGED text /\ scan.result = "NONE"
    BY <1>2 DEF BodyNext, Running, BodyIInv, BodySoFar
  <2>2. CASE More /\ BodyCrlf
    <3>1. Byte = "CR"
      BY <2>2 DEF BodyCrlf
    <3>2. CASE ~FollowedByLf /\ scan' = Fail("BARE_CR")
      BY <2>1, <2>2, <3>1, <3>2, BreakUnpaired, BodyFailedIs DEF BodyErrors
    <3>3. CASE BareDotLine(scan.i) /\ scan' = Fail("PREMATURE_TERMINATOR")
      BY <2>1, <2>2, <3>1, <3>3, DotAlone, BodyFailedIs DEF BodyErrors
    <3>4. CASE /\ FollowedByLf /\ ~BareDotLine(scan.i)
               /\ scan' = [scan EXCEPT !.i = @ + 2, !.line_start = scan.i + 2, !.line_len = 0]
      <4>1. BodyLocals' /\ BodySoFar'
        BY <2>1, <2>2, <3>1, <3>4, BodyCrlfMovesOn
      <4>2. scan'.result = "NONE"
        BY <2>1, <3>4 DEF BodyLocals
      <4> QED
        BY <4>1, <4>2, BodyMovedOn
    <3> QED
      BY <2>2, <3>2, <3>3, <3>4 DEF BodyCrlf
  <2>3. CASE More /\ BodyLf
    <3>1. Byte = "LF" /\ scan' = Fail("BARE_LF")
      BY <2>3, Zenon DEF BodyLf
    <3>2. ~WellFormedText
      <4>1. BodyLocals /\ BodySoFar /\ More
        BY <2>1, <2>3
      <4>2. Byte = "LF" \/ (Byte = "CR" /\ ~FollowedByLf)
        BY <3>1
      <4> QED
        BY <4>1, <4>2, BreakUnpaired
    <3> QED
      BY <2>1, <3>1, <3>2, BodyFailedIs DEF BodyErrors
  <2>4. CASE More /\ BodyByte
    <3>1. Byte \notin Breaks
      BY <2>4 DEF BodyByte, Breaks
    <3>2. CASE Byte = "CTL"
      <4>1. scan' = Fail("CONTROL_CHAR")
        BY <2>4, <3>2 DEF BodyByte
      <4>2. ~WellFormedText
        <5>1. BodyLocals /\ BodySoFar /\ More
          BY <2>1, <2>4
        <5>2. Byte = "CTL" \/ (Byte = "8BIT" /\ ~scan.allow_8bit)
          BY <3>2
        <5> QED
          BY <5>1, <5>2, BodyByteRefused
      <4> QED
        BY <2>1, <4>1, <4>2, BodyFailedIs DEF BodyErrors
    <3>3. CASE Byte # "CTL" /\ Byte = "8BIT" /\ ~scan.allow_8bit
      <4>1. scan' = Fail("8BIT_NOT_ALLOWED")
        BY <2>4, <3>3 DEF BodyByte
      <4> QED
        BY <2>1, <2>4, <3>3, <4>1, BodyByteRefused, BodyFailedIs DEF BodyErrors
    <3>4. CASE Byte # "CTL" /\ ~(Byte = "8BIT" /\ ~scan.allow_8bit)
      <4>1. scan' = [scan EXCEPT !.i = @ + 1, !.line_len = @ + 1,
                          !.result = IF scan.line_len + 1 > BodyMaxLine THEN "LINE_TOO_LONG"
                                     ELSE @]
        BY <2>4, <3>4, Zenon DEF BodyByte
      <4>2. CASE scan.line_len + 1 > BodyMaxLine
        <5>1. ~WellFormedText
          BY <2>1, <2>4, <3>1, <4>2, BodyTooLong
        <5>2. scan.i + 1 \in Nat /\ scan.line_len + 1 \in Nat
          BY <2>1 DEF BodyLocals
        <5>3. BodyLocals' /\ scan'.result = "LINE_TOO_LONG" /\ scan'.allow_8bit = scan.allow_8bit
          BY <2>1, <4>1, <4>2, <5>2 DEF BodyLocals, BodyErrors
        <5> QED
          BY <2>1, <5>1, <5>3, BodyEnded DEF BodyErrors
      <4>3. CASE ~(scan.line_len + 1 > BodyMaxLine)
        <5>1. scan.line_len + 1 <= BodyMaxLine
          BY <2>1, <4>3, BodyAssumption DEF BodyLocals
        <5>2. scan' = [scan EXCEPT !.i = @ + 1, !.line_len = @ + 1]
          BY <2>1, <4>1, <4>3 DEF BodyLocals
        <5>3. BodyLocals' /\ BodySoFar'
          BY <2>1, <2>4, <3>1, <3>4, <5>1, <5>2, BodyByteMovesOn
        <5>4. scan'.result = "NONE"
          BY <2>1, <5>2 DEF BodyLocals
        <5> QED
          BY <5>3, <5>4, BodyMovedOn
      <4> QED
        BY <4>2, <4>3
    <3> QED
      BY <3>2, <3>3, <3>4
  <2>5. CASE BodyEnd
    <3>1. CASE BareDotLine(scan.i)
      <4>1. ~More /\ scan' = Fail("PREMATURE_TERMINATOR")
        BY <2>5, <3>1 DEF BodyEnd
      <4> QED
        BY <2>1, <3>1, <4>1, DotAlone, BodyFailedIs DEF BodyErrors
    <3>2. CASE ~BareDotLine(scan.i)
      <4>1. ~More /\ scan' = Fail("OK")
        BY <2>5, <3>2 DEF BodyEnd
      <4> QED
        BY <2>1, <3>2, <4>1, BodyEndIsWellFormed, BodyFailedIs DEF BodyErrors
    <3> QED
      BY <3>1, <3>2
  <2> QED
    BY <1>2, <2>2, <2>3, <2>4, <2>5 DEF BodyNext
<1> QED
  BY <1>1, <1>2

LEMMA BodyInitial == BodyInit => BodyIInv
<1> SUFFICES ASSUME BodyInit PROVE BodyIInv
  OBVIOUS
<1>1. text \in Seq(BodyBytes)
  BY BodyAssumption DEF BodyInit
<1>2. PICK allow_8bit \in BOOLEAN :
        scan = [of |-> "BODY", allow_8bit |-> allow_8bit, i |-> 1, line_start |-> 1,
                line_len |-> 0, result |-> IF text = <<>> THEN "EMPTY" ELSE "NONE"]
  BY Zenon DEF BodyInit
<1>3. BodyLocals
  BY <1>1, <1>2 DEF BodyLocals, BodyErrors
<1>4. CASE text = <<>>
  <2>1. scan.result = "EMPTY" /\ ~WellFormedText
    BY <1>2, <1>4 DEF WellFormedText, WellFormedBody
  <2> QED
    BY <1>3, <2>1 DEF BodyIInv, BodyErrors
<1>5. CASE text # <<>>
  <2>1. scan.result = "NONE" /\ scan.i = 1 /\ scan.line_start = 1 /\ scan.line_len = 0
    BY <1>2, <1>5
  <2>2. Len(text) \in Nat
    BY <1>3, BodyLenIsNat
  <2>3. BodyPosition
    BY <1>5, <2>1, <2>2, BodyAssumption DEF BodyPosition
  <2>4. PairedSoFar /\ BodyBytesSoFar /\ NoDotSoFar
    BY <2>1 DEF PairedSoFar, BodyBytesSoFar, NoDotSoFar
  <2>5. FitsSoFar(BodyMaxLine)
    BY <2>1, BodyAssumption DEF FitsSoFar
  <2> QED
    BY <1>3, <2>1, <2>3, <2>4, <2>5 DEF BodyIInv, BodyErrors
<1> QED
  BY <1>4, <1>5

\* For inputs of any length, any line limit and either setting of allow_8bit, the
\* validator ends with OK exactly on the bodies smtp_body_validator.h describes:
\* CR and LF in pairs, no line that is a lone dot, no line over the limit, no
\* control byte, and 8-bit bytes where they are allowed.
THEOREM BodyCorrect == BodySpec => []BodyMatchesGrammar
<1>1. BodyIInv => BodyMatchesGrammar
  <2> SUFFICES ASSUME BodyIInv, ~Running
               PROVE  scan.result = "OK" <=> WellFormedText
    BY DEF BodyMatchesGrammar, WellFormedText
  <2>1. scan.result = "OK" \/ scan.result \in BodyErrors
    BY DEF BodyIInv, BodyLocals, Running
  <2> QED
    BY <2>1 DEF BodyIInv, BodyErrors
<1> QED
  BY <1>1, BodyInitial, BodyInductive, PTL DEF BodySpec

-----------------------------------------------------------------------------
(* Header values: the words.                                                 *)

\* What First() chooses.
IsFirst(bytes, from, stop, k) ==
    /\ k \in from..(Len(bytes) + 1)
    /\ k = Len(bytes) + 1 \/ bytes[k] \in stop
    /\ \A j \in from..(k - 1) : bytes[j] \notin stop

LEMMA OnlyFirst ==
    ASSUME NEW bytes, Len(bytes) \in Nat, NEW from \in Nat, NEW stop, NEW k, NEW m,
           IsFirst(bytes, from, stop, k), IsFirst(bytes, from, stop, m)
    PROVE  k = m
<1>1. k \in from..(Len(bytes) + 1) /\ m \in from..(Len(bytes) + 1)
  BY DEF IsFirst
<1>2. ASSUME k < m PROVE FALSE
  <2>1. k \in from..(m - 1) /\ k # Len(bytes) + 1
    BY <1>1, <1>2
  <2>. QED  BY <2>1 DEF IsFirst
<1>3. ASSUME m < k PROVE FALSE
  <2>1. m \in from..(k - 1) /\ m # Len(bytes) + 1
    BY <1>1, <1>3
  <2>. QED  BY <2>1 DEF IsFirst
<1>. QED  BY <1>1, <1>2, <1>3

LEMMA FirstIsFirst ==
    ASSUME NEW bytes, Len(bytes) \in Nat, NEW from \in Nat, from <= Len(bytes) + 1, NEW stop
    PROVE  IsFirst(bytes, from, stop, First(bytes, from, stop))
<1>. DEFINE T == {k \in from..(Len(bytes) + 1) : k = Len(bytes) + 1 \/ bytes[k] \in stop}
<1>1. T \subseteq Nat /\ Len(bytes) + 1 \in T
  OBVIOUS
<1>2. PICK k \in T : \A m \in T : k <= m
  BY <1>1, LeastNatural
<1>3. ASSUME NEW j \in from..(k - 1) PROVE bytes[j] \notin stop
  <2>1. j \in from..(Len(bytes) + 1) /\ ~ (k <= j)
    BY <1>2
  <2>. QED  BY <1>2, <2>1
<1>4. IsFirst(bytes, from, stop, k)
  BY <1>2, <1>3 DEF IsFirst
<1>. QED  BY <1>4 DEF First, IsFirst

\* It is the one with that property.
LEMMA FirstIs ==
    ASSUME NEW bytes, Len(bytes) \in Nat, NEW from \in Nat, NEW stop, NEW k,
           IsFirst(bytes, from, stop, k)
    PROVE  First(bytes, from, stop) = k
<1>1. from <= Len(bytes) + 1
  BY DEF IsFirst
<1>. QED  BY <1>1, FirstIsFirst, OnlyFirst

\* Where the candidate that starts at s ends.
LEMMA CandidateIsShaped ==
    ASSUME Len(text) \in Nat, NEW s \in 1..Len(text), text[s] = "=", Delimiter(text, s + 1)
    PROVE  /\ CandidateEnd(s) # 0 =>
                CandidateEnd(s) \in (s + 6)..Len(text) /\ Shaped(text, s, CandidateEnd(s))
           /\ \A e \in 1..Len(text) : Shaped(text, s, e) => CandidateEnd(s) = e
<1>. DEFINE c == First(text, s + 2, {"?", "CR"})
            d == First(text, c + 3, {"?", "CR"})
<1>1. s + 1 \in 1..Len(text) /\ text[s + 1] = "?"
  BY DEF Delimiter
<1>2. IsFirst(text, s + 2, {"?", "CR"}, c)
  BY <1>1, FirstIsFirst
<1>. HIDE DEF c
<1>3. c \in (s + 2)..(Len(text) + 1) /\ \A j \in (s + 2)..(c - 1) : text[j] \notin {"?", "CR"}
  BY <1>2 DEF IsFirst
<1>4. CandidateEnd(s) = IF /\ Delimiter(text, c) /\ Delimiter(text, c + 2)
                           /\ Delimiter(text, d)
                           /\ d < Len(text) /\ text[d + 1] = "="
                        THEN d + 1 ELSE 0
  BY DEF CandidateEnd, c
<1>. HIDE DEF d
<1>5. ASSUME Delimiter(text, c + 2)
      PROVE  /\ d \in (c + 3)..(Len(text) + 1)
             /\ \A j \in (c + 3)..(d - 1) : text[j] \notin {"?", "CR"}
  <2>1. c + 3 \in Nat /\ c + 3 <= Len(text) + 1
    BY <1>3, <1>5 DEF Delimiter
  <2>2. IsFirst(text, c + 3, {"?", "CR"}, d)
    BY <2>1, FirstIsFirst DEF d
  <2>. QED  BY <2>2 DEF IsFirst
<1>6. ASSUME CandidateEnd(s) # 0
      PROVE  CandidateEnd(s) \in (s + 6)..Len(text) /\ Shaped(text, s, CandidateEnd(s))
  <2>1. /\ Delimiter(text, c) /\ Delimiter(text, c + 2) /\ Delimiter(text, d)
        /\ d < Len(text) /\ text[d + 1] = "=" /\ CandidateEnd(s) = d + 1
    BY <1>4, <1>6
  <2>2. /\ d \in (c + 3)..Len(text) /\ \A j \in (c + 3)..(d - 1) : text[j] \notin {"?", "CR"}
    BY <1>5, <2>1
  <2>3. text[c] = "?" /\ text[c + 2] = "?" /\ text[d] = "?"
    BY <2>1 DEF Delimiter
  <2>4. /\ c \in s..(d + 1) /\ d \in s..(d + 1) /\ c >= s + 2 /\ d >= c + 3
        /\ d + 1 \in (s + 6)..Len(text)
    BY <1>3, <2>1, <2>2
  <2>5. \A k \in ((s + 2)..(d - 1)) \ {c, c + 1, c + 2} : text[k] \notin {"?", "CR"}
    <3>1. \A k \in ((s + 2)..(d - 1)) \ {c, c + 1, c + 2} :
             k \in (s + 2)..(c - 1) \/ k \in (c + 3)..(d - 1)
      BY <1>3, <2>2
    <3>. QED  BY <1>3, <2>2, <3>1
  <2>. QED  BY <1>1, <2>1, <2>3, <2>4, <2>5 DEF Shaped
<1>7. ASSUME NEW e \in 1..Len(text), Shaped(text, s, e)
      PROVE  CandidateEnd(s) = e
  <2>1. PICK x \in s..e, y \in s..e :
            /\ x >= s + 2 /\ y >= x + 3 /\ e = y + 1
            /\ text[x] = "?" /\ text[x + 2] = "?" /\ text[y] = "?" /\ text[e] = "="
            /\ \A k \in ((s + 2)..(y - 1)) \ {x, x + 1, x + 2} : text[k] \notin {"?", "CR"}
    BY <1>7 DEF Shaped
  <2>2. x = c
    <3>1. \A j \in (s + 2)..(x - 1) : j \in ((s + 2)..(y - 1)) \ {x, x + 1, x + 2}
      BY <2>1
    <3>2. IsFirst(text, s + 2, {"?", "CR"}, x)
      BY <2>1, <3>1 DEF IsFirst
    <3>. QED  BY <1>2, <3>2, OnlyFirst
  <2>3. y = d
    <3>1. \A j \in (x + 3)..(y - 1) : j \in ((s + 2)..(y - 1)) \ {x, x + 1, x + 2}
      BY <2>1
    <3>2. IsFirst(text, x + 3, {"?", "CR"}, y) /\ x + 3 \in Nat
      BY <2>1, <3>1 DEF IsFirst
    <3>. QED  BY <2>2, <3>2, FirstIs DEF d
  <2>4. Delimiter(text, c) /\ Delimiter(text, c + 2) /\ Delimiter(text, d)
    BY <2>1, <2>2, <2>3 DEF Delimiter
  <2>. QED  BY <1>4, <2>1, <2>2, <2>3, <2>4
<1>. QED  BY <1>6, <1>7

\* The delimiters of an encoded word whose charset takes c bytes.
WordAt(w, c) ==
    /\ c \in 1..(Len(w) - 8)
    /\ w[1] = "=" /\ w[2] = "?" /\ w[c + 3] = "?" /\ w[c + 5] = "?"
    /\ w[Len(w) - 1] = "?" /\ w[Len(w)] = "="

LEMMA WordIsItsParts ==
    ASSUME NEW w \in Seq(HeaderBytes), NEW c \in 1..(Len(w) - 8)
    PROVE  w = <<"=", "?">> \o SubSeq(w, 3, c + 2) \o <<"?", w[c + 4], "?">>
                    \o SubSeq(w, c + 6, Len(w) - 2) \o <<"?", "=">>
             <=> WordAt(w, c)
<1>. DEFINE n == Len(w)
            s1 == <<"=", "?">>
            s2 == SubSeq(w, 3, c + 2)
            s3 == <<"?", w[c + 4], "?">>
            s4 == SubSeq(w, c + 6, n - 2)
            s5 == <<"?", "=">>
            u == s1 \o s2 \o s3 \o s4 \o s5
<1>1. n \in Nat /\ c \in Nat /\ c >= 1 /\ c <= n - 8 /\ \A k \in 1..n : w[k] \in HeaderBytes
  OBVIOUS
<1>2. s1 \in Seq(HeaderBytes) /\ Len(s1) = 2 /\ s1[1] = "=" /\ s1[2] = "?"
  BY DEF HeaderBytes
<1>3. s2 \in Seq(HeaderBytes) /\ Len(s2) = c /\ \A k \in 1..c : s2[k] = w[k + 2]
  BY <1>1
<1>4. s3 \in Seq(HeaderBytes) /\ Len(s3) = 3 /\ s3[1] = "?" /\ s3[2] = w[c + 4] /\ s3[3] = "?"
  <2>1. w[c + 4] \in HeaderBytes /\ "?" \in HeaderBytes
    BY <1>1 DEF HeaderBytes
  <2>. QED  BY <2>1
<1>5. /\ s4 \in Seq(HeaderBytes) /\ Len(s4) = n - 7 - c
      /\ \A k \in 1..(n - 7 - c) : s4[k] = w[k + c + 5]
  BY <1>1
<1>6. s5 \in Seq(HeaderBytes) /\ Len(s5) = 2 /\ s5[1] = "?" /\ s5[2] = "="
  BY DEF HeaderBytes
<1>. HIDE DEF s1, s2, s3, s4, s5, n
<1>7. /\ u \in Seq(HeaderBytes) /\ Len(u) = n
      /\ \A k \in 1..n : u[k] =
            IF k <= 2 THEN s1[k] ELSE IF k <= c + 2 THEN s2[k - 2]
            ELSE IF k <= c + 5 THEN s3[k - (c + 2)] ELSE IF k <= n - 2 THEN s4[k - (c + 5)]
            ELSE s5[k - (n - 2)]
  <2>. DEFINE u2 == s1 \o s2
              u3 == u2 \o s3
              u4 == u3 \o s4
  <2>1. /\ u2 \in Seq(HeaderBytes) /\ Len(u2) = c + 2
        /\ \A k \in 1..(c + 2) : u2[k] = IF k <= 2 THEN s1[k] ELSE s2[k - 2]
    <3>1. /\ u2 \in Seq(HeaderBytes) /\ Len(u2) = Len(s1) + Len(s2)
          /\ \A k \in 1..(Len(s1) + Len(s2)) :
                u2[k] = IF k <= Len(s1) THEN s1[k] ELSE s2[k - Len(s1)]
      <4>1. s1 \in Seq(HeaderBytes) /\ s2 \in Seq(HeaderBytes)
        BY <1>2, <1>3
      <4>. QED  BY <4>1, Concatenated
    <3>2. Len(s1) + Len(s2) = c + 2
      BY <1>1, <1>2, <1>3
    <3>. QED  BY <1>2, <3>1, <3>2
  <2>. HIDE DEF u2
  <2>2. /\ u3 \in Seq(HeaderBytes) /\ Len(u3) = c + 5
        /\ \A k \in 1..(c + 5) : u3[k] = IF k <= c + 2 THEN u2[k] ELSE s3[k - (c + 2)]
    <3>1. /\ u3 \in Seq(HeaderBytes) /\ Len(u3) = Len(u2) + Len(s3)
          /\ \A k \in 1..(Len(u2) + Len(s3)) :
                u3[k] = IF k <= Len(u2) THEN u2[k] ELSE s3[k - Len(u2)]
      BY <1>4, <2>1, Concatenated
    <3>2. Len(u2) + Len(s3) = c + 5
      BY <1>1, <1>4, <2>1
    <3>. QED  BY <2>1, <3>1, <3>2
  <2>. HIDE DEF u3
  <2>3. /\ u4 \in Seq(HeaderBytes) /\ Len(u4) = n - 2
        /\ \A k \in 1..(n - 2) : u4[k] = IF k <= c + 5 THEN u3[k] ELSE s4[k - (c + 5)]
    <3>1. /\ u4 \in Seq(HeaderBytes) /\ Len(u4) = Len(u3) + Len(s4)
          /\ \A k \in 1..(Len(u3) + Len(s4)) :
                u4[k] = IF k <= Len(u3) THEN u3[k] ELSE s4[k - Len(u3)]
      BY <1>5, <2>2, Concatenated
    <3>2. Len(u3) + Len(s4) = n - 2
      BY <1>1, <1>5, <2>2
    <3>. QED  BY <2>2, <3>1, <3>2
  <2>. HIDE DEF u4
  <2>4. /\ u4 \o s5 \in Seq(HeaderBytes) /\ Len(u4 \o s5) = n
        /\ \A k \in 1..n : (u4 \o s5)[k] = IF k <= n - 2 THEN u4[k] ELSE s5[k - (n - 2)]
    <3>1. /\ u4 \o s5 \in Seq(HeaderBytes) /\ Len(u4 \o s5) = Len(u4) + Len(s5)
          /\ \A k \in 1..(Len(u4) + Len(s5)) :
                (u4 \o s5)[k] = IF k <= Len(u4) THEN u4[k] ELSE s5[k - Len(u4)]
      BY <1>6, <2>3, Concatenated
    <3>2. Len(u4) + Len(s5) = n
      BY <1>1, <1>6, <2>3
    <3>. QED  BY <2>3, <3>1, <3>2
  <2>5. u = u4 \o s5
    BY DEF u2, u3, u4
  <2>. HIDE DEF u, u4
  <2>6. ASSUME NEW k \in 1..n
        PROVE  u[k] = IF k <= 2 THEN s1[k] ELSE IF k <= c + 2 THEN s2[k - 2]
            ELSE IF k <= c + 5 THEN s3[k - (c + 2)] ELSE IF k <= n - 2 THEN s4[k - (c + 5)]
            ELSE s5[k - (n - 2)]
    <3>1. u[k] = IF k <= n - 2 THEN u4[k] ELSE s5[k - (n - 2)]
      BY <2>4, <2>5
    <3>2. k <= n - 2 => u4[k] = IF k <= c + 5 THEN u3[k] ELSE s4[k - (c + 5)]
      BY <1>1, <2>3
    <3>3. k <= c + 5 => u3[k] = IF k <= c + 2 THEN u2[k] ELSE s3[k - (c + 2)]
      BY <1>1, <2>2
    <3>4. k <= c + 2 => u2[k] = IF k <= 2 THEN s1[k] ELSE s2[k - 2]
      BY <1>1, <2>1
    <3>. QED  BY <1>1, <3>1, <3>2, <3>3, <3>4
  <2>. QED  BY <2>4, <2>5, <2>6
<1>. HIDE DEF u
<1>8. w = u <=> \A k \in 1..n : w[k] = u[k]
  BY <1>7, SeqEqual DEF n
<1>9. ASSUME \A k \in 1..n : w[k] = u[k] PROVE WordAt(w, c)
  <2>1. \A k \in {1, 2, c + 3, c + 5, n - 1, n} : k \in 1..n
    BY <1>1
  <2>2. u[1] = "=" /\ u[2] = "?" /\ u[c + 3] = "?" /\ u[c + 5] = "?" /\ u[n - 1] = "?" /\ u[n] = "="
    BY <1>1, <1>2, <1>4, <1>6, <1>7
  <2>3. w[1] = u[1] /\ w[2] = u[2] /\ w[c + 3] = u[c + 3] /\ w[c + 5] = u[c + 5]
        /\ w[n - 1] = u[n - 1] /\ w[n] = u[n]
    BY <1>9, <2>1
  <2>. QED  BY <2>2, <2>3 DEF WordAt, n
<1>10. ASSUME WordAt(w, c), NEW k \in 1..n PROVE w[k] = u[k]
  <2>1. /\ w[1] = "=" /\ w[2] = "?" /\ w[c + 3] = "?" /\ w[c + 5] = "?"
        /\ w[n - 1] = "?" /\ w[n] = "="
    BY <1>10 DEF WordAt, n
  <2>2. CASE k <= 2
    BY <1>1, <1>2, <1>7, <2>1, <2>2
  <2>3. CASE k \in 3..(c + 2)
    BY <1>1, <1>3, <1>7, <2>3
  <2>4. CASE k \in (c + 3)..(c + 5)
    <3>1. k = c + 3 \/ k = c + 4 \/ k = c + 5
      BY <1>1, <2>4
    <3>. QED  BY <1>1, <1>4, <1>7, <2>1, <3>1
  <2>5. CASE k \in (c + 6)..(n - 2)
    <3>1. /\ k - (c + 5) \in 1..(n - 7 - c) /\ (k - (c + 5)) + c + 5 = k
          /\ ~(k <= 2) /\ ~(k <= c + 2) /\ ~(k <= c + 5) /\ k <= n - 2
      BY <1>1, <2>5
    <3>2. s4[k - (c + 5)] = w[k]
      BY <1>5, <3>1
    <3>. QED  BY <1>7, <3>1, <3>2
  <2>6. CASE k \in (n - 1)..n
    <3>1. /\ (k = n - 1 /\ k - (n - 2) = 1) \/ (k = n /\ k - (n - 2) = 2)
          /\ ~(k <= 2) /\ ~(k <= c + 2) /\ ~(k <= c + 5) /\ ~(k <= n - 2)
      BY <1>1, <2>6
    <3>2. u[k] = s5[k - (n - 2)]
      BY <1>7, <3>1
    <3>. QED  BY <1>6, <2>1, <3>1, <3>2
  <2>. QED  BY <1>1, <2>2, <2>3, <2>4, <2>5, <2>6
<1>. QED  BY <1>8, <1>9, <1>10 DEF u, n, s1, s2, s3, s4, s5

\* The two texts, as the code checks them and as RFC 2047 has them.
LEMMA BTextIs ==
    ASSUME NEW t \in Seq(HeaderBytes), t # <<>>
    PROVE  LET pads == {k \in 1..Len(t) : t[k] = "="} IN
           BText(t) <=> /\ SeqOver(t, Base64 \cup {"="}) /\ Len(t) % 4 = 0
                        /\ pads \in {{}, {Len(t)}, {Len(t) - 1, Len(t)}}
<1>. DEFINE n == Len(t)
            pads == {k \in 1..n : t[k] = "="}
            pad == First(t, 1, {"="})
            whole == n % 4 = 0
<1>1. n \in Nat /\ n >= 1
  OBVIOUS
<1>. HIDE DEF n
<1>2. /\ pad \in 1..(n + 1) /\ (pad = n + 1 \/ t[pad] = "=")
      /\ \A j \in 1..(pad - 1) : t[j] # "="
  <2>1. IsFirst(t, 1, {"="}, pad)
    BY <1>1, FirstIsFirst DEF n
  <2>. QED  BY <2>1 DEF IsFirst, n
<1>. HIDE DEF pad
<1>3. whole => n # 1
  BY <1>1
<1>. HIDE DEF whole
<1>4. BText(t) <=> /\ \A k \in 1..(pad - 1) : t[k] \in Base64
                   /\ \A k \in pad..n : t[k] = "="
                   /\ n + 1 - pad <= 2 /\ whole
  BY DEF BText, pad, n, whole
<1>5. ASSUME BText(t)
      PROVE  SeqOver(t, Base64 \cup {"="}) /\ pads \in {{}, {n}, {n - 1, n}}
  <2>1. \A k \in 1..n : k \in 1..(pad - 1) \/ k \in pad..n
    BY <1>1, <1>2
  <2>2. SeqOver(t, Base64 \cup {"="})
    BY <1>4, <1>5, <2>1 DEF SeqOver, n
  <2>3. \A k \in 1..n : t[k] = "=" <=> k \in pad..n
    BY <1>2, <1>4, <1>5, <2>1
  <2>4. pad = n + 1 \/ pad = n \/ pad = n - 1
    BY <1>1, <1>2, <1>4, <1>5
  <2>5. pads = pad..n
    BY <1>1, <1>2, <2>3
  <2>6. pad..n \in {{}, {n}, {n - 1, n}}
    <3>1. CASE pad = n + 1
      BY <1>1, <3>1
    <3>2. CASE pad = n
      BY <1>1, <3>2
    <3>3. CASE pad = n - 1
      BY <1>1, <3>3
    <3>. QED  BY <2>4, <3>1, <3>2, <3>3
  <2>. QED  BY <2>2, <2>5, <2>6
<1>6. ASSUME SeqOver(t, Base64 \cup {"="}), whole, pads \in {{}, {n}, {n - 1, n}}
      PROVE  BText(t)
  <2>0. \A k \in 1..n : t[k] = "=" <=> k \in pads
    OBVIOUS
  <2>. HIDE DEF pads
  <2>1. pads = pad..n
    <3>1. CASE pads = {}
      <4>1. pad = n + 1
        BY <1>1, <1>2, <2>0, <3>1
      <4>. QED  BY <1>1, <3>1, <4>1
    <3>2. CASE pads = {n}
      <4>1. t[n] = "="
        BY <1>1, <2>0, <3>2
      <4>2. pad = n
        BY <1>1, <1>2, <2>0, <3>2, <4>1
      <4>. QED  BY <1>1, <3>2, <4>2
    <3>3. CASE pads = {n - 1, n}
      <4>0. n - 1 \in 1..n
        BY <1>1, <1>3, <1>6
      <4>1. t[n] = "=" /\ t[n - 1] = "="
        BY <1>1, <2>0, <3>3, <4>0
      <4>2. pad = n - 1
        BY <1>1, <1>2, <2>0, <3>3, <4>0, <4>1
      <4>. QED  BY <1>1, <3>3, <4>2
    <3>. QED  BY <1>6, <3>1, <3>2, <3>3
  <2>2. n + 1 - pad <= 2
    <3>1. \A k \in pads : k = n \/ k = n - 1
      BY <1>6
    <3>2. pad = n + 1 \/ pad \in pads
      BY <1>1, <1>2, <2>1
    <3>. QED  BY <1>1, <1>2, <3>1, <3>2
  <2>3. \A k \in pad..n : t[k] = "="
    BY <1>1, <1>2, <2>0, <2>1
  <2>4. \A k \in 1..(pad - 1) : t[k] \in Base64
    BY <1>1, <1>2, <1>6 DEF SeqOver, n
  <2>. QED  BY <1>4, <1>6, <2>2, <2>3, <2>4
<1>. QED  BY <1>4, <1>5, <1>6 DEF n, whole, pads

LEMMA QTextIs ==
    ASSUME NEW t \in Seq(HeaderBytes)
    PROVE  LET pads == {k \in 1..Len(t) : t[k] = "="} IN
           QText(t) <=> /\ SeqOver(t, Enctext)
                        /\ \A k \in pads : k + 2 <= Len(t) /\ {t[k + 1], t[k + 2]} \subseteq Hex
  BY DEF QText, SeqOver

LEMMA EncodedWordIs ==
    ASSUME NEW w \in Seq(HeaderBytes)
    PROVE  EncodedWordOk(w) <=> EncodedWord(w)
<1>. DEFINE n == Len(w)
            Txt(c) == SubSeq(w, c + 6, n - 2)
            Good(c) == /\ WordAt(w, c) /\ n <= MaxWord
                       /\ SeqOver(SubSeq(w, 3, c + 2), Token)
                       /\ w[c + 4] \in {"B", "Q"}
                       /\ IF w[c + 4] = "B" THEN BText(Txt(c)) ELSE QText(Txt(c))
<1>1. n \in Nat /\ MaxWord \in Nat
  BY HeaderAssumption DEF n
<1>2. ASSUME NEW c \in 1..(n - 8)
      PROVE  /\ Txt(c) \in Seq(HeaderBytes) /\ Len(Txt(c)) = n - 7 - c /\ Txt(c) # <<>>
             /\ Len(SubSeq(w, 3, c + 2)) = c
             /\ \A k \in 1..c : SubSeq(w, 3, c + 2)[k] = w[k + 2]
             /\ c + 5 + (n - 7 - c) = n - 2
  <2>1. /\ n \in Nat /\ c \in Nat /\ c + 6 \in 1..(n + 1) /\ n - 2 \in ((c + 6) - 1)..n /\ c >= 1
        /\ (n - 2) - (c + 6) + 1 = n - 7 - c /\ 3 \in 1..(n + 1) /\ c + 2 \in (3 - 1)..n
        /\ (c + 2) - 3 + 1 = c /\ c + 5 + (n - 7 - c) = n - 2 /\ n - 7 - c # 0
    <3>1. n \in Nat /\ c \in Nat /\ c >= 1 /\ c <= n - 8
      BY <1>1
    <3>2. n - 7 - c \in Int /\ n - 7 - c >= 1
      BY ONLY <3>1
    <3>. QED  BY ONLY <3>1, <3>2
  <2>2. Txt(c) \in Seq(HeaderBytes) /\ Len(Txt(c)) = n - 7 - c
    <3>. DEFINE a == c + 6
                b == n - 2
    <3>1. a \in 1..(Len(w) + 1) /\ b \in (a - 1)..Len(w) /\ b - a + 1 = n - 7 - c
      BY <2>1 DEF n
    <3>. HIDE DEF a, b
    <3>2. SubSeq(w, a, b) \in Seq(HeaderBytes) /\ Len(SubSeq(w, a, b)) = b - a + 1
      BY <3>1, Slice
    <3>. QED  BY <3>1, <3>2 DEF a, b
  <2>3. /\ Len(SubSeq(w, 3, c + 2)) = c
        /\ \A k \in 1..c : SubSeq(w, 3, c + 2)[k] = w[3 + k - 1]
    <3>1. /\ Len(SubSeq(w, 3, c + 2)) = (c + 2) - 3 + 1
          /\ \A k \in 1..((c + 2) - 3 + 1) : SubSeq(w, 3, c + 2)[k] = w[3 + k - 1]
      BY <2>1, Slice
    <3>. QED  BY <2>1, <3>1
  <2>4. \A k \in 1..c : 3 + k - 1 = k + 2
    OBVIOUS
  <2>5. Txt(c) # <<>>
    BY <2>1, <2>2
  <2>. QED  BY <2>1, <2>2, <2>3, <2>4, <2>5
<1>3. EncodedWord(w) <=> \E c \in 1..(n - 8) : Good(c)
  <2>1. ASSUME NEW c \in 1..(n - 8)
        PROVE  (LET t        == Len(w) - 7 - c
            charset  == SubSeq(w, 3, c + 2)
            encoding == w[c + 4]
            txt      == SubSeq(w, c + 6, c + 5 + t)
            pads     == {k \in 1..t : txt[k] = "="}
        IN  /\ w = <<"=", "?">> \o charset \o <<"?", encoding, "?">> \o txt \o <<"?", "=">>
            /\ Len(w) <= MaxWord
            /\ SeqOver(charset, Token)
            /\ \/ /\ encoding = "B"
                  /\ SeqOver(txt, Base64 \cup {"="})
                  /\ t % 4 = 0
                  /\ pads \in {{}, {t}, {t - 1, t}}
               \/ /\ encoding = "Q"
                  /\ SeqOver(txt, Enctext)
                  /\ \A k \in pads : k + 2 <= t /\ {txt[k + 1], txt[k + 2]} \subseteq Hex)
               <=> Good(c)
    <3>. DEFINE txt == Txt(c)
                t == n - 7 - c
                pads == {k \in 1..t : txt[k] = "="}
    <3>1. txt \in Seq(HeaderBytes) /\ Len(txt) = t /\ txt # <<>>
      BY <1>2
    <3>2. SubSeq(w, c + 6, c + 5 + t) = txt
      BY <1>2
    <3>3. (w = <<"=", "?">> \o SubSeq(w, 3, c + 2) \o <<"?", w[c + 4], "?">>
                 \o txt \o <<"?", "=">>) <=> WordAt(w, c)
      BY WordIsItsParts
    <3>. HIDE DEF txt
    <3>4. BText(txt) <=> /\ SeqOver(txt, Base64 \cup {"="}) /\ t % 4 = 0
                         /\ pads \in {{}, {t}, {t - 1, t}}
      BY <3>1, BTextIs
    <3>5. QText(txt) <=> /\ SeqOver(txt, Enctext)
                         /\ \A k \in pads : k + 2 <= t /\ {txt[k + 1], txt[k + 2]} \subseteq Hex
      BY <3>1, QTextIs
    <3>6. Good(c) <=> /\ WordAt(w, c) /\ n <= MaxWord
                      /\ SeqOver(SubSeq(w, 3, c + 2), Token)
                      /\ w[c + 4] \in {"B", "Q"}
                      /\ IF w[c + 4] = "B" THEN BText(txt) ELSE QText(txt)
      BY DEF txt
    <3>. HIDE DEF Good, pads, t
    <3>. QED
      BY <3>2, <3>3, <3>4, <3>5, <3>6, Zenon DEF pads, t, n
  <2>. QED  BY <2>1 DEF EncodedWord, n
<1>. DEFINE charset == First(w, 3, {"?"})
<1>4. ASSUME EncodedWordOk(w) PROVE \E c \in 1..(n - 8) : Good(c)
  <2>1. /\ n \in 2..MaxWord
        /\ w[1] = "=" /\ w[2] = "?" /\ w[n - 1] = "?" /\ w[n] = "="
        /\ charset \in 4..n
        /\ \A k \in 3..(charset - 1) : w[k] \in Token
        /\ charset + 1 <= n /\ w[charset + 1] \in {"Q", "B"}
        /\ Delimiter(w, charset + 2)
        /\ SubSeq(w, charset + 3, n - 2) # <<>>
        /\ IF w[charset + 1] = "B" THEN BText(SubSeq(w, charset + 3, n - 2))
           ELSE QText(SubSeq(w, charset + 3, n - 2))
    <3>1. charset \in 4..n
      BY <1>4, Zenon DEF EncodedWordOk, n
    <3>2. (charset + 1) + 1 = charset + 2 /\ (charset + 1) + 2 = charset + 3
      BY <1>1, <3>1
    <3>. QED  BY <1>4, <3>1, <3>2, Zenon DEF EncodedWordOk, n
  <2>2. IsFirst(w, 3, {"?"}, charset)
    <3>1. Len(w) \in Nat /\ 3 <= Len(w) + 1
      BY <1>1, <2>1
    <3>. QED  BY <3>1, FirstIsFirst
  <2>. HIDE DEF charset
  <2>3. w[charset] = "?" /\ w[charset + 2] = "?" /\ charset + 2 <= n
    BY <1>1, <2>1, <2>2 DEF IsFirst, Delimiter, n
  <2>4. charset + 3 <= n - 2
    <3>1. SUFFICES ASSUME n - 2 < charset + 3 PROVE FALSE
      BY <1>1, <2>1
    <3>2. Len(SubSeq(w, charset + 3, n - 2)) = 0
      BY <1>1, <2>1, <3>1
    <3>. QED  BY <2>1, <3>2
  <2>5. charset - 3 \in 1..(n - 8) /\ (charset - 3) + 3 = charset /\ (charset - 3) + 4 = charset + 1
        /\ (charset - 3) + 5 = charset + 2 /\ (charset - 3) + 6 = charset + 3
        /\ (charset - 3) + 2 = charset - 1
    BY <1>1, <2>1, <2>4
  <2>6. WordAt(w, charset - 3)
    BY <2>1, <2>3, <2>5 DEF WordAt
  <2>7. SeqOver(SubSeq(w, 3, charset - 1), Token)
    <3>1. \A k \in 1..(charset - 3) : k + 2 \in 3..(charset - 1)
      BY <1>1, <2>1
    <3>2. Len(SubSeq(w, 3, charset - 1)) = charset - 3
          /\ \A k \in 1..(charset - 3) : SubSeq(w, 3, charset - 1)[k] = w[k + 2]
      BY <1>2, <2>5
    <3>. QED  BY <2>1, <3>1, <3>2 DEF SeqOver
  <2>. QED  BY <1>1, <2>1, <2>5, <2>6, <2>7
<1>5. ASSUME NEW c \in 1..(n - 8), Good(c) PROVE EncodedWordOk(w)
  <2>1. /\ w[1] = "=" /\ w[2] = "?" /\ w[c + 3] = "?" /\ w[c + 5] = "?"
        /\ w[n - 1] = "?" /\ w[n] = "=" /\ n <= MaxWord
    BY <1>5 DEF WordAt
  <2>2. \A k \in 3..(c + 2) : w[k] \in Token
    <3>1. \A k \in 1..c : SubSeq(w, 3, c + 2)[k] \in Token
      BY <1>2, <1>5 DEF SeqOver
    <3>2. \A k \in 1..c : w[k + 2] \in Token
      BY <1>2, <3>1
    <3>3. \A k \in 3..(c + 2) : k - 2 \in 1..c /\ (k - 2) + 2 = k
      BY <1>1
    <3>. QED  BY <3>2, <3>3
  <2>3. charset = c + 3
    <3>1. c + 3 \in 3..(n + 1) /\ c + 2 = c + 3 - 1
      BY <1>1
    <3>2. \A k \in 3..(c + 2) : w[k] \notin {"?"}
      BY <2>2 DEF Token
    <3>3. IsFirst(w, 3, {"?"}, c + 3)
      BY <2>1, <3>1, <3>2 DEF IsFirst, n
    <3>. QED  BY <1>1, <3>3, FirstIs DEF n
  <2>. HIDE DEF charset
  <2>4. /\ n \in 2..MaxWord /\ charset \in 4..n /\ charset + 1 <= n /\ charset + 2 <= n
        /\ charset + 1 = c + 4 /\ charset + 2 = c + 5 /\ charset + 3 = c + 6 /\ charset - 1 = c + 2
    BY <1>1, <2>1, <2>3
  <2>5. Delimiter(w, charset + 2) /\ Txt(c) # <<>>
    BY <1>2, <2>1, <2>4 DEF Delimiter
  <2>6. /\ w[charset + 1] \in {"Q", "B"} /\ \A k \in 3..(charset - 1) : w[k] \in Token
        /\ SubSeq(w, charset + 3, n - 2) # <<>>
        /\ IF w[charset + 1] = "B" THEN BText(SubSeq(w, charset + 3, n - 2))
           ELSE QText(SubSeq(w, charset + 3, n - 2))
    BY <1>5, <2>2, <2>4, <2>5
  <2>7. (charset + 1) + 1 = charset + 2 /\ (charset + 1) + 2 = charset + 3
    BY <2>4
  <2>. QED  BY <2>1, <2>4, <2>5, <2>6, <2>7, Zenon DEF EncodedWordOk, charset, n
<1>. QED  BY <1>3, <1>4, <1>5

-----------------------------------------------------------------------------
(* Header values: the words met so far.                                      *)

\* What WordsInOrder(text) asks of a set of spans.
InOrder(words) ==
    /\ \A p \in words : EncodedWord(SubSeq(text, p[1], p[2]))
    /\ \A p, q \in words : p[1] < q[1] => p[2] < q[1]
    /\ \A p \in Spans(text) : p \in words \/ \E q \in words : p[1] \in (q[1] + 1)..q[2]

\* The spans that start before position i can be put in order with words that end
\* before i too ...
WordsSoFar(i) ==
    \E words \in SUBSET Spans(text) :
        /\ \A p \in words : EncodedWord(SubSeq(text, p[1], p[2])) /\ p[2] < i
        /\ \A p, q \in words : p[1] < q[1] => p[2] < q[1]
        /\ \A p \in Spans(text) : p[1] < i =>
                p \in words \/ \E q \in words : p[1] \in (q[1] + 1)..q[2]

\* ... and no choice of words has one that reaches across i.
NoneAcross(i) ==
    \A words \in SUBSET Spans(text) : InOrder(words) => \A q \in words : q[1] < i => q[2] < i

LEMMA SpanIs ==
    ASSUME Len(text) \in Nat, NEW p \in Spans(text)
    PROVE  /\ p[1] \in 1..Len(text) /\ p[2] \in 1..Len(text) /\ p = <<p[1], p[2]>>
           /\ Shaped(text, p[1], p[2]) /\ p[1] < p[2]
           /\ text[p[1]] = "=" /\ Delimiter(text, p[1] + 1)
           /\ CandidateEnd(p[1]) = p[2]
<1>1. p \in (1..Len(text)) \X (1..Len(text)) /\ Shaped(text, p[1], p[2])
  BY DEF Spans
<1>2. p[1] \in 1..Len(text) /\ p[2] \in 1..Len(text) /\ p = <<p[1], p[2]>>
  BY <1>1
<1>3. p[1] + 5 < p[2] /\ text[p[1]] = "=" /\ text[p[1] + 1] = "?"
  BY <1>1, <1>2 DEF Shaped
<1>4. Delimiter(text, p[1] + 1)
  BY <1>2, <1>3 DEF Delimiter
<1>. QED  BY <1>1, <1>2, <1>3, <1>4, CandidateIsShaped

\* Bytes that start no span change nothing of it.
LEMMA NoSpanStarts ==
    ASSUME Len(text) \in Nat, NEW i \in Nat, NEW j \in Nat, i <= j,
           \A p \in Spans(text) : p[1] \notin i..(j - 1),
           WordsSoFar(i), NoneAcross(i)
    PROVE  WordsSoFar(j) /\ NoneAcross(j)
<1>1. ASSUME NEW p \in Spans(text)
      PROVE  p[1] \in Nat /\ p[2] \in Nat /\ (p[1] < j => p[1] < i)
  <2>1. p[1] \in 1..Len(text) /\ p[2] \in 1..Len(text)
    BY SpanIs
  <2>2. p[1] \notin i..(j - 1)
    OBVIOUS
  <2>. QED  BY <2>1, <2>2
<1>2. WordsSoFar(j)
  <2>1. PICK words \in SUBSET Spans(text) :
        /\ \A p \in words : EncodedWord(SubSeq(text, p[1], p[2])) /\ p[2] < i
        /\ \A p, q \in words : p[1] < q[1] => p[2] < q[1]
        /\ \A p \in Spans(text) : p[1] < i =>
                p \in words \/ \E q \in words : p[1] \in (q[1] + 1)..q[2]
    BY Zenon DEF WordsSoFar
  <2>2. ASSUME NEW p \in words PROVE p[2] < j
    <3>1. p \in Spans(text) /\ p[2] < i
      BY <2>1
    <3>. QED  BY <1>1, <3>1
  <2>3. \A p \in Spans(text) : p[1] < j =>
                p \in words \/ \E q \in words : p[1] \in (q[1] + 1)..q[2]
    BY <1>1, <2>1
  <2>. QED  BY <2>1, <2>2, <2>3, Zenon DEF WordsSoFar
<1>3. NoneAcross(j)
  <2>. SUFFICES ASSUME NEW words \in SUBSET Spans(text), InOrder(words), NEW q \in words, q[1] < j
                PROVE  q[2] < j
    BY DEF NoneAcross
  <2>1. q[1] < i
    BY <1>1
  <2>2. q[2] < i
    BY <2>1, Zenon DEF NoneAcross
  <2>. QED  BY <1>1, <2>2
<1>. QED  BY <1>2, <1>3

\* An encoded word is one more of the words.
LEMMA WordIsTaken ==
    ASSUME Len(text) \in Nat, NEW i \in 1..Len(text), NEW e, <<i, e>> \in Spans(text),
           EncodedWord(SubSeq(text, i, e)), WordsSoFar(i), NoneAcross(i)
    PROVE  WordsSoFar(e + 1) /\ NoneAcross(e + 1)
<1>0. /\ e \in Nat /\ i \in Nat /\ i < e /\ e \in 1..Len(text)
      /\ \A p \in Spans(text) : p[1] \in Nat /\ p[2] \in Nat /\ p[1] < p[2] /\ p = <<p[1], p[2]>>
  <2>1. <<i, e>>[2] = e /\ <<i, e>>[1] = i
    OBVIOUS
  <2>2. e \in 1..Len(text) /\ i < e
    BY <2>1, SpanIs
  <2>. QED  BY <2>2, SpanIs
<1>1. \A p \in Spans(text) : p[1] = i => p = <<i, e>>
  <2>. SUFFICES ASSUME NEW p \in Spans(text), p[1] = i PROVE p[2] = e
    BY <1>0
  <2>1. CandidateEnd(<<i, e>>[1]) = <<i, e>>[2]
    BY SpanIs
  <2>. QED  BY <2>1, SpanIs
<1>2. WordsSoFar(e + 1)
  <2>1. PICK words \in SUBSET Spans(text) :
        /\ \A p \in words : EncodedWord(SubSeq(text, p[1], p[2])) /\ p[2] < i
        /\ \A p, q \in words : p[1] < q[1] => p[2] < q[1]
        /\ \A p \in Spans(text) : p[1] < i =>
                p \in words \/ \E q \in words : p[1] \in (q[1] + 1)..q[2]
    BY Zenon DEF WordsSoFar
  <2>. DEFINE more == words \cup {<<i, e>>}
  <2>2. more \in SUBSET Spans(text) /\ <<i, e>> \in more /\ words \subseteq more
    OBVIOUS
  <2>3. ASSUME NEW p \in more
        PROVE  EncodedWord(SubSeq(text, p[1], p[2])) /\ p[2] < e + 1
    <3>1. CASE p \in words
      BY <1>0, <2>1, <3>1
    <3>2. CASE p = <<i, e>>
      BY <1>0, <3>2
    <3>. QED  BY <3>1, <3>2
  <2>4. ASSUME NEW p \in more, NEW q \in more, p[1] < q[1] PROVE p[2] < q[1]
    <3>1. CASE p \in words /\ q \in words
      BY <2>1, <2>4, <3>1
    <3>2. CASE p \in words /\ q = <<i, e>>
      BY <2>1, <3>2
    <3>3. CASE p = <<i, e>> /\ q \in words
      <4>1. q[2] < i /\ q[1] < q[2] /\ i < q[1] /\ q[1] \in Nat /\ q[2] \in Nat
        BY <1>0, <2>1, <2>4, <3>3
      <4>. QED  BY <1>0, <4>1
    <3>4. CASE p = <<i, e>> /\ q = <<i, e>>
      BY <1>0, <2>4, <3>4
    <3>. QED  BY <3>1, <3>2, <3>3, <3>4
  <2>5. ASSUME NEW p \in Spans(text), p[1] < e + 1
        PROVE  p \in more \/ \E q \in more : p[1] \in (q[1] + 1)..q[2]
    <3>1. CASE p[1] < i
      BY <2>1, <2>2, <3>1
    <3>2. CASE p[1] = i
      BY <1>1, <2>2, <3>2
    <3>3. CASE i < p[1]
      <4>1. p[1] \in (<<i, e>>[1] + 1)..<<i, e>>[2]
        BY <1>0, <2>5, <3>3
      <4>. QED  BY <2>2, <4>1
    <3>. QED  BY <1>0, <3>1, <3>2, <3>3
  <2>. HIDE DEF more
  <2>. QED  BY <2>2, <2>3, <2>4, <2>5, Zenon DEF WordsSoFar
<1>3. NoneAcross(e + 1)
  <2>. SUFFICES ASSUME NEW words \in SUBSET Spans(text), InOrder(words),
                       NEW q \in words, q[1] < e + 1
                PROVE  q[2] < e + 1
    BY DEF NoneAcross
  <2>0. q \in Spans(text) /\ q[1] \in Nat /\ q[2] \in Nat
    BY <1>0
  <2>1. CASE q[1] < i
    <3>1. q[2] < i
      BY <2>1, Zenon DEF NoneAcross
    <3>. QED  BY <1>0, <2>0, <3>1
  <2>2. CASE q[1] = i
    BY <1>0, <1>1, <2>0, <2>2
  <2>3. CASE i < q[1]
    <3>1. <<i, e>> \notin words
      <4>. SUFFICES ASSUME <<i, e>> \in words PROVE FALSE
        OBVIOUS
      <4>1. <<i, e>>[1] < q[1] => <<i, e>>[2] < q[1]
        BY Zenon DEF InOrder
      <4>. QED  BY <1>0, <2>0, <2>3, <4>1
    <3>2. PICK r \in words : <<i, e>>[1] \in (r[1] + 1)..r[2]
      BY <3>1, Zenon DEF InOrder
    <3>3. r[1] \in Nat /\ r[2] \in Nat /\ r[1] < i /\ ~ (r[2] < i)
      BY <1>0, <3>2
    <3>. QED  BY <3>3, Zenon DEF NoneAcross
  <2>. QED  BY <1>0, <2>0, <2>1, <2>2, <2>3
<1>. QED  BY <1>2, <1>3

\* A span that starts at the scan and is no encoded word puts the words out of order.
LEMMA WordIsForced ==
    ASSUME Len(text) \in Nat, NEW i \in 1..Len(text), NEW e, <<i, e>> \in Spans(text),
           ~EncodedWord(SubSeq(text, i, e)), NoneAcross(i)
    PROVE  ~WordsInOrder(text)
<1>. SUFFICES ASSUME WordsInOrder(text) PROVE FALSE
  OBVIOUS
<1>1. PICK words \in SUBSET Spans(text) : InOrder(words)
  BY DEF WordsInOrder, InOrder
<1>2. <<i, e>>[1] = i /\ <<i, e>>[2] = e
  OBVIOUS
<1>3. <<i, e>> \notin words
  BY <1>1, <1>2, Zenon DEF InOrder
<1>4. PICK r \in words : i \in (r[1] + 1)..r[2]
  BY <1>1, <1>2, <1>3, Zenon DEF InOrder
<1>5. r[1] \in Nat /\ r[2] \in Nat
  BY SpanIs
<1>6. r[1] < i /\ ~ (r[2] < i)
  BY <1>4, <1>5
<1>. QED  BY <1>1, <1>6, Zenon DEF NoneAcross

LEMMA WordsAtEnd ==
    ASSUME Len(text) \in Nat, WordsSoFar(Len(text) + 1)
    PROVE  WordsInOrder(text)
<1>1. ASSUME NEW p \in Spans(text) PROVE p[1] < Len(text) + 1
  <2>1. p[1] \in 1..Len(text)
    BY SpanIs
  <2>. QED  BY <2>1
<1>. QED  BY <1>1 DEF WordsSoFar, WordsInOrder

\* An encoded word has neither line breaks nor control bytes.
LEMMA WordIsPlain ==
    ASSUME NEW w \in Seq(HeaderBytes), EncodedWord(w)
    PROVE  \A k \in 1..Len(w) : w[k] \notin Breaks \cup {"CTL"}
<1>. DEFINE n == Len(w)
<1>1. PICK c \in 1..(n - 8) :
        LET t        == n - 7 - c
            charset  == SubSeq(w, 3, c + 2)
            encoding == w[c + 4]
            txt      == SubSeq(w, c + 6, c + 5 + t)
        IN  /\ w = <<"=", "?">> \o charset \o <<"?", encoding, "?">> \o txt \o <<"?", "=">>
            /\ SeqOver(charset, Token) /\ encoding \in {"B", "Q"}
            /\ SeqOver(txt, Base64 \cup {"="}) \/ SeqOver(txt, Enctext)
  BY DEF EncodedWord
<1>2. n \in Nat /\ c \in Nat /\ c >= 1 /\ c <= n - 8
  OBVIOUS
<1>3. c + 5 + (n - 7 - c) = n - 2 /\ (n - 2) - (c + 6) + 1 = n - 7 - c
  BY <1>2
<1>4. WordAt(w, c)
  BY <1>1, <1>3, WordIsItsParts
<1>5. \A k \in 1..c : w[3 + k - 1] \in Token
  <2>1. 3 \in 1..(n + 1) /\ c + 2 \in (3 - 1)..n /\ (c + 2) - 3 + 1 = c
    BY <1>2
  <2>2. /\ Len(SubSeq(w, 3, c + 2)) = (c + 2) - 3 + 1
        /\ \A k \in 1..((c + 2) - 3 + 1) : SubSeq(w, 3, c + 2)[k] = w[3 + k - 1]
    BY <2>1, Slice
  <2>. QED  BY <1>1, <2>1, <2>2 DEF SeqOver
<1>6. \A k \in 1..(n - 7 - c) : w[c + 6 + k - 1] \in Base64 \cup {"="} \cup Enctext
  <2>1. c + 6 \in 1..(n + 1) /\ n - 2 \in ((c + 6) - 1)..n
    BY <1>2
  <2>2. /\ Len(SubSeq(w, c + 6, n - 2)) = (n - 2) - (c + 6) + 1
        /\ \A k \in 1..((n - 2) - (c + 6) + 1) : SubSeq(w, c + 6, n - 2)[k] = w[c + 6 + k - 1]
    BY <2>1, Slice
  <2>. QED  BY <1>1, <1>3, <2>2 DEF SeqOver
<1>. SUFFICES ASSUME NEW k \in 1..n PROVE w[k] \in Token \cup Base64 \cup Enctext \cup {"=", "?"}
  BY DEF Breaks, Token, Base64, Enctext
<1>7. CASE k \in {1, 2, c + 3, c + 4, c + 5, n - 1, n}
  BY <1>1, <1>4, <1>7 DEF WordAt, Token
<1>8. CASE k \in 3..(c + 2)
  <2>1. k - 2 \in 1..c /\ 3 + (k - 2) - 1 = k
    BY <1>2, <1>8
  <2>. QED  BY <1>5, <2>1
<1>9. CASE k \in (c + 6)..(n - 2)
  <2>1. k - (c + 5) \in 1..(n - 7 - c) /\ c + 6 + (k - (c + 5)) - 1 = k
    BY <1>2, <1>9
  <2>. QED  BY <1>6, <2>1
<1>. QED  BY <1>2, <1>7, <1>8, <1>9

-----------------------------------------------------------------------------
(* Header values: the scan                                                   *)

HeaderErrors == {"EMPTY", "BARE_CR", "FOLD_NOT_WSP", "BARE_LF", "CONTROL_CHAR",
                 "ENCODED_WORD_INVALID", "LINE_TOO_LONG"}

HeaderLocals ==
    /\ text \in Seq(HeaderBytes)
    /\ scan \in [of : {"HEADER"}, i : Nat, line_len : Nat,
                 result : HeaderErrors \cup {"NONE", "OK"}]

HeaderLine == scan.i - scan.line_len

\* In a line that began at the start or behind a fold, or at the end, behind a CRLF
\* that is not counted as a new line.
HeaderPosition ==
    /\ text # <<>>
    /\ scan.i \in 1..(Len(text) + 1)
    /\ scan.line_len <= HeaderMaxLine
    /\ \/ /\ HeaderLine >= 1
          /\ HeaderLine = 1 \/ text[HeaderLine - 1] = "LF"
          /\ \A k \in HeaderLine..(scan.i - 1) : text[k] \notin Breaks
       \/ scan.i = Len(text) + 1 /\ text[Len(text)] = "LF"

HeaderBytesSoFar ==
    \A k \in 1..(scan.i - 1) :
        /\ text[k] # "CTL"
        /\ text[k] = "LF" => k = Len(text) \/ text[k + 1] = "WSP"

HeaderSoFar ==
    /\ HeaderPosition
    /\ PairedSoFar
    /\ FitsSoFar(HeaderMaxLine)
    /\ HeaderBytesSoFar
    /\ WordsSoFar(scan.i)
    /\ NoneAcross(scan.i)

HeaderIInv ==
    /\ HeaderLocals
    /\ scan.result = "NONE" => HeaderSoFar
    /\ scan.result = "OK" => WellFormedHeader(text)
    /\ scan.result \in HeaderErrors => ~WellFormedHeader(text)

\* Where the scan is while there is a byte to look at.
LEMMA HeaderAt ==
    ASSUME HeaderLocals, HeaderSoFar, More
    PROVE  /\ scan.i \in Nat /\ scan.i >= 1 /\ scan.i <= Len(text) /\ Len(text) \in Nat
           /\ scan.line_len \in Nat /\ scan.line_len < scan.i
           /\ HeaderLine = 1 \/ text[HeaderLine - 1] = "LF"
           /\ \A k \in HeaderLine..(scan.i - 1) : text[k] \notin Breaks
<1>1. scan.i \in Nat /\ Len(text) \in Nat /\ scan.line_len \in Nat
  BY DEF HeaderLocals
<1>2. scan.i >= 1 /\ scan.i <= Len(text)
  BY <1>1 DEF HeaderSoFar, HeaderPosition, More
<1>3. /\ HeaderLine >= 1
      /\ HeaderLine = 1 \/ text[HeaderLine - 1] = "LF"
      /\ \A k \in HeaderLine..(scan.i - 1) : text[k] \notin Breaks
  BY <1>1, <1>2 DEF HeaderSoFar, HeaderPosition
<1>4. scan.line_len < scan.i
  BY <1>1, <1>3 DEF HeaderLine
<1>. QED  BY <1>1, <1>2, <1>3, <1>4

\* n more bytes of the line, a word or a single byte.
LEMMA PassedMovesOn ==
    ASSUME HeaderLocals, HeaderSoFar, More, NEW n \in Nat, n >= 1,
           scan.i + n <= Len(text) + 1,
           \A k \in scan.i..(scan.i + n - 1) : text[k] \notin Breaks \cup {"CTL"},
           scan.line_len + n <= HeaderMaxLine,
           WordsSoFar(scan.i + n), NoneAcross(scan.i + n),
           UNCHANGED text, scan' = [scan EXCEPT !.i = @ + n, !.line_len = @ + n]
    PROVE  HeaderLocals' /\ HeaderSoFar'
<1>1. HeaderLocals'
  <2>1. scan.i + n \in Nat /\ scan.line_len + n \in Nat
    BY DEF HeaderLocals
  <2>. QED  BY <2>1 DEF HeaderLocals
<1>2. scan'.i = scan.i + n /\ scan'.line_len = scan.line_len + n
  BY DEF HeaderLocals
<1>3. /\ scan.i \in Nat /\ scan.i >= 1 /\ scan.i <= Len(text) /\ Len(text) \in Nat
      /\ scan.line_len \in Nat /\ scan.line_len < scan.i
      /\ HeaderLine = 1 \/ text[HeaderLine - 1] = "LF"
      /\ \A k \in HeaderLine..(scan.i - 1) : text[k] \notin Breaks
  BY HeaderAt
<1>4. HeaderLine' = HeaderLine /\ HeaderLine \in Nat /\ HeaderLine >= 1 /\ HeaderLine <= scan.i
  BY <1>2, <1>3 DEF HeaderLine
<1>. HIDE DEF HeaderLine
<1>5. \A k \in 1..(scan.i + n - 1) : k \in 1..(scan.i - 1) \/ k \in scan.i..(scan.i + n - 1)
  BY <1>3
<1>6. HeaderPosition'
  <2>1. ASSUME NEW k \in HeaderLine..(scan.i + n - 1) PROVE text[k] \notin Breaks
    <3>1. k \in HeaderLine..(scan.i - 1) \/ k \in scan.i..(scan.i + n - 1)
      BY <1>3, <1>4
    <3>. QED  BY <1>3, <3>1
  <2>2. scan.i + n \in 1..(Len(text) + 1) /\ text # <<>>
    BY <1>3 DEF HeaderSoFar, HeaderPosition
  <2>. QED  BY <1>2, <1>3, <1>4, <2>1, <2>2 DEF HeaderPosition
<1>7. PairedSoFar'
  <2>. SUFFICES ASSUME NEW k \in 1..(scan.i + n - 1)
                PROVE  /\ text[k] = "CR" => k + 1 < scan.i + n /\ text[k + 1] = "LF"
                       /\ text[k] = "LF" => k > 1 /\ text[k - 1] = "CR"
    BY <1>2, <1>3 DEF PairedSoFar
  <2>1. CASE k \in 1..(scan.i - 1)
    BY <1>3, <2>1 DEF HeaderSoFar, PairedSoFar
  <2>2. CASE k \in scan.i..(scan.i + n - 1)
    BY <2>2 DEF Breaks
  <2>. QED  BY <1>5, <2>1, <2>2
<1>8. FitsSoFar(HeaderMaxLine)'
  <2>. SUFFICES ASSUME NEW s \in 1..Len(text), s + HeaderMaxLine < scan.i + n
                PROVE  \E k \in s..(s + HeaderMaxLine) : text[k] \in Breaks
    BY <1>2 DEF FitsSoFar
  <2>1. CASE s + HeaderMaxLine < scan.i
    BY <2>1 DEF HeaderSoFar, FitsSoFar
  <2>2. CASE ~(s + HeaderMaxLine < scan.i)
    <3>1. HeaderMaxLine \in Nat
      BY HeaderAssumption
    <3>2. HeaderLine - 1 \in s..(s + HeaderMaxLine) /\ HeaderLine # 1
      BY <1>3, <2>2, <3>1 DEF HeaderLine
    <3>3. text[HeaderLine - 1] = "LF"
      BY <1>3, <3>2
    <3>. QED  BY <3>2, <3>3 DEF Breaks
  <2>. QED  BY <2>1, <2>2
<1>9. HeaderBytesSoFar'
  <2>. SUFFICES ASSUME NEW k \in 1..(scan.i + n - 1)
                PROVE  /\ text[k] # "CTL"
                       /\ text[k] = "LF" => k = Len(text) \/ text[k + 1] = "WSP"
    BY <1>2, <1>3 DEF HeaderBytesSoFar
  <2>. QED  BY <1>5 DEF HeaderSoFar, HeaderBytesSoFar, Breaks
<1>10. WordsSoFar(scan.i)' /\ NoneAcross(scan.i)'
  BY <1>2 DEF WordsSoFar, NoneAcross, InOrder
<1>. QED  BY <1>1, <1>6, <1>7, <1>8, <1>9, <1>10 DEF HeaderSoFar

\* A fold, or the CRLF at the end.
LEMMA FoldMovesOn ==
    ASSUME HeaderLocals, HeaderSoFar, More, Byte = "CR",
           scan.i < Len(text), text[scan.i + 1] = "LF",
           scan.i + 1 = Len(text) \/ text[scan.i + 2] = "WSP",
           UNCHANGED text,
           scan' \in [of : {"HEADER"}, i : {scan.i + 2}, line_len : Nat, result : {"NONE"}],
           scan'.line_len = 0 \/ (scan'.line_len = scan.line_len /\ scan.i + 1 = Len(text))
    PROVE  HeaderLocals' /\ HeaderSoFar'
<1>1. scan'.i = scan.i + 2 /\ scan'.line_len \in Nat
  OBVIOUS
<1>2. /\ scan.i \in Nat /\ scan.i >= 1 /\ scan.i <= Len(text) /\ Len(text) \in Nat
      /\ scan.line_len \in Nat /\ text[scan.i] = "CR"
  BY HeaderAt DEF Byte
<1>3. HeaderLocals'
  <2>1. scan.i + 2 \in Nat
    BY <1>2
  <2>. QED  BY <2>1 DEF HeaderLocals
<1>5. \A k \in 1..(scan.i + 1) : k \in 1..(scan.i - 1) \/ k = scan.i \/ k = scan.i + 1
  <2>1. \A i \in Nat : i >= 1 =>
           \A k \in 1..(i + 1) : k \in 1..(i - 1) \/ k = i \/ k = i + 1
    OBVIOUS
  <2>. QED  BY ONLY <1>2, <2>1
<1>6. HeaderPosition'
  <2>0. HeaderMaxLine \in Nat /\ scan.line_len <= HeaderMaxLine /\ text # <<>>
    BY HeaderAssumption DEF HeaderSoFar, HeaderPosition
  <2>1. CASE scan.i + 1 = Len(text)
    BY <1>1, <1>2, <2>0, <2>1 DEF HeaderPosition
  <2>2. CASE scan.i + 1 # Len(text)
    <3>1. scan'.line_len = 0 /\ HeaderLine' = scan.i + 2
      BY <1>1, <1>2, <2>2 DEF HeaderLine
    <3>. HIDE DEF HeaderLine
    <3>2. (scan.i + 2) - 1 = scan.i + 1 /\ scan.i + 2 \in 1..(Len(text) + 1)
      BY <1>2
    <3>3. \A k \in (scan.i + 2)..((scan.i + 2) - 1) : FALSE
      BY <1>2
    <3>. QED  BY <1>1, <1>2, <2>0, <3>1, <3>2, <3>3 DEF HeaderPosition
  <2>. QED  BY <2>1, <2>2
<1>7. PairedSoFar'
  <2>. SUFFICES ASSUME NEW k \in 1..(scan.i + 1)
                PROVE  /\ text[k] = "CR" => k + 1 < scan.i + 2 /\ text[k + 1] = "LF"
                       /\ text[k] = "LF" => k > 1 /\ text[k - 1] = "CR"
    BY <1>1, <1>2 DEF PairedSoFar
  <2>1. CASE k \in 1..(scan.i - 1)
    BY <1>2, <2>1 DEF HeaderSoFar, PairedSoFar
  <2>2. CASE k = scan.i
    BY <1>2, <2>2
  <2>3. CASE k = scan.i + 1
    BY <1>2, <2>3
  <2>. QED  BY <1>5, <2>1, <2>2, <2>3
<1>8. FitsSoFar(HeaderMaxLine)'
  <2>. SUFFICES ASSUME NEW s \in 1..Len(text), s + HeaderMaxLine < scan.i + 2
                PROVE  \E k \in s..(s + HeaderMaxLine) : text[k] \in Breaks
    BY <1>1 DEF FitsSoFar
  <2>1. CASE s + HeaderMaxLine < scan.i
    BY <2>1 DEF HeaderSoFar, FitsSoFar
  <2>2. CASE ~(s + HeaderMaxLine < scan.i)
    <3>0. HeaderMaxLine \in Nat
      BY HeaderAssumption
    <3>1. scan.i \in s..(s + HeaderMaxLine) \/ scan.i + 1 \in s..(s + HeaderMaxLine)
      BY <1>2, <2>2, <3>0
    <3>. QED  BY <1>2, <3>1 DEF Breaks
  <2>. QED  BY <2>1, <2>2
<1>9. HeaderBytesSoFar'
  <2>. SUFFICES ASSUME NEW k \in 1..(scan.i + 1)
                PROVE  /\ text[k] # "CTL"
                       /\ text[k] = "LF" => k = Len(text) \/ text[k + 1] = "WSP"
    BY <1>1, <1>2 DEF HeaderBytesSoFar
  <2>1. CASE k \in 1..(scan.i - 1)
    BY <2>1 DEF HeaderSoFar, HeaderBytesSoFar
  <2>2. CASE k = scan.i
    BY <1>2, <2>2
  <2>3. CASE k = scan.i + 1
    <3>1. k + 1 = scan.i + 2
      BY <1>2, <2>3
    <3>. QED  BY <2>3, <3>1
  <2>. QED  BY <1>5, <2>1, <2>2, <2>3
<1>10. WordsSoFar(scan.i + 2) /\ NoneAcross(scan.i + 2)
  <2>1. ASSUME NEW p \in Spans(text) PROVE p[1] \notin scan.i..((scan.i + 2) - 1)
    <3>1. p[1] \in 1..Len(text) /\ text[p[1]] = "="
      BY <1>2, SpanIs
    <3>2. p[1] # scan.i /\ p[1] # scan.i + 1
      BY <1>2, <3>1
    <3>. QED  BY <1>2, <3>1, <3>2
  <2>2. scan.i + 2 \in Nat /\ scan.i <= scan.i + 2
    BY <1>2
  <2>. QED  BY <1>2, <2>1, <2>2, NoSpanStarts DEF HeaderSoFar
<1>11. WordsSoFar(scan.i)' /\ NoneAcross(scan.i)'
  BY <1>1, <1>10 DEF WordsSoFar, NoneAcross, InOrder
<1>. QED  BY <1>3, <1>6, <1>7, <1>8, <1>9, <1>11 DEF HeaderSoFar

\* What the scan does about words where it is.
LEMMA NoWordHere ==
    ASSUME HeaderLocals, HeaderSoFar, More, WordHere = 0
    PROVE  WordsSoFar(scan.i + 1) /\ NoneAcross(scan.i + 1)
<1>1. scan.i \in Nat /\ Len(text) \in Nat /\ scan.i + 1 \in Nat /\ scan.i <= scan.i + 1
  BY HeaderAt
<1>2. ASSUME NEW p \in Spans(text) PROVE p[1] \notin scan.i..((scan.i + 1) - 1)
  <2>1. /\ p[1] \in 1..Len(text) /\ p[2] \in 1..Len(text)
        /\ text[p[1]] = "=" /\ Delimiter(text, p[1] + 1) /\ CandidateEnd(p[1]) = p[2]
    BY <1>1, SpanIs
  <2>2. p[2] # 0
    BY <1>1, <2>1
  <2>3. p[1] # scan.i
    BY <2>1, <2>2 DEF WordHere, Byte
  <2>. QED  BY <1>1, <2>1, <2>3
<1>. QED  BY <1>1, <1>2, NoSpanStarts DEF HeaderSoFar

LEMMA WordHereIs ==
    ASSUME HeaderLocals, HeaderSoFar, More, WordHere # 0
    PROVE  /\ <<scan.i, WordHere>> \in Spans(text) /\ scan.i \in 1..Len(text)
           /\ WordHere \in (scan.i + 6)..Len(text) /\ Len(text) \in Nat
           /\ SubSeq(text, scan.i, WordHere) \in Seq(HeaderBytes)
           /\ Len(SubSeq(text, scan.i, WordHere)) = WordHere + 1 - scan.i
           /\ \A k \in 1..(WordHere + 1 - scan.i) :
                 SubSeq(text, scan.i, WordHere)[k] = text[scan.i + k - 1]
<1>1. scan.i \in 1..Len(text) /\ Len(text) \in Nat
  BY HeaderAt
<1>2. /\ text[scan.i] = "=" /\ Delimiter(text, scan.i + 1) /\ WordHere = CandidateEnd(scan.i)
  BY DEF WordHere, Byte
<1>3. WordHere \in (scan.i + 6)..Len(text) /\ Shaped(text, scan.i, WordHere)
  BY <1>1, <1>2, CandidateIsShaped
<1>. HIDE DEF WordHere
<1>4. WordHere \in 1..Len(text)
  BY <1>1, <1>3
<1>5. <<scan.i, WordHere>> \in Spans(text)
  BY <1>1, <1>3, <1>4 DEF Spans
<1>6. /\ scan.i \in 1..(Len(text) + 1) /\ WordHere \in (scan.i - 1)..Len(text)
      /\ WordHere - scan.i + 1 = WordHere + 1 - scan.i /\ text \in Seq(HeaderBytes)
  BY <1>1, <1>3 DEF HeaderLocals
<1>7. /\ SubSeq(text, scan.i, WordHere) \in Seq(HeaderBytes)
      /\ Len(SubSeq(text, scan.i, WordHere)) = WordHere - scan.i + 1
      /\ \A k \in 1..(WordHere - scan.i + 1) :
             SubSeq(text, scan.i, WordHere)[k] = text[scan.i + k - 1]
  BY <1>6, Slice
<1>. QED  BY <1>1, <1>3, <1>5, <1>6, <1>7

-----------------------------------------------------------------------------
(* Header values: the end and the failures                                   *)

LEMMA HeaderEndIsWellFormed ==
    ASSUME HeaderLocals, HeaderSoFar, ~More
    PROVE  WellFormedHeader(text)
<1>1. /\ scan.i = Len(text) + 1 /\ Len(text) \in Nat /\ text # <<>> /\ HeaderMaxLine \in Nat
      /\ (Len(text) + 1) - 1 = Len(text)
  BY HeaderAssumption DEF HeaderLocals, HeaderSoFar, HeaderPosition, More
<1>2. LineBreaksPaired(text)
  BY <1>1 DEF HeaderSoFar, PairedSoFar, LineBreaksPaired
<1>3. LinesFit(text, HeaderMaxLine)
  <2>. SUFFICES ASSUME NEW s \in 1..(Len(text) - HeaderMaxLine)
                PROVE  \E k \in s..(s + HeaderMaxLine) : text[k] \in Breaks
    BY DEF LinesFit, Breaks
  <2>1. s \in 1..Len(text) /\ s + HeaderMaxLine < scan.i
    BY <1>1
  <2>. QED  BY <2>1 DEF HeaderSoFar, FitsSoFar
<1>4. \A k \in 1..Len(text) : /\ text[k] # "CTL"
                              /\ text[k] = "LF" => k = Len(text) \/ text[k + 1] = "WSP"
  BY <1>1 DEF HeaderSoFar, HeaderBytesSoFar
<1>5. WordsInOrder(text)
  BY <1>1, WordsAtEnd DEF HeaderSoFar
<1>. QED  BY <1>1, <1>2, <1>3, <1>4, <1>5 DEF WellFormedHeader

LEMMA HeaderByteRefused ==
    ASSUME HeaderLocals, HeaderSoFar, More, Byte \in {"LF", "CTL"}
    PROVE  ~WellFormedHeader(text)
<1>1. scan.i \in Nat /\ Len(text) \in Nat /\ scan.i \in 1..Len(text)
  BY HeaderAt
<1>2. CASE Byte = "CTL"
  BY <1>1, <1>2 DEF Byte, WellFormedHeader
<1>3. CASE Byte = "LF"
  <2>1. ~(scan.i > 1 /\ text[scan.i - 1] = "CR")
    <3>. SUFFICES ASSUME scan.i > 1, text[scan.i - 1] = "CR" PROVE FALSE
      OBVIOUS
    <3>1. scan.i - 1 \in 1..(scan.i - 1) /\ ~(scan.i - 1 + 1 < scan.i)
      BY <1>1
    <3>. QED  BY <3>1 DEF HeaderSoFar, PairedSoFar
  <2>. QED  BY <1>1, <1>3, <2>1 DEF Byte, WellFormedHeader, LineBreaksPaired
<1>. QED  BY <1>2, <1>3

LEMMA FoldRefused ==
    ASSUME HeaderLocals, HeaderSoFar, More, Byte = "CR",
           \/ scan.i = Len(text) \/ text[scan.i + 1] # "LF"
           \/ scan.i + 1 # Len(text) /\ text[scan.i + 2] # "WSP"
    PROVE  ~WellFormedHeader(text)
<1>1. scan.i \in Nat /\ Len(text) \in Nat /\ scan.i \in 1..Len(text) /\ text[scan.i] = "CR"
  BY HeaderAt DEF Byte
<1>2. CASE scan.i = Len(text) \/ text[scan.i + 1] # "LF"
  BY <1>1, <1>2 DEF WellFormedHeader, LineBreaksPaired
<1>3. CASE scan.i # Len(text) /\ text[scan.i + 1] = "LF"
  <2>1. scan.i + 1 \in 1..Len(text) /\ scan.i + 2 = (scan.i + 1) + 1
    BY <1>1, <1>3
  <2>. QED  BY <1>3, <2>1 DEF WellFormedHeader
<1>. QED  BY <1>2, <1>3

LEMMA HeaderTooLong ==
    ASSUME HeaderLocals, HeaderSoFar, More, NEW n \in Nat, n >= 1,
           scan.i + n <= Len(text) + 1,
           \A k \in scan.i..(scan.i + n - 1) : text[k] \notin Breaks \cup {"CTL"},
           scan.line_len + n > HeaderMaxLine
    PROVE  ~WellFormedHeader(text)
<1>1. /\ scan.i \in Nat /\ scan.i >= 1 /\ scan.i <= Len(text) /\ Len(text) \in Nat
      /\ scan.line_len \in Nat /\ scan.line_len < scan.i
      /\ \A k \in HeaderLine..(scan.i - 1) : text[k] \notin Breaks
  BY HeaderAt
<1>2. HeaderMaxLine \in Nat
  BY HeaderAssumption
<1>3. ASSUME NEW k \in HeaderLine..(HeaderLine + HeaderMaxLine)
      PROVE  text[k] \notin Breaks
  <2>1. k \in HeaderLine..(scan.i - 1) \/ k \in scan.i..(scan.i + n - 1)
    BY <1>1, <1>2 DEF HeaderLine
  <2>. QED  BY <1>1, <2>1
<1>4. HeaderLine \in 1..(Len(text) - HeaderMaxLine)
  BY <1>1, <1>2 DEF HeaderLine
<1>. QED  BY <1>3, <1>4 DEF WellFormedHeader, LinesFit, Breaks

-----------------------------------------------------------------------------
(* Header values: the theorem                                                *)

\* A step that ends the scan changes the result and counts only.
LEMMA HeaderEnded ==
    ASSUME HeaderLocals, UNCHANGED text, NEW err \in HeaderErrors \cup {"OK"},
           scan'.result = err, HeaderLocals', WellFormedHeader(text) <=> err = "OK"
    PROVE  HeaderIInv'
<1>1. WellFormedHeader(text)' <=> err = "OK"
  BY DEF WellFormedHeader, LineBreaksPaired, LinesFit, WordsInOrder
<1>2. err # "NONE" /\ (err \in HeaderErrors <=> err # "OK")
  BY DEF HeaderErrors
<1>. QED  BY <1>1, <1>2 DEF HeaderIInv

LEMMA HeaderFailedIs ==
    ASSUME HeaderLocals, UNCHANGED text, NEW err \in HeaderErrors \cup {"OK"}, scan' = Fail(err),
           WellFormedHeader(text) <=> err = "OK"
    PROVE  HeaderIInv'
<1>1. HeaderLocals' /\ scan'.result = err
  BY DEF HeaderLocals, Fail
<1>. QED  BY <1>1, HeaderEnded

LEMMA HeaderMovedOn ==
    ASSUME HeaderLocals', HeaderSoFar', scan'.result = "NONE" PROVE HeaderIInv'
  BY DEF HeaderIInv, HeaderErrors

\* n more bytes that are neither breaks nor control bytes, and end outside of a word.
LEMMA PassedKeeps ==
    ASSUME HeaderLocals, HeaderSoFar, More, scan.result = "NONE", NEW n \in Nat, n >= 1,
           scan.i + n <= Len(text) + 1,
           \A k \in scan.i..(scan.i + n - 1) : text[k] \notin Breaks \cup {"CTL"},
           WordsSoFar(scan.i + n), NoneAcross(scan.i + n), UNCHANGED text, scan' = Passed(n)
    PROVE  HeaderIInv'
<1>1. scan.i \in Nat /\ scan.line_len \in Nat /\ HeaderMaxLine \in Nat
  BY HeaderAssumption DEF HeaderLocals
<1>2. CASE scan.line_len + n > HeaderMaxLine
  <2>1. ~WellFormedHeader(text)
    BY <1>2, HeaderTooLong
  <2>2. scan.i + n \in Nat /\ scan.line_len + n \in Nat
    BY <1>1
  <2>3. HeaderLocals' /\ scan'.result = "LINE_TOO_LONG"
    BY <1>2, <2>2 DEF HeaderLocals, Passed, HeaderErrors
  <2>. QED  BY <2>1, <2>3, HeaderEnded DEF HeaderErrors
<1>3. CASE ~(scan.line_len + n > HeaderMaxLine)
  <2>1. scan.line_len + n <= HeaderMaxLine
    BY <1>1, <1>3
  <2>2. scan' = [scan EXCEPT !.i = @ + n, !.line_len = @ + n]
    BY <1>3 DEF Passed, HeaderLocals
  <2>3. HeaderLocals' /\ HeaderSoFar'
    BY <2>1, <2>2, PassedMovesOn
  <2>4. scan'.result = "NONE"
    BY <2>2 DEF HeaderLocals
  <2>. QED  BY <2>3, <2>4, HeaderMovedOn
<1>. QED  BY <1>2, <1>3

LEMMA HeaderInductive == HeaderIInv /\ [HeaderNext]_scanVars => HeaderIInv'
<1>. SUFFICES ASSUME HeaderIInv, [HeaderNext]_scanVars PROVE HeaderIInv'
  OBVIOUS
<1>1. CASE UNCHANGED scanVars
  <2>1. text' = text /\ scan' = scan
    BY <1>1 DEF scanVars
  <2>2. HeaderLocals' = HeaderLocals /\ WellFormedHeader(text)' = WellFormedHeader(text)
    BY <2>1 DEF HeaderLocals
  <2>3. HeaderSoFar' = HeaderSoFar
    BY <2>1 DEF HeaderSoFar, HeaderPosition, HeaderLine, PairedSoFar, FitsSoFar,
       HeaderBytesSoFar, WordsSoFar, NoneAcross, InOrder
  <2>. QED  BY <2>1, <2>2, <2>3 DEF HeaderIInv
<1>2. CASE HeaderNext
  <2>1. HeaderLocals /\ HeaderSoFar /\ UNCHANGED text /\ scan.result = "NONE"
    BY <1>2 DEF HeaderNext, Running, HeaderIInv
  <2>2. CASE More /\ HeaderFold
    <3>1. Byte = "CR" /\ scan.i \in Nat /\ Len(text) \in Nat /\ scan.i <= Len(text)
          /\ scan.line_len \in Nat
      BY <2>1, <2>2, HeaderAt DEF HeaderFold
    <3>2. CASE scan.i = Len(text) \/ text[scan.i + 1] # "LF"
      <4>1. scan' = Fail("BARE_CR")
        BY <2>2, <3>2 DEF HeaderFold
      <4>. QED  BY <2>1, <2>2, <3>1, <3>2, <4>1, FoldRefused, HeaderFailedIs DEF HeaderErrors
    <3>3. CASE ~(scan.i = Len(text) \/ text[scan.i + 1] # "LF") /\ scan.i + 1 = Len(text)
      <4>1. scan' = [scan EXCEPT !.i = @ + 2]
        BY <2>2, <3>3 DEF HeaderFold
      <4>2. /\ scan' \in [of : {"HEADER"}, i : {scan.i + 2}, line_len : Nat, result : {"NONE"}]
            /\ scan'.line_len = scan.line_len /\ scan'.result = "NONE"
        BY <2>1, <4>1 DEF HeaderLocals
      <4>3. HeaderLocals' /\ HeaderSoFar'
        BY <2>1, <2>2, <3>1, <3>3, <4>2, FoldMovesOn
      <4>. QED  BY <4>2, <4>3, HeaderMovedOn
    <3>4. CASE /\ ~(scan.i = Len(text) \/ text[scan.i + 1] # "LF") /\ scan.i + 1 # Len(text)
               /\ text[scan.i + 2] # "WSP"
      <4>1. scan' = Fail("FOLD_NOT_WSP")
        BY <2>2, <3>4 DEF HeaderFold
      <4>. QED  BY <2>1, <2>2, <3>1, <3>4, <4>1, FoldRefused, HeaderFailedIs DEF HeaderErrors
    <3>5. CASE /\ ~(scan.i = Len(text) \/ text[scan.i + 1] # "LF") /\ scan.i + 1 # Len(text)
               /\ text[scan.i + 2] = "WSP"
      <4>1. scan' = [scan EXCEPT !.i = @ + 2, !.line_len = 0]
        BY <2>2, <3>5 DEF HeaderFold
      <4>2. /\ scan' \in [of : {"HEADER"}, i : {scan.i + 2}, line_len : Nat, result : {"NONE"}]
            /\ scan'.line_len = 0 /\ scan'.result = "NONE"
        BY <2>1, <4>1 DEF HeaderLocals
      <4>3. HeaderLocals' /\ HeaderSoFar'
        BY <2>1, <2>2, <3>1, <3>5, <4>2, FoldMovesOn
      <4>. QED  BY <4>2, <4>3, HeaderMovedOn
    <3>. QED  BY <3>2, <3>3, <3>4, <3>5
  <2>3. CASE More /\ HeaderWord
    <3>. DEFINE w == SubSeq(text, scan.i, WordHere)
                n == WordHere + 1 - scan.i
    <3>1. /\ <<scan.i, WordHere>> \in Spans(text) /\ scan.i \in 1..Len(text)
          /\ WordHere \in (scan.i + 6)..Len(text) /\ Len(text) \in Nat
          /\ w \in Seq(HeaderBytes) /\ Len(w) = n
          /\ \A k \in 1..n : w[k] = text[scan.i + k - 1]
      BY <2>1, <2>3, WordHereIs DEF HeaderWord
    <3>2. EncodedWordOk(w) <=> EncodedWord(w)
      BY <3>1, EncodedWordIs
    <3>3. CASE EncodedWord(w)
      <4>1. scan' = Passed(n)
        BY <2>3, <3>2, <3>3 DEF HeaderWord
      <4>2. n \in Nat /\ n >= 1 /\ scan.i + n = WordHere + 1 /\ scan.i + n <= Len(text) + 1
            /\ scan.i \in Nat /\ WordHere \in Nat
        <5>1. WordHere \in Nat /\ scan.i \in Nat /\ WordHere >= scan.i /\ WordHere <= Len(text)
          BY <3>1
        <5>2. n = WordHere + 1 - scan.i /\ Len(text) \in Nat
          BY <3>1
        <5>. HIDE DEF n
        <5>. QED  BY ONLY <5>1, <5>2
      <4>3. ASSUME NEW k \in scan.i..(scan.i + n - 1) PROVE text[k] \notin Breaks \cup {"CTL"}
        <5>. HIDE DEF n
        <5>. DEFINE j == k + 1 - scan.i
        <5>1. j \in 1..n /\ scan.i + j - 1 = k
          BY ONLY <4>2, <4>3
        <5>. HIDE DEF j
        <5>2. w[j] \notin Breaks \cup {"CTL"}
          BY <3>1, <3>3, <5>1, WordIsPlain
        <5>3. w[j] = text[scan.i + j - 1]
          BY <3>1, <5>1
        <5>. QED  BY <5>1, <5>2, <5>3
      <4>4. WordsSoFar(WordHere + 1) /\ NoneAcross(WordHere + 1)
        BY <2>1, <3>1, <3>3, WordIsTaken DEF HeaderSoFar
      <4>. HIDE DEF n, w
      <4>. QED  BY <2>1, <2>3, <4>1, <4>2, <4>3, <4>4, PassedKeeps
    <3>4. CASE ~EncodedWord(w)
      <4>1. scan' = Fail("ENCODED_WORD_INVALID")
        BY <2>3, <3>2, <3>4 DEF HeaderWord
      <4>2. ~WordsInOrder(text)
        BY <2>1, <3>1, <3>4, WordIsForced DEF HeaderSoFar
      <4>3. ~WellFormedHeader(text)
        BY <4>2 DEF WellFormedHeader
      <4>. QED  BY <2>1, <4>1, <4>3, HeaderFailedIs DEF HeaderErrors
    <3>. QED  BY <3>3, <3>4
  <2>4. CASE More /\ HeaderByte
    <3>1. Byte # "CR" /\ WordHere = 0
      BY <2>4 DEF HeaderByte
    <3>2. CASE Byte = "LF"
      <4>1. scan' = Fail("BARE_LF")
        BY <2>4, <3>2 DEF HeaderByte
      <4>2. ~WellFormedHeader(text)
        BY <2>1, <2>4, <3>2, HeaderByteRefused
      <4>. QED  BY <2>1, <4>1, <4>2, HeaderFailedIs DEF HeaderErrors
    <3>3. CASE Byte = "CTL"
      <4>1. scan' = Fail("CONTROL_CHAR")
        BY <2>4, <3>3 DEF HeaderByte
      <4>2. ~WellFormedHeader(text)
        BY <2>1, <2>4, <3>3, HeaderByteRefused
      <4>. QED  BY <2>1, <4>1, <4>2, HeaderFailedIs DEF HeaderErrors
    <3>4. CASE Byte # "LF" /\ Byte # "CTL"
      <4>1. scan' = Passed(1)
        BY <2>4, <3>4 DEF HeaderByte
      <4>2. scan.i \in Nat /\ Len(text) \in Nat /\ scan.i + 1 <= Len(text) + 1
        BY <2>1, <2>4, HeaderAt
      <4>3. \A k \in scan.i..(scan.i + 1 - 1) : text[k] \notin Breaks \cup {"CTL"}
        BY <3>1, <3>4, <4>2 DEF Byte, Breaks
      <4>4. WordsSoFar(scan.i + 1) /\ NoneAcross(scan.i + 1)
        BY <2>1, <2>4, <3>1, NoWordHere
      <4>. QED  BY <2>1, <2>4, <4>1, <4>2, <4>3, <4>4, PassedKeeps
    <3>. QED  BY <3>2, <3>3, <3>4
  <2>5. CASE HeaderEnd
    <3>1. ~More /\ scan' = Fail("OK")
      BY <2>5 DEF HeaderEnd
    <3>2. WellFormedHeader(text)
      BY <2>1, <3>1, HeaderEndIsWellFormed
    <3>. QED  BY <2>1, <3>1, <3>2, HeaderFailedIs
  <2>. QED  BY <1>2, <2>2, <2>3, <2>4, <2>5 DEF HeaderNext
<1>. QED  BY <1>1, <1>2

LEMMA HeaderInitial == HeaderInit => HeaderIInv
<1>. SUFFICES ASSUME HeaderInit PROVE HeaderIInv
  OBVIOUS
<1>1. text \in Seq(HeaderBytes) /\ HeaderMaxLine \in Nat
  BY HeaderAssumption DEF HeaderInit
<1>2. scan = [of |-> "HEADER", i |-> 1, line_len |-> 0,
              result |-> IF text = <<>> THEN "EMPTY" ELSE "NONE"]
  BY DEF HeaderInit
<1>3. HeaderLocals
  BY <1>1, <1>2 DEF HeaderLocals, HeaderErrors
<1>4. CASE text = <<>>
  <2>1. scan.result = "EMPTY" /\ ~WellFormedHeader(text)
    BY <1>2, <1>4 DEF WellFormedHeader
  <2>. QED  BY <1>3, <2>1 DEF HeaderIInv, HeaderErrors
<1>5. CASE text # <<>>
  <2>1. scan.result = "NONE" /\ scan.i = 1 /\ scan.line_len = 0 /\ Len(text) \in Nat
    BY <1>1, <1>2, <1>5
  <2>2. HeaderPosition
    <3>1. HeaderLine = 1
      BY <2>1 DEF HeaderLine
    <3>. QED  BY <1>1, <1>5, <2>1, <3>1 DEF HeaderPosition
  <2>3. PairedSoFar /\ HeaderBytesSoFar
    BY <2>1 DEF PairedSoFar, HeaderBytesSoFar
  <2>4. FitsSoFar(HeaderMaxLine)
    BY <1>1, <2>1 DEF FitsSoFar
  <2>5. ASSUME NEW p \in Spans(text) PROVE ~(p[1] < 1)
    <3>1. p[1] \in 1..Len(text)
      BY <2>1, SpanIs
    <3>. QED  BY <2>1, <3>1
  <2>6. WordsSoFar(1)
    <3>1. {} \in SUBSET Spans(text)
      OBVIOUS
    <3>. QED  BY <2>5, <3>1, Zenon DEF WordsSoFar
  <2>7. NoneAcross(1)
    BY <2>5, Zenon DEF NoneAcross
  <2>. QED  BY <1>3, <2>1, <2>2, <2>3, <2>4, <2>6, <2>7 DEF HeaderIInv, HeaderSoFar, HeaderErrors
<1>. QED  BY <1>4, <1>5

\* For values of any length and any limits, the validator ends with OK exactly on
\* the values smtp_header_encoding.h describes: CR and LF only as a fold before WSP
\* or as the end, no control byte, no line over the limit, and every encoded word,
\* read from the left, as RFC 2047 has it.
THEOREM HeaderCorrect == HeaderSpec => []HeaderMatchesGrammar
<1>1. HeaderIInv => HeaderMatchesGrammar
  <2>. SUFFICES ASSUME HeaderIInv, ~Running
                PROVE  scan.result = "OK" <=> WellFormedHeader(text)
    BY DEF HeaderMatchesGrammar
  <2>1. scan.result = "OK" \/ scan.result \in HeaderErrors
    BY DEF HeaderIInv, HeaderLocals, Running
  <2>. QED  BY <2>1 DEF HeaderIInv, HeaderErrors
<1>. QED  BY <1>1, HeaderInitial, HeaderInductive, PTL DEF HeaderSpec

-----------------------------------------------------------------------------
(* Addresses: the local part by positions.                                   *)

\* Up to position j the text is a quoted string with these bytes escaped, its last
\* byte perhaps a backslash that escapes the next.
Inside(j, escaped) ==
    /\ text[1] = "DQ"
    /\ escaped \subseteq 3..(j - 1)
    /\ \A k \in 2..(j - 1) :
        IF k \in escaped THEN text[k] # "CTL" /\ text[k - 1] = "\\" /\ k - 1 \notin escaped
        ELSE text[k] \in Qtext \/ (text[k] = "\\" /\ (k + 1 \in escaped \/ k + 1 = j))

Escaping(j, escaped) == j > 2 /\ text[j - 1] = "\\" /\ j - 1 \notin escaped

Quoted(q, escaped) ==
    q > 2 /\ Inside(q, escaped) /\ ~Escaping(q, escaped) /\ text[q] = "DQ"

\* Atoms with dots between them; a dot may not be the first byte of the text.
AtomByte(p) == text[p] \in Atext \cup {"."} /\ (text[p] = "." => p > 1 /\ text[p - 1] # ".")

Atoms(from, to) ==
    /\ \A p \in from..to : AtomByte(p)
    /\ from <= to => text[to] # "."

\* The local part ends before this "@".
LocalAt(at) ==
    /\ at \in 2..Len(text) /\ text[at] = "@"
    /\ \/ Atoms(1, at - 1) /\ at - 1 <= MaxLocal
       \/ \E q \in 3..(at - 1) : \E escaped \in SUBSET (3..(q - 1)) :
            /\ Quoted(q, escaped)
            /\ Atoms(q + 1, at - 1)
            /\ at - 3 - Cardinality(escaped) <= MaxLocal

\* A slice of the text, or what stands for a first atom and the slice.
LEMMA DottedIs ==
    ASSUME Len(text) \in Nat, NEW from \in 1..(Len(text) + 1), NEW to \in (from - 1)..Len(text),
           NEW lead \in {0, 1}, lead = 1 => from > 1 /\ text[from - 1] # ".",
           lead = 0 => from = 1 /\ to >= 1,
           NEW bytes, Len(bytes) = lead + (to + 1 - from), bytes # <<>>,
           lead = 1 => bytes[1] = "a",
           \A k \in 1..(to + 1 - from) : bytes[k + lead] = text[from + k - 1]
    PROVE  Dotted(bytes, Atext) <=> Atoms(from, to)
<1>. DEFINE n == to + 1 - from
            At(p) == p - from + 1 + lead
<1>1. n \in Nat /\ from \in Nat /\ to \in Nat /\ lead \in Nat /\ Len(bytes) = n + lead
  OBVIOUS
<1>2. ASSUME NEW p \in from..to
      PROVE  At(p) \in (1 + lead)..(n + lead) /\ bytes[At(p)] = text[p]
  <2>1. p - from + 1 \in 1..(to + 1 - from) /\ from + (p - from + 1) - 1 = p
    BY <1>1
  <2>2. bytes[(p - from + 1) + lead] = text[from + (p - from + 1) - 1]
    BY <2>1
  <2>. QED  BY <1>1, <2>1, <2>2
<1>3. ASSUME NEW k \in (1 + lead)..(n + lead)
      PROVE  from + k - 1 - lead \in from..to /\ At(from + k - 1 - lead) = k
  BY <1>1
<1>4. ASSUME Dotted(bytes, Atext) PROVE Atoms(from, to)
  <2>1. ASSUME NEW p \in from..to PROVE AtomByte(p) /\ (p = to => text[p] # ".")
    <3>1. /\ At(p) \in (1 + lead)..(n + lead) /\ bytes[At(p)] = text[p] /\ At(p) \in 1..Len(bytes)
          /\ (p = to => At(p) = Len(bytes)) /\ p \in Nat
      BY <1>1, <1>2
    <3>2. bytes[At(p)] \in Atext \cup {"."}
      BY <1>4, <3>1 DEF Dotted, Over
    <3>3. CASE text[p] = "."
      <4>1. At(p) \in 2..(Len(bytes) - 1) /\ bytes[At(p) - 1] # "."
        BY <1>4, <3>1, <3>3 DEF Dotted
      <4>2. p # to
        BY <1>1, <3>1, <4>1
      <4>3. CASE p = from
        <5>1. lead = 1
          BY <1>1, <4>1, <4>3
        <5>. QED  BY <3>1, <3>2, <3>3, <4>2, <4>3, <5>1 DEF AtomByte
      <4>4. CASE p # from
        <5>1. p - 1 \in from..to /\ At(p - 1) = At(p) - 1 /\ p > 1
          BY <1>1, <3>1, <4>4
        <5>2. bytes[At(p) - 1] = text[p - 1]
          BY <1>2, <5>1
        <5>. QED  BY <3>1, <3>2, <3>3, <4>1, <4>2, <5>1, <5>2 DEF AtomByte
      <4>. QED  BY <4>3, <4>4
    <3>4. CASE text[p] # "."
      BY <3>1, <3>2, <3>4 DEF AtomByte
    <3>. QED  BY <3>3, <3>4
  <2>. QED  BY <1>1, <2>1 DEF Atoms
<1>5. ASSUME Atoms(from, to) PROVE Dotted(bytes, Atext)
  <2>1. ASSUME NEW k \in 1..Len(bytes) PROVE bytes[k] \in Atext \cup {"."}
    <3>1. CASE k \in (1 + lead)..(n + lead)
      <4>. DEFINE p == from + k - 1 - lead
      <4>1. p \in from..to /\ At(p) = k
        BY <1>3, <3>1
      <4>. HIDE DEF p, At
      <4>2. bytes[k] = text[p]
        BY <1>2, <4>1
      <4>. QED  BY <1>5, <4>1, <4>2 DEF Atoms, AtomByte
    <3>2. CASE k \notin (1 + lead)..(n + lead)
      <4>1. lead = 1 /\ k = 1
        BY <1>1, <3>2
      <4>. QED  BY <4>1 DEF Atext
    <3>. QED  BY <3>1, <3>2
  <2>2. ASSUME NEW k \in 1..Len(bytes), bytes[k] = "."
        PROVE  k \in 2..(Len(bytes) - 1) /\ bytes[k - 1] # "." /\ bytes[k + 1] # "."
    <3>1. k \in (1 + lead)..(n + lead)
      <4>. SUFFICES ASSUME ~(k \in (1 + lead)..(n + lead)) PROVE FALSE
        OBVIOUS
      <4>1. lead = 1 /\ k = 1
        BY <1>1
      <4>. QED  BY <2>2, <4>1
    <3>. DEFINE p == from + k - 1 - lead
    <3>2. p \in from..to /\ At(p) = k /\ text[p] = "." /\ p \in Nat
      <4>1. p \in from..to /\ At(p) = k
        BY <1>3, <3>1
      <4>. HIDE DEF p
      <4>2. text[p] = "."
        BY <1>2, <2>2, <4>1
      <4>. QED  BY <1>1, <4>1, <4>2
    <3>3. AtomByte(p) /\ text[to] # "."
      BY <1>1, <1>5, <3>2 DEF Atoms
    <3>4. p + 1 \in from..to /\ At(p + 1) = k + 1 /\ p > 1 /\ text[p - 1] # "."
      <4>1. p # to /\ p > 1 /\ text[p - 1] # "."
        BY <3>2, <3>3 DEF AtomByte
      <4>. QED  BY <1>1, <3>2, <4>1
    <3>5. bytes[k + 1] # "." /\ k + 1 <= Len(bytes)
      <4>1. AtomByte(p + 1) /\ (p + 1) - 1 = p /\ bytes[k + 1] = text[p + 1]
        BY <1>1, <1>2, <1>5, <3>2, <3>4 DEF Atoms
      <4>2. k + 1 <= Len(bytes)
        BY <1>1, <1>2, <3>4
      <4>. QED  BY <3>2, <4>1, <4>2 DEF AtomByte
    <3>6. k > 1 /\ bytes[k - 1] # "."
      <4>1. CASE p = from
        <5>1. lead = 1 /\ k = 2
          BY <1>1, <3>2, <3>4, <4>1
        <5>. QED  BY <5>1
      <4>2. CASE p # from
        <5>1. p - 1 \in from..to /\ At(p - 1) = k - 1 /\ k > 1
          BY <1>1, <3>2, <4>2
        <5>. QED  BY <1>2, <3>4, <5>1
      <4>. QED  BY <4>1, <4>2
    <3>. QED  BY <1>1, <3>5, <3>6
  <2>. QED  BY <2>1, <2>2 DEF Dotted, Over
<1>. QED  BY <1>4, <1>5

LEMMA LocalPartIs ==
    ASSUME text \in Seq(AddressBytes), NEW at \in 2..(Len(text) - 1), text[at] = "@"
    PROVE  LocalPart(SubSeq(text, 1, at - 1)) <=> LocalAt(at)
<1>. DEFINE bytes == SubSeq(text, 1, at - 1)
            n == at - 1
<1>1. Len(text) \in Nat /\ at \in Nat /\ n \in Nat /\ n >= 1 /\ n < Len(text)
  OBVIOUS
<1>2. /\ bytes \in Seq(AddressBytes) /\ Len(bytes) = n /\ \A k \in 1..n : bytes[k] = text[k]
  <2>1. 1 \in 1..(Len(text) + 1) /\ n \in (1 - 1)..Len(text) /\ n - 1 + 1 = n
    BY <1>1
  <2>2. /\ SubSeq(text, 1, n) \in Seq(AddressBytes) /\ Len(SubSeq(text, 1, n)) = n - 1 + 1
        /\ \A k \in 1..(n - 1 + 1) : SubSeq(text, 1, n)[k] = text[1 + k - 1]
    BY <2>1, Slice
  <2>3. \A k \in 1..n : 1 + k - 1 = k
    OBVIOUS
  <2>. QED  BY <2>1, <2>2, <2>3
<1>. HIDE DEF bytes
<1>3. Dotted(bytes, Atext) <=> Atoms(1, n)
  <2>1. /\ 1 \in 1..(Len(text) + 1) /\ n \in (1 - 1)..Len(text) /\ Len(bytes) = 0 + (n + 1 - 1)
        /\ bytes # <<>> /\ \A k \in 1..(n + 1 - 1) : bytes[k + 0] = text[1 + k - 1]
    BY <1>1, <1>2
  <2>2. 0 \in {0, 1} /\ ~(0 = 1) /\ 1 = 1 /\ n >= 1
    BY <1>1
  <2>. HIDE DEF n
  <2>. QED  BY <1>1, <2>1, <2>2, DottedIs
<1>4. ASSUME NEW q \in 3..n, NEW escaped \in SUBSET (3..(q - 1))
      PROVE  QuotedString(bytes, q, escaped)
                <=> /\ Quoted(q, escaped) /\ Atoms(q + 1, n)
                    /\ at - 3 - Cardinality(escaped) <= MaxLocal
  <2>. DEFINE rest == SubSeq(bytes, q + 1, Len(bytes))
              full == <<"a">> \o rest
  <2>1. q \in Nat /\ q >= 3 /\ q <= n /\ q \notin escaped
    BY <1>1
  <2>2. /\ full # <<>> /\ Len(full) = 1 + (n + 1 - (q + 1)) /\ full[1] = "a"
        /\ \A k \in 1..(n + 1 - (q + 1)) : full[k + 1] = text[(q + 1) + k - 1]
    <3>1. q + 1 \in 1..(Len(bytes) + 1) /\ n \in ((q + 1) - 1)..Len(bytes)
      BY <1>1, <1>2, <2>1
    <3>2. /\ rest \in Seq(AddressBytes) /\ Len(rest) = n - (q + 1) + 1
          /\ \A k \in 1..(n - (q + 1) + 1) : rest[k] = bytes[(q + 1) + k - 1]
      BY <1>2, <3>1, Slice
    <3>3. <<"a">> \in Seq(AddressBytes) /\ Len(<<"a">>) = 1 /\ <<"a">>[1] = "a"
      BY DEF AddressBytes
    <3>. HIDE DEF rest
    <3>4. /\ full \in Seq(AddressBytes) /\ Len(full) = Len(<<"a">>) + Len(rest)
          /\ \A k \in 1..(Len(<<"a">>) + Len(rest)) :
                full[k] = IF k <= Len(<<"a">>) THEN <<"a">>[k] ELSE rest[k - Len(<<"a">>)]
      BY <3>2, <3>3, Concatenated
    <3>. HIDE DEF full
    <3>5. Len(full) = 1 + (n + 1 - (q + 1)) /\ full # <<>> /\ Len(rest) \in Nat
      BY <1>1, <2>1, <3>2, <3>3, <3>4
    <3>6. full[1] = "a"
      BY <3>2, <3>3, <3>4, <3>5
    <3>7. ASSUME NEW k \in 1..(n + 1 - (q + 1)) PROVE full[k + 1] = text[(q + 1) + k - 1]
      <4>1. /\ k \in 1..(n - (q + 1) + 1) /\ k + 1 \in 1..(1 + Len(rest)) /\ ~(k + 1 <= 1)
            /\ (k + 1) - 1 = k /\ (q + 1) + k - 1 \in 1..n
        BY <1>1, <2>1, <3>2
      <4>2. full[k + 1] = rest[k] /\ rest[k] = bytes[(q + 1) + k - 1]
        BY <3>2, <3>3, <3>4, <4>1
      <4>. QED  BY <1>2, <4>1, <4>2
    <3>. QED  BY <3>5, <3>6, <3>7
  <2>. HIDE DEF full
  <2>3. ASSUME text[q] = "DQ" PROVE Dotted(full, Atext) <=> Atoms(q + 1, n)
    <3>1. /\ q + 1 \in 1..(Len(text) + 1) /\ n \in ((q + 1) - 1)..Len(text) /\ 1 \in {0, 1}
          /\ q + 1 > 1 /\ text[(q + 1) - 1] # "." /\ ~(1 = 0)
      BY <1>1, <2>1, <2>3
    <3>. HIDE DEF n
    <3>. QED  BY <1>1, <2>2, <3>1, DottedIs
  <2>4. /\ bytes[1] = text[1] /\ bytes[q] = text[q]
        /\ \A k \in 2..(q - 1) : bytes[k] = text[k] /\ bytes[k - 1] = text[k - 1]
    BY <1>1, <1>2, <2>1
  <2>5. Len(bytes) - 2 = at - 3
    BY <1>1, <1>2
  <2>6. QuotedString(bytes, q, escaped) <=>
            /\ text[1] = "DQ" /\ text[q] = "DQ"
            /\ \A k \in 2..(q - 1) :
                IF k \in escaped THEN text[k] # "CTL" /\ text[k - 1] = "\\" /\ k - 1 \notin escaped
                ELSE text[k] \in Qtext \/ (text[k] = "\\" /\ k + 1 \in escaped)
            /\ Dotted(full, Atext)
            /\ at - 3 - Cardinality(escaped) <= MaxLocal
    BY <2>1, <2>4, <2>5, Zenon DEF QuotedString, QuotedBytes, full
  <2>7. (\A k \in 2..(q - 1) :
                IF k \in escaped THEN text[k] # "CTL" /\ text[k - 1] = "\\" /\ k - 1 \notin escaped
                ELSE text[k] \in Qtext \/ (text[k] = "\\" /\ k + 1 \in escaped))
        <=> /\ \A k \in 2..(q - 1) :
                IF k \in escaped THEN text[k] # "CTL" /\ text[k - 1] = "\\" /\ k - 1 \notin escaped
                ELSE text[k] \in Qtext \/ (text[k] = "\\" /\ (k + 1 \in escaped \/ k + 1 = q))
            /\ ~Escaping(q, escaped)
    <3>1. q - 1 \in 2..(q - 1) /\ (q - 1) + 1 = q /\ q > 2
      BY <2>1
    <3>2. \A k \in 2..(q - 1) : k + 1 = q => k = q - 1
      BY <2>1
    <3>3. "\\" \notin Qtext
      BY DEF Qtext
    <3>. QED  BY <2>1, <3>1, <3>2, <3>3 DEF Escaping
  <2>8. Quoted(q, escaped) <=>
            /\ text[1] = "DQ" /\ text[q] = "DQ" /\ ~Escaping(q, escaped)
            /\ \A k \in 2..(q - 1) :
                IF k \in escaped THEN text[k] # "CTL" /\ text[k - 1] = "\\" /\ k - 1 \notin escaped
                ELSE text[k] \in Qtext \/ (text[k] = "\\" /\ (k + 1 \in escaped \/ k + 1 = q))
    BY <2>1 DEF Quoted, Inside
  <2>. HIDE DEF n
  <2>. QED  BY <2>3, <2>6, <2>7, <2>8, Zenon
<1>5. (\E q \in 3..Len(bytes) : \E escaped \in SUBSET (3..(q - 1)) :
            QuotedString(bytes, q, escaped))
      <=> \E q \in 3..n : \E escaped \in SUBSET (3..(q - 1)) :
            /\ Quoted(q, escaped) /\ Atoms(q + 1, n)
            /\ at - 3 - Cardinality(escaped) <= MaxLocal
  BY <1>2, <1>4
<1>6. at \in 2..Len(text) /\ at - 1 = n
  BY <1>1
<1>. QED  BY <1>2, <1>3, <1>5, <1>6 DEF LocalPart, LocalAt, bytes

-----------------------------------------------------------------------------
(* Addresses: there is one way to read a local part.                          *)

\* Which bytes are escaped is decided from the left.
LEMMA EscapedFromTheLeft ==
    ASSUME NEW j \in Nat, NEW escaped, Inside(j, escaped), NEW k \in 3..(j - 1)
    PROVE  k \in escaped <=> text[k - 1] = "\\" /\ k - 1 \notin escaped
<1>1. k \in 2..(j - 1) /\ k - 1 \in 2..(j - 1) /\ (k - 1) + 1 = k /\ k # j
  OBVIOUS
<1>2. ASSUME text[k - 1] = "\\", k - 1 \notin escaped PROVE k \in escaped
  <2>1. text[k - 1] \notin Qtext
    BY <1>2 DEF Qtext
  <2>. QED  BY <1>1, <1>2, <2>1 DEF Inside
<1>. QED  BY <1>1, <1>2 DEF Inside

LEMMA EscapesAgree ==
    ASSUME NEW i \in Nat, NEW j \in Nat, i <= j, NEW E, NEW F, Inside(i, E), Inside(j, F)
    PROVE  \A k \in 2..(i - 1) : k \in E <=> k \in F
<1>. DEFINE T == {k \in 2..(i - 1) : ~(k \in E <=> k \in F)}
<1>. SUFFICES ASSUME T # {} PROVE FALSE
  OBVIOUS
<1>1. T \subseteq Nat
  OBVIOUS
<1>2. PICK k \in T : \A m \in T : k <= m
  BY <1>1, LeastNatural
<1>3. k \in 2..(i - 1) /\ k \in Nat /\ ~(k \in E <=> k \in F)
  OBVIOUS
<1>4. CASE k = 2
  <2>1. 2 \notin E /\ 2 \notin F
    BY DEF Inside
  <2>. QED  BY <1>3, <1>4, <2>1
<1>5. CASE k # 2
  <2>1. k \in 3..(i - 1) /\ k \in 3..(j - 1) /\ k - 1 \in 2..(i - 1) /\ ~(k <= k - 1)
    BY <1>3, <1>5
  <2>2. k - 1 \in E <=> k - 1 \in F
    BY <1>2, <2>1
  <2>3. k \in E <=> text[k - 1] = "\\" /\ k - 1 \notin E
    BY <2>1, EscapedFromTheLeft
  <2>4. k \in F <=> text[k - 1] = "\\" /\ k - 1 \notin F
    BY <2>1, EscapedFromTheLeft
  <2>. QED  BY <1>3, <2>2, <2>3, <2>4
<1>. QED  BY <1>4, <1>5

\* A quoted string does not end inside of what was read as one.
LEMMA NoQuoteInside ==
    ASSUME NEW i \in Nat, NEW E, Inside(i, E), NEW q \in Nat, NEW F, Quoted(q, F)
    PROVE  /\ q >= i
           /\ q = i => ~Escaping(i, E) /\ E = F
<1>1. Inside(q, F) /\ ~Escaping(q, F) /\ text[q] = "DQ" /\ q > 2
  BY DEF Quoted
<1>2. ASSUME q < i PROVE FALSE
  <2>1. \A k \in 2..(q - 1) : k \in F <=> k \in E
    BY <1>1, <1>2, EscapesAgree
  <2>2. q \notin E
    <3>. SUFFICES ASSUME q \in E PROVE FALSE
      OBVIOUS
    <3>1. q \in 3..(i - 1) /\ q - 1 \in 2..(q - 1)
      BY <1>1, <1>2
    <3>2. text[q - 1] = "\\" /\ q - 1 \notin E
      BY <3>1, EscapedFromTheLeft
    <3>3. q - 1 \notin F
      BY <2>1, <3>1, <3>2
    <3>. QED  BY <1>1, <3>2, <3>3 DEF Escaping
  <2>3. q \in 2..(i - 1)
    BY <1>1, <1>2
  <2>. QED  BY <1>1, <2>2, <2>3 DEF Inside, Qtext
<1>3. ASSUME q = i PROVE ~Escaping(i, E) /\ E = F
  <2>1. \A k \in 2..(i - 1) : k \in E <=> k \in F
    BY <1>1, <1>3, EscapesAgree
  <2>2. E \subseteq 2..(i - 1) /\ F \subseteq 2..(i - 1)
    BY <1>1, <1>3 DEF Inside
  <2>3. E = F
    BY <2>1, <2>2
  <2>. QED  BY <1>1, <1>3, <2>3
<1>. QED  BY <1>2, <1>3

LEMMA OneQuoted ==
    ASSUME NEW q \in Nat, NEW E, Quoted(q, E), NEW r \in Nat, NEW F, Quoted(r, F)
    PROVE  q = r /\ E = F
<1>1. Inside(q, E) /\ Inside(r, F)
  BY DEF Quoted
<1>2. q >= r /\ r >= q
  BY <1>1, NoQuoteInside
<1>3. q = r
  BY <1>2
<1>. QED  BY <1>1, <1>3, NoQuoteInside

\* The bytes of atoms are neither quotes nor "@".
LEMMA AtomsHaveNoAt ==
    ASSUME NEW from, NEW to, Atoms(from, to), NEW p \in from..to
    PROVE  text[p] # "@" /\ text[p] # "DQ"
  BY DEF Atoms, AtomByte, Atext

LEMMA OneLocal ==
    ASSUME NEW x, NEW y, LocalAt(x), LocalAt(y)
    PROVE  x = y
<1>. SUFFICES ASSUME NEW a, NEW b, LocalAt(a), LocalAt(b), a < b PROVE FALSE
  <2>1. x \in Int /\ y \in Int
    BY DEF LocalAt
  <2>. QED  BY <2>1
<1>1. a \in Nat /\ b \in Nat /\ a >= 2 /\ b >= 2 /\ text[a] = "@"
  BY DEF LocalAt
<1>2. a \in 1..(b - 1) /\ 1 \in 1..(a - 1) /\ 1 \in 1..(b - 1)
  BY <1>1
<1>3. CASE Atoms(1, b - 1)
  BY <1>1, <1>2, <1>3, AtomsHaveNoAt
<1>4. CASE ~Atoms(1, b - 1)
  <2>1. PICK q \in 3..(b - 1) : \E E \in SUBSET (3..(q - 1)) : Quoted(q, E) /\ Atoms(q + 1, b - 1)
    BY <1>4 DEF LocalAt
  <2>0. PICK E \in SUBSET (3..(q - 1)) : Quoted(q, E) /\ Atoms(q + 1, b - 1)
    BY <2>1
  <2>2. text[1] = "DQ"
    BY <2>0 DEF Quoted, Inside
  <2>3. ~Atoms(1, a - 1)
    BY <1>2, <2>2, AtomsHaveNoAt
  <2>4. PICK r \in 3..(a - 1) : \E F \in SUBSET (3..(r - 1)) : Quoted(r, F)
    BY <2>3 DEF LocalAt
  <2>5. q = r
    BY <1>1, <2>0, <2>4, OneQuoted
  <2>6. a \in (q + 1)..(b - 1)
    BY <1>1, <1>2, <2>4, <2>5
  <2>. QED  BY <1>1, <2>0, <2>6, AtomsHaveNoAt
<1>. QED  BY <1>3, <1>4

-----------------------------------------------------------------------------
(* Addresses: the domain by positions.                                       *)

\* A byte of a label or the dot between two, in a domain behind position at.
LabelByte(at, p) ==
    /\ text[p] \in {"a", "-", "."}
    /\ text[p] = "." => p > at + 1 /\ text[p - 1] \notin {".", "-"}
    /\ text[p] = "-" => p > at + 1 /\ text[p - 1] # "."

LabelsAt(at, end) ==
    /\ at < end
    /\ \A p \in (at + 1)..end : LabelByte(at, p)
    /\ text[end] \notin {".", "-"}
    /\ \A s \in (at + 1)..(end - MaxLabel) : \E k \in s..(s + MaxLabel) : text[k] = "."

LiteralAt(at, open) ==
    /\ open \in (at + 1)..(Len(text) - 1) /\ text[open] = "[" /\ text[Len(text)] = "]"
    /\ \A p \in (open + 1)..(Len(text) - 1) : text[p] \in Dlit
    /\ \/ open = at + 1 /\ Len(text) > at + 2
       \/ open > at + 2 /\ text[open - 1] = "." /\ LabelsAt(at, open - 2)

DomainAt(at) ==
    \/ LabelsAt(at, Len(text))
    \/ \E open \in (at + 1)..(Len(text) - 1) : LiteralAt(at, open)

LEMMA LabelsIs ==
    ASSUME NEW at \in Nat, NEW end \in Nat, at <= end,
           NEW bytes, Len(bytes) = end - at, bytes = <<>> <=> end = at,
           \A k \in 1..(end - at) : bytes[k] = text[at + k]
    PROVE  Labels(bytes) <=> LabelsAt(at, end)
<1>. DEFINE n == end - at
            Mark == {".", "-"}
<1>1. n \in Nat /\ Len(bytes) = n /\ MaxLabel \in Nat /\ n + at = end
  BY AddressAssumption
<1>2. ASSUME NEW p \in (at + 1)..end
      PROVE  p - at \in 1..n /\ bytes[p - at] = text[p] /\ p \in Nat
  <2>1. p - at \in 1..n /\ at + (p - at) = p
    BY <1>1
  <2>. QED  BY <2>1
<1>3. ASSUME Labels(bytes) PROVE LabelsAt(at, end)
  <2>1. /\ bytes # <<>> /\ \A k \in 1..n : bytes[k] \in {"a", "-", "."}
        /\ \A k \in 1..n : bytes[k] \in Mark =>
                k \in 2..(n - 1) /\ bytes[k - 1] # "." /\ bytes[k + 1] # "."
        /\ \A s \in 1..(n - MaxLabel) : \E k \in s..(s + MaxLabel) : bytes[k] = "."
    BY <1>1, <1>3 DEF Labels, Dotted, Over, Alnum
  <2>2. ASSUME NEW p \in (at + 1)..end
        PROVE  LabelByte(at, p) /\ (p = end => text[p] \notin Mark)
    <3>1. p - at \in 1..n /\ bytes[p - at] = text[p] /\ p \in Nat
      BY <1>2
    <3>2. ASSUME text[p] \in Mark
          PROVE  /\ p > at + 1 /\ p # end /\ text[p - 1] # "."
                 /\ text[p - 1] \in Mark => text[p] # "."
      <4>1. p - at \in 2..(n - 1) /\ bytes[(p - at) - 1] # "."
        BY <2>1, <3>1, <3>2
      <4>2. p > at + 1 /\ p # end /\ p - 1 \in (at + 1)..end /\ (p - 1) - at = (p - at) - 1
        BY <1>1, <3>1, <4>1
      <4>3. (p - at) - 1 \in 1..n /\ bytes[(p - at) - 1] = text[p - 1]
        BY <1>2, <4>2
      <4>4. text[p - 1] \in Mark => bytes[((p - at) - 1) + 1] # "."
        BY <2>1, <4>3
      <4>5. ((p - at) - 1) + 1 = p - at
        BY <1>1, <3>1
      <4>. QED  BY <3>1, <4>1, <4>2, <4>3, <4>4, <4>5
    <3>. QED  BY <2>1, <3>1, <3>2 DEF LabelByte
  <2>3. at < end /\ end \in (at + 1)..end
    BY <1>1, <2>1
  <2>4. ASSUME NEW s \in (at + 1)..(end - MaxLabel)
        PROVE  \E k \in s..(s + MaxLabel) : text[k] = "."
    <3>1. s - at \in 1..(n - MaxLabel) /\ s \in Nat
      BY <1>1
    <3>2. PICK k \in (s - at)..((s - at) + MaxLabel) : bytes[k] = "."
      BY <2>1, <3>1
    <3>3. k + at \in (at + 1)..end /\ (k + at) - at = k /\ k + at \in s..(s + MaxLabel)
      BY <1>1, <3>1
    <3>4. text[k + at] = "."
      BY <1>2, <3>2, <3>3
    <3>. QED  BY <3>3, <3>4
  <2>. QED  BY <2>2, <2>3, <2>4 DEF LabelsAt
<1>4. ASSUME LabelsAt(at, end) PROVE Labels(bytes)
  <2>1. /\ at < end /\ end \in (at + 1)..end
        /\ \A p \in (at + 1)..end : LabelByte(at, p)
        /\ text[end] \notin Mark
    BY <1>1, <1>4 DEF LabelsAt
  <2>2. ASSUME NEW k \in 1..n
        PROVE  /\ bytes[k] \in {"a", "-", "."}
               /\ bytes[k] \in Mark => k \in 2..(n - 1) /\ bytes[k - 1] # "." /\ bytes[k + 1] # "."
    <3>1. k + at \in (at + 1)..end /\ bytes[k] = text[k + at] /\ (k + at) - 1 = (k - 1) + at
      BY <1>1
    <3>2. LabelByte(at, k + at)
      BY <2>1, <3>1
    <3>3. ASSUME bytes[k] \in Mark
          PROVE  k \in 2..(n - 1) /\ bytes[k - 1] # "." /\ bytes[k + 1] # "."
      <4>1. k + at > at + 1 /\ k + at # end /\ text[(k + at) - 1] # "."
        BY <2>1, <3>1, <3>2, <3>3 DEF LabelByte
      <4>2. k \in 2..(n - 1) /\ k - 1 \in 1..n /\ k + 1 \in 1..n /\ (k + 1) + at \in (at + 1)..end
            /\ ((k + 1) + at) - 1 = k + at
        BY <1>1, <4>1
      <4>3. bytes[k - 1] = text[(k - 1) + at] /\ bytes[k + 1] = text[(k + 1) + at]
        <5>1. at + (k - 1) = (k - 1) + at /\ at + (k + 1) = (k + 1) + at
          BY <1>1
        <5>. QED  BY <4>2, <5>1
      <4>4. LabelByte(at, (k + 1) + at)
        BY <2>1, <4>2
      <4>. QED  BY <3>1, <3>3, <4>1, <4>2, <4>3, <4>4 DEF LabelByte
    <3>. QED  BY <3>1, <3>2, <3>3 DEF LabelByte
  <2>3. ASSUME NEW s \in 1..(n - MaxLabel)
        PROVE  \E k \in s..(s + MaxLabel) : bytes[k] = "."
    <3>1. s + at \in (at + 1)..(end - MaxLabel)
      BY <1>1
    <3>2. PICK k \in (s + at)..((s + at) + MaxLabel) : text[k] = "."
      BY <1>4, <3>1 DEF LabelsAt
    <3>3. k - at \in s..(s + MaxLabel) /\ k \in (at + 1)..end
      BY <1>1, <3>1
    <3>. QED  BY <1>2, <3>2, <3>3
  <2>4. bytes # <<>>
    BY <1>1, <2>1
  <2>. QED  BY <1>1, <2>2, <2>3, <2>4 DEF Labels, Dotted, Over, Alnum
<1>. QED  BY <1>3, <1>4

LEMMA DomainPartIs ==
    ASSUME text \in Seq(AddressBytes), NEW at \in 2..(Len(text) - 1)
    PROVE  DomainPart(SubSeq(text, at + 1, Len(text)))
                <=> Len(text) - at <= MaxDomain /\ DomainAt(at)
<1>. DEFINE bytes == SubSeq(text, at + 1, Len(text))
            n == Len(text)
            m == n - at
<1>1. n \in Nat /\ at \in Nat /\ m \in Nat /\ m >= 1 /\ at >= 2 /\ m + at = n
  OBVIOUS
<1>2. /\ bytes \in Seq(AddressBytes) /\ Len(bytes) = m /\ \A k \in 1..m : bytes[k] = text[at + k]
  <2>1. at + 1 \in 1..(n + 1) /\ n \in ((at + 1) - 1)..n /\ n - (at + 1) + 1 = m
    BY <1>1
  <2>2. /\ bytes \in Seq(AddressBytes) /\ Len(bytes) = n - (at + 1) + 1
        /\ \A k \in 1..(n - (at + 1) + 1) : bytes[k] = text[(at + 1) + k - 1]
    BY <2>1, Slice
  <2>3. \A k \in 1..m : (at + 1) + k - 1 = at + k
    BY <1>1
  <2>. QED  BY <2>1, <2>2, <2>3
<1>. HIDE DEF bytes, n
<1>3. Labels(bytes) <=> LabelsAt(at, n)
  <2>1. n \in Nat /\ at <= n /\ Len(bytes) = n - at /\ (bytes = <<>> <=> n = at)
    BY <1>1, <1>2
  <2>. QED  BY <1>1, <1>2, <2>1, LabelsIs
<1>4. ASSUME NEW o \in 1..m
      PROVE  Literal(bytes, o) <=> LiteralAt(at, o + at)
  <2>1. o \in Nat /\ o >= 1 /\ o <= m /\ bytes[o] = text[o + at] /\ bytes[m] = text[n]
    <3>1. at + o = o + at /\ at + m = n /\ m \in 1..m
      BY <1>1
    <3>. QED  BY <1>2, <3>1
  <2>2. ASSUME o < m
        PROVE  Over(SubSeq(bytes, o + 1, m - 1), Dlit)
                 <=> \A p \in ((o + at) + 1)..(n - 1) : text[p] \in Dlit
    <3>1. o + 1 \in 1..(m + 1) /\ m - 1 \in ((o + 1) - 1)..m /\ (m - 1) - (o + 1) + 1 = m - 1 - o
      BY <1>1, <2>1, <2>2
    <3>2. /\ Len(SubSeq(bytes, o + 1, m - 1)) = m - 1 - o
          /\ \A k \in 1..(m - 1 - o) : SubSeq(bytes, o + 1, m - 1)[k] = bytes[(o + 1) + k - 1]
      <4>1. /\ bytes \in Seq(AddressBytes) /\ o + 1 \in 1..(Len(bytes) + 1)
            /\ m - 1 \in ((o + 1) - 1)..Len(bytes)
        BY <1>2, <3>1
      <4>2. /\ Len(SubSeq(bytes, o + 1, m - 1)) = (m - 1) - (o + 1) + 1
            /\ \A k \in 1..((m - 1) - (o + 1) + 1) :
                  SubSeq(bytes, o + 1, m - 1)[k] = bytes[(o + 1) + k - 1]
        <5>. HIDE DEF m
        <5>. QED  BY <4>1, Slice
      <4>. QED  BY <3>1, <4>2
    <3>3. ASSUME NEW k \in 1..(m - 1 - o)
          PROVE  /\ SubSeq(bytes, o + 1, m - 1)[k] = text[(o + at) + k]
                 /\ (o + at) + k \in ((o + at) + 1)..(n - 1)
      <4>1. /\ (o + 1) + k - 1 \in 1..m /\ at + ((o + 1) + k - 1) = (o + at) + k
            /\ (o + at) + k \in ((o + at) + 1)..(n - 1)
        BY <1>1, <2>1
      <4>. QED  BY <1>2, <3>2, <4>1
    <3>4. ASSUME NEW p \in ((o + at) + 1)..(n - 1)
          PROVE  p - (o + at) \in 1..(m - 1 - o) /\ (o + at) + (p - (o + at)) = p
      BY <1>1, <2>1
    <3>5. Over(SubSeq(bytes, o + 1, m - 1), Dlit)
            <=> \A k \in 1..(m - 1 - o) : text[(o + at) + k] \in Dlit
      BY <3>2, <3>3 DEF Over
    <3>6. (\A k \in 1..(m - 1 - o) : text[(o + at) + k] \in Dlit)
            <=> \A p \in ((o + at) + 1)..(n - 1) : text[p] \in Dlit
      BY <3>3, <3>4
    <3>. QED  BY <3>5, <3>6
  <2>3. ASSUME o > 2
        PROVE  /\ Labels(SubSeq(bytes, 1, o - 2)) <=> LabelsAt(at, (o + at) - 2)
               /\ bytes[o - 1] = text[(o + at) - 1]
    <3>1. 1 \in 1..(m + 1) /\ o - 2 \in (1 - 1)..m /\ (o - 2) - 1 + 1 = o - 2
      BY <1>1, <2>1, <2>3
    <3>2. /\ Len(SubSeq(bytes, 1, o - 2)) = o - 2
          /\ \A k \in 1..(o - 2) : SubSeq(bytes, 1, o - 2)[k] = bytes[1 + k - 1]
      <4>1. /\ Len(SubSeq(bytes, 1, o - 2)) = (o - 2) - 1 + 1
            /\ \A k \in 1..((o - 2) - 1 + 1) : SubSeq(bytes, 1, o - 2)[k] = bytes[1 + k - 1]
        BY <1>2, <3>1, Slice
      <4>. QED  BY <3>1, <4>1
    <3>. DEFINE front == SubSeq(bytes, 1, o - 2)
                end == (o + at) - 2
    <3>3. end \in Nat /\ at <= end /\ end - at = o - 2 /\ end # at
      BY <1>1, <2>1, <2>3
    <3>4. ASSUME NEW k \in 1..(end - at) PROVE front[k] = text[at + k]
      <4>1. k \in 1..(o - 2) /\ 1 + k - 1 = k /\ k \in 1..m
        BY <1>1, <2>1, <3>3
      <4>. QED  BY <1>2, <3>2, <4>1
    <3>5. Len(front) = end - at /\ front # <<>>
      <4>1. Len(front) = end - at /\ Len(front) # 0
        BY <3>2, <3>3
      <4>. HIDE DEF front, end
      <4>. QED  BY <4>1
    <3>. HIDE DEF front, end
    <3>6. Labels(front) <=> LabelsAt(at, end)
      BY <1>1, <3>3, <3>4, <3>5, LabelsIs
    <3>7. bytes[o - 1] = text[(o + at) - 1]
      <4>1. o - 1 \in 1..m /\ at + (o - 1) = (o + at) - 1
        BY <1>1, <2>1, <2>3
      <4>. QED  BY <1>2, <4>1
    <3>. QED  BY <3>6, <3>7 DEF front, end
  <2>4. /\ o < m <=> o + at \in (at + 1)..(n - 1)
        /\ o = 1 <=> o + at = at + 1
        /\ m > 2 <=> n > at + 2
        /\ o > 2 <=> o + at > at + 2
    BY <1>1, <2>1
  <2>5. Literal(bytes, o) <=>
            /\ o < m /\ bytes[o] = "[" /\ bytes[m] = "]"
            /\ Over(SubSeq(bytes, o + 1, m - 1), Dlit)
            /\ \/ o = 1 /\ m > 2
               \/ o > 2 /\ bytes[o - 1] = "." /\ Labels(SubSeq(bytes, 1, o - 2))
    BY <1>2, Zenon DEF Literal
  <2>6. LiteralAt(at, o + at) <=>
            /\ o + at \in (at + 1)..(n - 1) /\ text[o + at] = "[" /\ text[n] = "]"
            /\ \A p \in ((o + at) + 1)..(n - 1) : text[p] \in Dlit
            /\ \/ o + at = at + 1 /\ n > at + 2
               \/ o + at > at + 2 /\ text[(o + at) - 1] = "." /\ LabelsAt(at, (o + at) - 2)
    BY Zenon DEF LiteralAt, n
  <2>. QED  BY <2>1, <2>2, <2>3, <2>4, <2>5, <2>6, Zenon
<1>5. (\E o \in 1..Len(bytes) : Literal(bytes, o))
         <=> \E open \in (at + 1)..(n - 1) : LiteralAt(at, open)
  <2>1. ASSUME NEW o \in 1..Len(bytes), Literal(bytes, o)
        PROVE  \E open \in (at + 1)..(n - 1) : LiteralAt(at, open)
    <3>1. LiteralAt(at, o + at)
      BY <1>2, <1>4, <2>1
    <3>. QED  BY <3>1 DEF LiteralAt, n
  <2>2. ASSUME NEW open \in (at + 1)..(n - 1), LiteralAt(at, open)
        PROVE  \E o \in 1..Len(bytes) : Literal(bytes, o)
    <3>1. open - at \in 1..m /\ (open - at) + at = open
      BY <1>1
    <3>2. Literal(bytes, open - at)
      BY <1>4, <2>2, <3>1
    <3>. QED  BY <1>2, <3>1, <3>2
  <2>. QED  BY <2>1, <2>2
<1>6. DomainPart(bytes) <=>
        Len(bytes) <= MaxDomain /\ (Labels(bytes) \/ \E o \in 1..Len(bytes) : Literal(bytes, o))
  BY DEF DomainPart
<1>. QED  BY <1>2, <1>3, <1>5, <1>6 DEF DomainAt, bytes, n

\* The address by positions; the limit of the domain follows from that of the whole.
LEMMA WellFormedIs ==
    ASSUME text \in Seq(AddressBytes)
    PROVE  WellFormedAddress(text)
                <=> Len(text) <= MaxTotal /\ \E at \in 2..(Len(text) - 1) : LocalAt(at) /\ DomainAt(at)
<1>1. /\ Len(text) \in Nat /\ MaxTotal \in Nat /\ MaxDomain \in Nat /\ MaxTotal <= MaxDomain + 2
  BY AddressAssumption
<1>2. ASSUME NEW at \in 2..(Len(text) - 1), Len(text) <= MaxTotal
      PROVE  (/\ text[at] = "@"
              /\ LocalPart(SubSeq(text, 1, at - 1))
              /\ DomainPart(SubSeq(text, at + 1, Len(text))))
                <=> LocalAt(at) /\ DomainAt(at)
  <2>1. Len(text) - at <= MaxDomain
    BY <1>1, <1>2
  <2>2. DomainPart(SubSeq(text, at + 1, Len(text))) <=> DomainAt(at)
    BY <2>1, DomainPartIs
  <2>3. LocalAt(at) => text[at] = "@"
    BY DEF LocalAt
  <2>4. text[at] = "@" => (LocalPart(SubSeq(text, 1, at - 1)) <=> LocalAt(at))
    BY LocalPartIs
  <2>. QED  BY <2>2, <2>3, <2>4
<1>. QED  BY <1>2 DEF WellFormedAddress

-----------------------------------------------------------------------------
(* Addresses: the scan                                                       *)

AddressErrors ==
    {"EMPTY", "TOTAL_TOO_LONG", "LOCAL_TOO_LONG", "LOCAL_LEADING_DOT", "LOCAL_EMPTY",
     "LOCAL_INVALID_CHAR", "LOCAL_CONSECUTIVE_DOTS", "LOCAL_TRAILING_DOT",
     "LOCAL_BAD_QUOTED_CHAR", "LOCAL_BAD_ESCAPE", "LOCAL_UNTERMINATED_QUOTE", "MISSING_AT",
     "DOMAIN_LABEL_EMPTY", "DOMAIN_LEADING_HYPHEN", "DOMAIN_TRAILING_HYPHEN",
     "DOMAIN_INVALID_CHAR", "DOMAIN_LABEL_TOO_LONG", "DOMAIN_TOO_LONG", "DOMAIN_EMPTY",
     "DOMAIN_LITERAL_EMPTY", "DOMAIN_LITERAL_INVALID", "DOMAIN_LITERAL_UNTERMINATED"}

LabelStates == {"DOMAIN_LABEL_START", "DOMAIN_LABEL_CHAR"}

AddressScans ==
    [of : {"ADDRESS"}, state : LocalStates \cup QuotedStates \cup LabelStates \cup {"DOMAIN_LITERAL"},
     i : Nat, local_len : Nat, label_len : Nat, domain_len : Nat,
     result : AddressErrors \cup {"NONE", "OK"}]

AddressLocals == text \in Seq(AddressBytes) /\ scan \in AddressScans

\* Where the atoms begin: at the start, or behind a quoted string; "saved" bytes
\* before them do not count.
Lead(from, saved) ==
    \/ from = 1 /\ saved = 0 /\ text[1] # "DQ"
    \/ from > 3 /\ \E escaped : Quoted(from - 1, escaped) /\ saved = 2 + Cardinality(escaped)

\* What has been read, in the states of the local part ...
AtomsSoFar(s) ==
    /\ s.i > 1
    /\ text[s.i - 1] = "." <=> s.state = "LOCAL_DOT"
    /\ \E from \in 1..s.i, saved \in Nat :
        /\ Lead(from, saved)
        /\ \A p \in from..(s.i - 1) : AtomByte(p)
        /\ s.local_len = s.i - 1 - saved

QuotedSoFar(s) ==
    /\ s.i > 1
    /\ s.i = 2 <=> s.state = "LOCAL_QUOTED_START"
    /\ \E escaped :
        /\ Inside(s.i, escaped)
        /\ Escaping(s.i, escaped) <=> s.state = "LOCAL_QUOTED_ESCAPE"
        /\ s.local_len = s.i - 2 - Cardinality(escaped)
                            - (IF s.state = "LOCAL_QUOTED_ESCAPE" THEN 1 ELSE 0)

\* ... and of the domain.
LabelsTo(at, i) ==
    /\ \A p \in (at + 1)..(i - 1) : LabelByte(at, p)
    /\ \A b \in (at + 1)..(i - 1 - MaxLabel) : \E k \in b..(b + MaxLabel) : text[k] = "."

LabelsFrom(s, at) ==
    /\ LocalAt(at)
    /\ LabelsTo(at, s.i)
    /\ s.domain_len = s.i - at - 1
    /\ s.label_len <= MaxLabel /\ s.label_len <= s.domain_len
    /\ s.i - s.label_len = at + 1 \/ text[s.i - s.label_len - 1] = "."
    /\ \A k \in (s.i - s.label_len)..(s.i - 1) : text[k] # "."
    /\ s.label_len = 0 <=> s.state = "DOMAIN_LABEL_START"

LabelsSoFar(s) == \E at \in 2..(s.i - 1) : LabelsFrom(s, at)

LiteralFrom(s, at, open) ==
    /\ LocalAt(at)
    /\ LabelsTo(at, open)
    /\ open = at + 1 \/ text[open - 1] = "."
    /\ text[open] = "["
    /\ \A p \in (open + 1)..(s.i - 1) : text[p] \in Dlit
    /\ s.domain_len = s.i - at - 2

LiteralSoFar(s) ==
    \E at \in 2..(s.i - 1) : \E open \in (at + 1)..(s.i - 1) : LiteralFrom(s, at, open)

AddressSoFar(s) ==
    /\ text # <<>> /\ Len(text) <= MaxTotal
    /\ s.i \in 1..(Len(text) + 1)
    /\ s.state \in LocalStates \cup QuotedStates =>
            s.label_len = 0 /\ s.domain_len = 0 /\ s.local_len <= MaxLocal
    /\ s.state = "LOCAL_START" => s.i = 1 /\ s.local_len = 0
    /\ s.state \in {"LOCAL_ATOM", "LOCAL_DOT"} => AtomsSoFar(s)
    /\ s.state \in QuotedStates => QuotedSoFar(s)
    /\ s.state \in LabelStates => LabelsSoFar(s)
    /\ s.state = "DOMAIN_LITERAL" => LiteralSoFar(s)

AddressIInv ==
    /\ AddressLocals
    /\ scan.result = "NONE" => AddressSoFar(scan)
    /\ scan.result = "OK" => WellFormedAddress(text)
    /\ scan.result \in AddressErrors => ~WellFormedAddress(text)

Accepted == \E at : LocalAt(at) /\ DomainAt(at)

LEMMA AcceptedIs ==
    ASSUME AddressLocals, Len(text) <= MaxTotal
    PROVE  WellFormedAddress(text) <=> Accepted
<1>1. Len(text) \in Nat /\ text \in Seq(AddressBytes)
  BY DEF AddressLocals
<1>2. ASSUME NEW at, LocalAt(at), DomainAt(at) PROVE at \in 2..(Len(text) - 1)
  <2>1. at \in 2..Len(text)
    BY <1>2 DEF LocalAt
  <2>2. at < Len(text)
    BY <1>1, <1>2, <2>1 DEF DomainAt, LabelsAt
  <2>. QED  BY <1>1, <2>1, <2>2
<1>. QED  BY <1>1, <1>2, WellFormedIs DEF Accepted

\* The end of the local part, by what leads its atoms.
LEMMA LeadIs ==
    ASSUME Len(text) \in Nat, NEW at
    PROVE  LocalAt(at) <=>
            /\ at \in 2..Len(text) /\ text[at] = "@"
            /\ \E from \in 1..at, saved \in Nat :
                Lead(from, saved) /\ Atoms(from, at - 1) /\ at - 1 - saved <= MaxLocal
<1>1. ASSUME LocalAt(at)
      PROVE  \E from \in 1..at, saved \in Nat :
                Lead(from, saved) /\ Atoms(from, at - 1) /\ at - 1 - saved <= MaxLocal
  <2>1. at \in Nat /\ at >= 2
    BY <1>1 DEF LocalAt
  <2>2. CASE Atoms(1, at - 1) /\ at - 1 <= MaxLocal
    <3>1. 1 \in 1..(at - 1) /\ 1 \in 1..at /\ at - 1 - 0 = at - 1
      BY <2>1
    <3>2. Lead(1, 0)
      BY <2>2, <3>1, AtomsHaveNoAt DEF Lead
    <3>. QED  BY <2>2, <3>1, <3>2
  <2>3. CASE \E q \in 3..(at - 1) : \E escaped \in SUBSET (3..(q - 1)) :
            /\ Quoted(q, escaped)
            /\ Atoms(q + 1, at - 1)
            /\ at - 3 - Cardinality(escaped) <= MaxLocal
    <3>1. PICK q \in 3..(at - 1) : \E escaped \in SUBSET (3..(q - 1)) :
            /\ Quoted(q, escaped)
            /\ Atoms(q + 1, at - 1)
            /\ at - 3 - Cardinality(escaped) <= MaxLocal
      BY <2>3
    <3>2. PICK escaped \in SUBSET (3..(q - 1)) :
            /\ Quoted(q, escaped)
            /\ Atoms(q + 1, at - 1)
            /\ at - 3 - Cardinality(escaped) <= MaxLocal
      BY <3>1
    <3>3. q \in Nat /\ q + 1 > 3 /\ (q + 1) - 1 = q /\ q + 1 \in 1..at
      BY <2>1
    <3>4. Cardinality(escaped) \in Nat
      <4>1. IsFiniteSet(3..(q - 1)) /\ escaped \subseteq 3..(q - 1)
        BY <3>3, FS_Interval
      <4>. QED  BY <4>1, FS_Subset, FS_CardinalityType
    <3>5. Lead(q + 1, 2 + Cardinality(escaped))
      BY <3>2, <3>3 DEF Lead
    <3>6. 2 + Cardinality(escaped) \in Nat /\ at - 1 - (2 + Cardinality(escaped)) <= MaxLocal
      <4>1. at - 1 - (2 + Cardinality(escaped)) = at - 3 - Cardinality(escaped)
        BY <2>1, <3>4
      <4>. QED  BY <3>2, <3>4, <4>1
    <3>. QED  BY <3>2, <3>3, <3>5, <3>6
  <2>. QED  BY <1>1, <2>2, <2>3 DEF LocalAt
<1>2. ASSUME at \in 2..Len(text), text[at] = "@", NEW from \in 1..at, NEW saved \in Nat,
             Lead(from, saved), Atoms(from, at - 1), at - 1 - saved <= MaxLocal
      PROVE  LocalAt(at)
  <2>1. at \in Nat
    BY <1>2
  <2>2. CASE from = 1 /\ saved = 0
    <3>1. at - 1 <= MaxLocal /\ Atoms(1, at - 1)
      BY <1>2, <2>1, <2>2
    <3>. QED  BY <1>2, <3>1 DEF LocalAt
  <2>3. CASE from > 3 /\ \E escaped : Quoted(from - 1, escaped) /\ saved = 2 + Cardinality(escaped)
    <3>1. PICK escaped : Quoted(from - 1, escaped) /\ saved = 2 + Cardinality(escaped)
      BY <2>3
    <3>2. escaped \subseteq 3..((from - 1) - 1)
      BY <3>1 DEF Quoted, Inside
    <3>3. from - 1 \in Nat /\ (from - 1) + 1 = from /\ from - 1 \in 3..(at - 1)
      BY <2>1, <2>3
    <3>4. Cardinality(escaped) \in Nat
      <4>1. IsFiniteSet(3..((from - 1) - 1))
        BY <3>3, FS_Interval
      <4>. QED  BY <3>2, <4>1, FS_Subset, FS_CardinalityType
    <3>5. at - 3 - Cardinality(escaped) <= MaxLocal
      <4>1. at - 3 - Cardinality(escaped) = at - 1 - saved
        BY <2>1, <3>1, <3>4
      <4>. QED  BY <1>2, <4>1
    <3>6. escaped \in SUBSET (3..((from - 1) - 1))
      BY <3>2
    <3>. DEFINE q == from - 1
    <3>7. q \in 3..(at - 1) /\ escaped \in SUBSET (3..(q - 1)) /\ Quoted(q, escaped)
          /\ Atoms(q + 1, at - 1)
      BY <1>2, <3>1, <3>3, <3>6
    <3>. HIDE DEF q
    <3>. QED  BY <1>2, <3>5, <3>7 DEF LocalAt
  <2>. QED  BY <1>2, <2>2, <2>3 DEF Lead
<1>3. LocalAt(at) => at \in 2..Len(text) /\ text[at] = "@"
  BY DEF LocalAt
<1>. QED  BY <1>1, <1>2, <1>3

LEMMA OneLead ==
    ASSUME NEW f \in Nat, NEW s \in Nat, NEW g \in Nat, NEW t \in Nat, Lead(f, s), Lead(g, t)
    PROVE  f = g /\ s = t
<1>1. ASSUME NEW k \in Nat, k > 3, NEW E, Quoted(k - 1, E)
      PROVE  text[1] = "DQ" /\ k - 1 \in Nat
  BY <1>1 DEF Quoted, Inside
<1>2. CASE text[1] # "DQ"
  BY <1>1, <1>2 DEF Lead
<1>3. CASE text[1] = "DQ"
  <2>1. f > 3 /\ g > 3
    BY <1>3 DEF Lead
  <2>2. PICK E : Quoted(f - 1, E) /\ s = 2 + Cardinality(E)
    BY <1>3 DEF Lead
  <2>3. PICK F : Quoted(g - 1, F) /\ t = 2 + Cardinality(F)
    BY <1>3 DEF Lead
  <2>4. f - 1 = g - 1 /\ E = F
    <3>1. f - 1 \in Nat /\ g - 1 \in Nat
      BY <2>1
    <3>. QED  BY <2>2, <2>3, <3>1, OneQuoted
  <2>. QED  BY <2>2, <2>3, <2>4
<1>. QED  BY <1>2, <1>3

-----------------------------------------------------------------------------
(* Addresses: the states of the local part.                                   *)

\* What a next byte of the local part leaves.
LEMMA LocalIs ==
    ASSUME AddressLocals, scan.result = "NONE", NEW n \in {0, 1},
           NEW state \in LocalStates \cup QuotedStates \cup LabelStates
    PROVE  /\ Local(state, n) \in AddressScans
           /\ Local(state, n).i = scan.i + 1
           /\ Local(state, n).state = state
           /\ Local(state, n).local_len = scan.local_len + n
           /\ Local(state, n).label_len = scan.label_len
           /\ Local(state, n).domain_len = scan.domain_len
           /\ Local(state, n).result =
                IF scan.local_len + n > MaxLocal THEN "LOCAL_TOO_LONG" ELSE "NONE"
<1>1. /\ scan.i \in Nat /\ scan.local_len \in Nat
      /\ scan.i + 1 \in Nat /\ scan.local_len + n \in Nat
  BY DEF AddressLocals, AddressScans
<1>. QED  BY <1>1 DEF Local, AddressLocals, AddressScans, AddressErrors

\* Where the scan is.
LEMMA AddressAt ==
    ASSUME AddressLocals, AddressSoFar(scan)
    PROVE  /\ scan.i \in Nat /\ Len(text) \in Nat /\ scan.i >= 1 /\ scan.i <= Len(text) + 1
           /\ Len(text) # 0 /\ (More <=> scan.i <= Len(text))
           /\ scan.local_len \in Nat /\ scan.label_len \in Nat /\ scan.domain_len \in Nat
           /\ MaxLocal \in Nat /\ MaxLocal >= 1 /\ MaxLabel \in Nat /\ MaxLabel >= 1
           /\ (More => Byte \in AddressBytes)
<1>1. /\ scan.i \in Nat /\ Len(text) \in Nat
      /\ scan.local_len \in Nat /\ scan.label_len \in Nat /\ scan.domain_len \in Nat
  BY DEF AddressLocals, AddressScans
<1>2. scan.i >= 1 /\ scan.i <= Len(text) + 1 /\ Len(text) # 0
  BY <1>1 DEF AddressSoFar, AddressLocals
<1>3. MaxLocal \in Nat /\ MaxLocal >= 1 /\ MaxLabel \in Nat /\ MaxLabel >= 1
  BY AddressAssumption
<1>4. More => Byte \in AddressBytes
  BY <1>1, <1>2 DEF More, Byte, AddressLocals
<1>. QED  BY <1>1, <1>2, <1>3, <1>4 DEF More

\* The first byte.
LEMMA StartIs ==
    ASSUME AddressLocals, AddressSoFar(scan), scan.state = "LOCAL_START"
    PROVE  scan.i = 1 /\ scan.local_len = 0 /\ scan.label_len = 0 /\ scan.domain_len = 0 /\ More
<1>1. scan.i = 1 /\ scan.local_len = 0 /\ scan.label_len = 0 /\ scan.domain_len = 0
  BY DEF AddressSoFar, LocalStates
<1>. QED  BY <1>1, AddressAt

LEMMA StartRefused ==
    ASSUME AddressLocals, AddressSoFar(scan), scan.state = "LOCAL_START",
           Byte \notin Atext \cup {"DQ"}
    PROVE  ~Accepted
<1>. SUFFICES ASSUME NEW at, LocalAt(at) PROVE FALSE
  BY DEF Accepted
<1>1. Len(text) \in Nat /\ text[1] \notin Atext \cup {"DQ"}
  BY StartIs, AddressAt DEF Byte
<1>2. PICK from \in 1..at, saved \in Nat : Lead(from, saved) /\ Atoms(from, at - 1)
  BY <1>1, LeadIs
<1>3. at \in Nat /\ at >= 2
  BY DEF LocalAt
<1>4. CASE from = 1
  <2>1. 1 \in from..(at - 1)
    BY <1>3, <1>4
  <2>2. AtomByte(1)
    BY <1>2, <2>1 DEF Atoms
  <2>. QED  BY <1>1, <2>2 DEF AtomByte
<1>5. CASE from # 1
  <2>1. text[1] = "DQ"
    BY <1>2, <1>5 DEF Lead, Quoted, Inside
  <2>. QED  BY <1>1, <2>1
<1>. QED  BY <1>4, <1>5

LEMMA StartOfAtom ==
    ASSUME AddressLocals, AddressSoFar(scan), scan.state = "LOCAL_START", scan.result = "NONE",
           Byte \in Atext
    PROVE  AddressSoFar(Local("LOCAL_ATOM", 1)) /\ scan.local_len + 1 <= MaxLocal
<1>. DEFINE s == Local("LOCAL_ATOM", 1)
<1>1. /\ scan.i = 1 /\ text[1] \in Atext /\ Len(text) \in Nat /\ Len(text) >= 1 /\ MaxLocal >= 1
      /\ text # <<>> /\ Len(text) <= MaxTotal
  BY StartIs, AddressAt DEF Byte, AddressSoFar
<1>2. s.i = 2 /\ s.state = "LOCAL_ATOM" /\ s.local_len = 1 /\ s.label_len = 0 /\ s.domain_len = 0
  BY <1>1, StartIs, LocalIs DEF LocalStates
<1>. HIDE DEF s
<1>3. Lead(1, 0)
  BY <1>1 DEF Lead, Atext
<1>4. \A p \in 1..(2 - 1) : AtomByte(p)
  BY <1>1 DEF AtomByte, Atext
<1>5. AtomsSoFar(s)
  <2>1. 1 \in 1..s.i /\ 0 \in Nat /\ s.local_len = s.i - 1 - 0 /\ s.i - 1 = 1 /\ s.i > 1
    BY <1>2
  <2>2. text[s.i - 1] # "."
    BY <1>1, <2>1 DEF Atext
  <2>. QED  BY <1>2, <1>3, <1>4, <2>1, <2>2 DEF AtomsSoFar
<1>6. AddressSoFar(s)
  BY <1>1, <1>2, <1>5 DEF AddressSoFar, QuotedStates, LabelStates
<1>. QED  BY <1>1, <1>6, StartIs DEF s

LEMMA StartOfQuoted ==
    ASSUME AddressLocals, AddressSoFar(scan), scan.state = "LOCAL_START", scan.result = "NONE",
           Byte = "DQ"
    PROVE  AddressSoFar(Local("LOCAL_QUOTED_START", 0))
<1>. DEFINE s == Local("LOCAL_QUOTED_START", 0)
<1>1. /\ scan.i = 1 /\ text[1] = "DQ" /\ Len(text) \in Nat /\ Len(text) >= 1 /\ MaxLocal >= 1
      /\ text # <<>> /\ Len(text) <= MaxTotal
  BY StartIs, AddressAt DEF Byte, AddressSoFar
<1>2. s.i = 2 /\ s.state = "LOCAL_QUOTED_START" /\ s.local_len = 0 /\ s.label_len = 0
      /\ s.domain_len = 0
  BY <1>1, StartIs, LocalIs DEF QuotedStates
<1>. HIDE DEF s
<1>3. Inside(2, {}) /\ ~Escaping(2, {}) /\ Cardinality({}) = 0
  BY <1>1, FS_EmptySet DEF Inside, Escaping
<1>4. QuotedSoFar(s)
  BY <1>2, <1>3 DEF QuotedSoFar
<1>5. s.i \in 1..(Len(text) + 1) /\ s.local_len <= MaxLocal
  BY <1>1, <1>2, AddressAt
<1>6. AddressSoFar(s)
  BY <1>1, <1>2, <1>4, <1>5 DEF AddressSoFar, QuotedStates, LabelStates
<1>. QED  BY <1>6 DEF s

\* Among the atoms, the local part cannot have ended yet, and it goes on with this
\* byte if that is not the "@".
AtomStates == {"LOCAL_ATOM", "LOCAL_DOT"}

LEMMA AtomForced ==
    ASSUME AddressLocals, AddressSoFar(scan), scan.state \in AtomStates, NEW at, LocalAt(at)
    PROVE  /\ More
           /\ Byte = "@" => scan.state = "LOCAL_ATOM"
           /\ Byte # "@" => AtomByte(scan.i) /\ scan.local_len + 1 <= MaxLocal
<1>1. PICK from \in 1..scan.i, saved \in Nat :
        /\ Lead(from, saved)
        /\ \A p \in from..(scan.i - 1) : AtomByte(p)
        /\ scan.local_len = scan.i - 1 - saved
  BY DEF AddressSoFar, AtomStates, AtomsSoFar
<1>2. /\ scan.i > 1 /\ (text[scan.i - 1] = "." <=> scan.state = "LOCAL_DOT")
      /\ scan.i \in Nat /\ Len(text) \in Nat /\ (More <=> scan.i <= Len(text))
  BY AddressAt DEF AddressSoFar, AtomStates, AtomsSoFar
<1>3. PICK f \in 1..at, t \in Nat : Lead(f, t) /\ Atoms(f, at - 1) /\ at - 1 - t <= MaxLocal
  BY <1>2, LeadIs
<1>4. at \in Nat /\ at >= 2 /\ at <= Len(text) /\ text[at] = "@"
  BY <1>2 DEF LocalAt
<1>5. f = from /\ t = saved
  <2>1. f \in Nat /\ from \in Nat
    BY <1>1, <1>2, <1>3, <1>4
  <2>. QED  BY <1>1, <1>3, <2>1, OneLead
<1>6. at >= scan.i
  <2>. SUFFICES ASSUME at < scan.i PROVE FALSE
    BY <1>2, <1>4
  <2>1. at \in from..(scan.i - 1)
    BY <1>2, <1>3, <1>4, <1>5
  <2>. QED  BY <1>1, <1>4, <2>1 DEF AtomByte, Atext
<1>7. ASSUME Byte = "@" PROVE scan.state = "LOCAL_ATOM"
  <2>1. CASE at = scan.i
    <3>1. text[at - 1] # "."
      <4>1. CASE from <= at - 1
        BY <1>3, <1>5, <4>1 DEF Atoms
      <4>2. CASE ~(from <= at - 1)
        <5>1. from = at /\ from # 1
          BY <1>1, <1>2, <1>4, <2>1, <4>2
        <5>. QED  BY <1>1, <5>1 DEF Lead, Quoted
      <4>. QED  BY <4>1, <4>2
    <3>. QED  BY <1>2, <2>1, <3>1 DEF AtomStates
  <2>2. CASE at # scan.i
    <3>1. scan.i \in from..(at - 1)
      BY <1>1, <1>2, <1>4, <1>6, <2>2
    <3>2. AtomByte(scan.i)
      BY <1>3, <1>5, <3>1 DEF Atoms
    <3>. QED  BY <1>7, <3>2 DEF AtomByte, Atext, Byte
  <2>. QED  BY <2>1, <2>2
<1>8. ASSUME Byte # "@" PROVE AtomByte(scan.i) /\ scan.local_len + 1 <= MaxLocal
  <2>1. at # scan.i
    BY <1>4, <1>8 DEF Byte
  <2>2. scan.i \in from..(at - 1)
    BY <1>1, <1>2, <1>4, <1>6, <2>1
  <2>3. AtomByte(scan.i)
    BY <1>3, <1>5, <2>2 DEF Atoms
  <2>4. MaxLocal \in Nat
    BY AddressAt
  <2>5. scan.local_len + 1 <= MaxLocal
    BY <1>1, <1>2, <1>3, <1>4, <1>5, <1>6, <2>1, <2>4
  <2>. QED  BY <2>3, <2>5
<1>. QED  BY <1>2, <1>4, <1>6, <1>7, <1>8

LEMMA AtomMovesOn ==
    ASSUME AddressLocals, AddressSoFar(scan), scan.state \in AtomStates, scan.result = "NONE",
           More, NEW state \in AtomStates, AtomByte(scan.i), Byte = "." <=> state = "LOCAL_DOT",
           scan.local_len + 1 <= MaxLocal
    PROVE  AddressSoFar(Local(state, 1))
<1>. DEFINE s == Local(state, 1)
<1>1. PICK from \in 1..scan.i, saved \in Nat :
        /\ Lead(from, saved)
        /\ \A p \in from..(scan.i - 1) : AtomByte(p)
        /\ scan.local_len = scan.i - 1 - saved
  BY DEF AddressSoFar, AtomStates, AtomsSoFar
<1>2. /\ scan.i > 1 /\ scan.i \in Nat /\ Len(text) \in Nat /\ scan.i <= Len(text)
      /\ text # <<>> /\ Len(text) <= MaxTotal /\ scan.label_len = 0 /\ scan.domain_len = 0
  BY AddressAt DEF AddressSoFar, AtomStates, AtomsSoFar, LocalStates
<1>3. /\ s.i = scan.i + 1 /\ s.state = state /\ s.local_len = scan.local_len + 1
      /\ s.label_len = 0 /\ s.domain_len = 0
  BY <1>2, LocalIs DEF AtomStates, LocalStates
<1>. HIDE DEF s
<1>4. AtomsSoFar(s)
  <2>1. s.i > 1 /\ s.i - 1 = scan.i /\ from \in 1..s.i /\ s.local_len = s.i - 1 - saved
    BY <1>1, <1>2, <1>3
  <2>2. text[s.i - 1] = "." <=> s.state = "LOCAL_DOT"
    BY <1>3, <2>1 DEF Byte
  <2>3. ASSUME NEW p \in from..scan.i PROVE AtomByte(p)
    <3>1. p \in from..(scan.i - 1) \/ p = scan.i
      BY <1>1, <1>2
    <3>. QED  BY <1>1, <3>1
  <2>. QED  BY <1>1, <2>1, <2>2, <2>3 DEF AtomsSoFar
<1>5. AddressSoFar(s)
  BY <1>2, <1>3, <1>4 DEF AddressSoFar, QuotedStates, LabelStates, AtomStates
<1>. QED  BY <1>5 DEF s

\* The "@".
LEMMA DomainStarts ==
    ASSUME AddressLocals, AddressSoFar(scan), scan.state = "LOCAL_ATOM", scan.result = "NONE",
           More, Byte = "@"
    PROVE  AddressSoFar(Local("DOMAIN_LABEL_START", 0))
<1>. DEFINE s == Local("DOMAIN_LABEL_START", 0)
            at == scan.i
<1>1. PICK from \in 1..scan.i, saved \in Nat :
        /\ Lead(from, saved)
        /\ \A p \in from..(scan.i - 1) : AtomByte(p)
        /\ scan.local_len = scan.i - 1 - saved
  BY DEF AddressSoFar, AtomsSoFar
<1>2. /\ scan.i > 1 /\ scan.i \in Nat /\ Len(text) \in Nat /\ scan.i <= Len(text)
      /\ text # <<>> /\ Len(text) <= MaxTotal /\ scan.label_len = 0 /\ scan.domain_len = 0
      /\ text[scan.i - 1] # "." /\ scan.local_len <= MaxLocal
  BY AddressAt DEF AddressSoFar, AtomsSoFar, LocalStates
<1>3. /\ s.i = scan.i + 1 /\ s.state = "DOMAIN_LABEL_START" /\ s.label_len = 0 /\ s.domain_len = 0
  BY <1>2, LocalIs DEF LabelStates
<1>. HIDE DEF s
<1>4. LocalAt(at)
  <2>1. at \in 2..Len(text) /\ text[at] = "@"
    BY <1>2 DEF Byte
  <2>2. Atoms(from, at - 1)
    BY <1>1, <1>2 DEF Atoms
  <2>3. at - 1 - saved <= MaxLocal
    BY <1>1, <1>2
  <2>. QED  BY <1>1, <1>2, <2>1, <2>2, <2>3, LeadIs
<1>5. LabelsSoFar(s)
  <2>1. MaxLabel \in Nat
    BY AddressAt
  <2>2. /\ at \in 2..(s.i - 1) /\ s.domain_len = s.i - at - 1
        /\ s.label_len <= MaxLabel /\ s.label_len <= s.domain_len
        /\ s.i - s.label_len = at + 1
        /\ \A k \in (s.i - s.label_len)..(s.i - 1) : text[k] # "."
    BY <1>2, <1>3, <2>1
  <2>3. LabelsTo(at, s.i)
    BY <1>2, <1>3, <2>1 DEF LabelsTo
  <2>. HIDE DEF at
  <2>. QED  BY <1>3, <1>4, <2>2, <2>3 DEF LabelsSoFar, LabelsFrom
<1>6. s.i \in 1..(Len(text) + 1)
  BY <1>2, <1>3
<1>7. AddressSoFar(s)
  BY <1>2, <1>3, <1>5, <1>6 DEF AddressSoFar, QuotedStates, LabelStates, LocalStates
<1>. QED  BY <1>7 DEF s

-----------------------------------------------------------------------------
(* Addresses: the states of a quoted string.                                  *)

LEMMA EscapedIsFinite ==
    ASSUME NEW j \in Nat, NEW escaped, Inside(j, escaped)
    PROVE  IsFiniteSet(escaped) /\ Cardinality(escaped) \in Nat
<1>1. IsFiniteSet(3..(j - 1)) /\ escaped \subseteq 3..(j - 1)
  BY FS_Interval DEF Inside
<1>. QED  BY <1>1, FS_Subset, FS_CardinalityType

\* What has been read of a quoted string is at least what counts of it.
LEMMA QuotedForced ==
    ASSUME AddressLocals, NEW j \in Nat, j > 1, NEW E, Inside(j, E), NEW at, LocalAt(at)
    PROVE  /\ \E q \in j..(at - 1) : (\E F : Quoted(q, F)) /\ (q = j => ~Escaping(j, E))
           /\ j - 2 - Cardinality(E) <= MaxLocal /\ at <= Len(text)
<1>1. Len(text) \in Nat /\ text[1] = "DQ" /\ MaxLocal \in Nat
  BY AddressAssumption DEF AddressLocals, Inside
<1>2. at \in Nat /\ at <= Len(text)
  BY <1>1 DEF LocalAt
<1>3. PICK from \in 1..at, saved \in Nat : Lead(from, saved) /\ at - 1 - saved <= MaxLocal
  BY <1>1, LeadIs
<1>4. from > 3
  BY <1>1, <1>3 DEF Lead
<1>5. PICK F : Quoted(from - 1, F) /\ saved = 2 + Cardinality(F)
  BY <1>1, <1>3 DEF Lead
<1>. DEFINE q == from - 1
<1>6. q \in Nat /\ q <= at - 1
  BY <1>2, <1>3, <1>4
<1>. HIDE DEF q
<1>7. Quoted(q, F)
  BY <1>5 DEF q
<1>8. q >= j /\ (q = j => ~Escaping(j, E))
  BY <1>6, <1>7, NoQuoteInside
<1>9. Cardinality(F) <= Cardinality(E) + (q - j)
  <2>1. Inside(q, F)
    BY <1>7 DEF Quoted
  <2>2. \A k \in 2..(j - 1) : k \in E <=> k \in F
    BY <1>6, <1>8, <2>1, EscapesAgree
  <2>3. F \subseteq E \cup (j..(q - 1))
    <3>1. \A k \in F : k \in 2..(j - 1) \/ k \in j..(q - 1)
      BY <1>6, <2>1 DEF Inside
    <3>. QED  BY <2>2, <3>1
  <2>4. IsFiniteSet(E) /\ Cardinality(E) \in Nat /\ Cardinality(F) \in Nat
    BY <1>6, <2>1, EscapedIsFinite
  <2>5. IsFiniteSet(j..(q - 1)) /\ Cardinality(j..(q - 1)) = q - j
    <3>1. Cardinality(j..(q - 1)) = IF j > q - 1 THEN 0 ELSE (q - 1) - j + 1
      BY <1>6, FS_Interval
    <3>2. IsFiniteSet(j..(q - 1))
      BY <1>6, FS_Interval
    <3>. QED  BY <1>6, <1>8, <3>1, <3>2
  <2>6. /\ IsFiniteSet(E \cup (j..(q - 1)))
        /\ Cardinality(E \cup (j..(q - 1))) <= Cardinality(E) + Cardinality(j..(q - 1))
    <3>1. E \cap (j..(q - 1)) = {}
      BY DEF Inside
    <3>2. /\ IsFiniteSet(E \cup (j..(q - 1)))
          /\ Cardinality(E \cup (j..(q - 1))) =
                Cardinality(E) + Cardinality(j..(q - 1)) - Cardinality(E \cap (j..(q - 1)))
      BY <2>4, <2>5, FS_Union
    <3>3. Cardinality(E \cap (j..(q - 1))) = 0
      BY <3>1, FS_EmptySet
    <3>4. q - j \in Nat
      BY <1>6, <1>8
    <3>. QED  BY <2>4, <2>5, <3>2, <3>3, <3>4
  <2>7. Cardinality(F) <= Cardinality(E \cup (j..(q - 1)))
    BY <2>3, <2>6, FS_Subset
  <2>8. Cardinality(E \cup (j..(q - 1))) \in Nat
    BY <2>6, FS_CardinalityType
  <2>9. q \in Nat /\ j \in Nat
    BY <1>6
  <2>. QED  BY ONLY <2>4, <2>5, <2>6, <2>7, <2>8, <2>9
<1>10. j - 2 - Cardinality(E) <= MaxLocal
  <2>1. Cardinality(E) \in Nat /\ Cardinality(F) \in Nat
    BY <1>6, <1>7, EscapedIsFinite DEF Quoted
  <2>2. at - 1 - (2 + Cardinality(F)) <= MaxLocal
    BY <1>3, <1>5
  <2>. QED  BY ONLY <1>1, <1>2, <1>6, <1>8, <1>9, <2>1, <2>2
<1>11. q \in j..(at - 1)
  BY <1>2, <1>6, <1>8
<1>. QED  BY <1>2, <1>7, <1>8, <1>10, <1>11

\* One more byte that is not escaped, one that is.
LEMMA InsideByte ==
    ASSUME NEW i \in Nat, i > 1, NEW E, Inside(i, E), ~Escaping(i, E),
           text[i] \in Qtext \cup {"\\"}
    PROVE  Inside(i + 1, E) /\ (Escaping(i + 1, E) <=> text[i] = "\\")
<1>1. E \subseteq 3..(i - 1) /\ i \notin E /\ (i + 1) - 1 = i
  BY DEF Inside
<1>2. ASSUME NEW k \in 2..i
      PROVE  IF k \in E THEN text[k] # "CTL" /\ text[k - 1] = "\\" /\ k - 1 \notin E
             ELSE text[k] \in Qtext \/ (text[k] = "\\" /\ (k + 1 \in E \/ k + 1 = i + 1))
  <2>1. CASE k = i
    BY <1>1, <2>1
  <2>2. CASE k # i
    <3>1. k \in 2..(i - 1) /\ (k + 1 = i => k = i - 1) /\ i > 2
      BY <2>2
    <3>2. ~(k + 1 = i /\ text[k] = "\\" /\ k \notin E)
      BY <3>1 DEF Escaping
    <3>. QED  BY <3>1, <3>2 DEF Inside
  <2>. QED  BY <2>1, <2>2
<1>3. E \subseteq 3..((i + 1) - 1)
  BY <1>1
<1>4. Inside(i + 1, E)
  BY <1>1, <1>2, <1>3 DEF Inside
<1>. QED  BY <1>1, <1>4 DEF Escaping

LEMMA InsideEscaped ==
    ASSUME NEW i \in Nat, i > 1, NEW E, Inside(i, E), Escaping(i, E), text[i] # "CTL"
    PROVE  /\ Inside(i + 1, E \cup {i}) /\ ~Escaping(i + 1, E \cup {i})
           /\ Cardinality(E \cup {i}) = Cardinality(E) + 1
<1>1. E \subseteq 3..(i - 1) /\ i \notin E /\ (i + 1) - 1 = i /\ i > 2
      /\ text[i - 1] = "\\" /\ i - 1 \notin E /\ i - 1 # i
  BY DEF Inside, Escaping
<1>. DEFINE F == E \cup {i}
<1>2. ASSUME NEW k \in 2..i
      PROVE  IF k \in F THEN text[k] # "CTL" /\ text[k - 1] = "\\" /\ k - 1 \notin F
             ELSE text[k] \in Qtext \/ (text[k] = "\\" /\ (k + 1 \in F \/ k + 1 = i + 1))
  <2>1. CASE k = i
    BY <1>1, <2>1
  <2>2. CASE k # i
    <3>1. k \in 2..(i - 1) /\ k - 1 # i /\ k # i
      BY <2>2
    <3>. QED  BY <3>1 DEF Inside
  <2>. QED  BY <2>1, <2>2
<1>3. F \subseteq 3..((i + 1) - 1)
  BY <1>1
<1>4. Inside(i + 1, F)
  <2>. HIDE DEF F
  <2>. QED  BY <1>1, <1>2, <1>3 DEF Inside
<1>5. Cardinality(F) = Cardinality(E) + 1
  BY <1>1, EscapedIsFinite, FS_AddElement
<1>. QED  BY <1>1, <1>4, <1>5 DEF Escaping

\* The quoted string as it is known.
LEMMA QuotedIs ==
    ASSUME AddressLocals, AddressSoFar(scan), scan.state \in QuotedStates
    PROVE  /\ \E E : /\ Inside(scan.i, E) /\ Cardinality(E) \in Nat
                     /\ Escaping(scan.i, E) <=> scan.state = "LOCAL_QUOTED_ESCAPE"
                     /\ scan.local_len = scan.i - 2 - Cardinality(E)
                            - (IF scan.state = "LOCAL_QUOTED_ESCAPE" THEN 1 ELSE 0)
           /\ scan.i > 1 /\ (scan.i = 2 <=> scan.state = "LOCAL_QUOTED_START")
           /\ scan.label_len = 0 /\ scan.domain_len = 0 /\ scan.local_len <= MaxLocal
           /\ text # <<>> /\ Len(text) <= MaxTotal
<1>1. scan.i \in Nat
  BY AddressAt
<1>. QED  BY <1>1, EscapedIsFinite DEF AddressSoFar, QuotedSoFar

\* No local part comes of a quote that begins the string, a control byte in it, or
\* the end of the input.
LEMMA QuotedRefused ==
    ASSUME AddressLocals, AddressSoFar(scan), scan.state \in QuotedStates,
           \/ ~More
           \/ Byte = "CTL"
           \/ Byte = "DQ" /\ scan.state = "LOCAL_QUOTED_START"
    PROVE  ~Accepted
<1>. SUFFICES ASSUME NEW at, LocalAt(at) PROVE FALSE
  BY DEF Accepted
<1>1. scan.i \in Nat /\ Len(text) \in Nat /\ (More <=> scan.i <= Len(text)) /\ scan.i > 1
  BY AddressAt, QuotedIs
<1>2. PICK E : Inside(scan.i, E)
  BY QuotedIs
<1>0. PICK q \in scan.i..(at - 1) : \E F : Quoted(q, F)
  BY <1>1, <1>2, QuotedForced
<1>3. PICK F : Quoted(q, F)
  BY <1>0
<1>4. at \in Nat /\ at <= Len(text)
  BY <1>1 DEF LocalAt
<1>5. q \in Nat /\ q >= scan.i /\ q <= at - 1 /\ Inside(q, F) /\ text[q] = "DQ" /\ q > 2
  BY <1>1, <1>3, <1>4 DEF Quoted
<1>6. CASE ~More
  BY <1>1, <1>4, <1>5, <1>6
<1>7. CASE Byte = "CTL"
  <2>1. scan.i \in 2..(q - 1) /\ text[scan.i] = "CTL"
    BY <1>1, <1>5, <1>7 DEF Byte
  <2>. QED  BY <1>5, <2>1 DEF Inside, Qtext
<1>8. CASE Byte = "DQ" /\ scan.state = "LOCAL_QUOTED_START"
  <2>1. scan.i = 2 /\ 2 \in 2..(q - 1) /\ text[2] = "DQ" /\ 2 \notin F
    BY <1>1, <1>5, <1>8, QuotedIs DEF Byte, Inside
  <2>. QED  BY <1>5, <2>1 DEF Inside, Qtext
<1>. QED  BY <1>6, <1>7, <1>8

\* The byte that is read next: state and count fit what is inside then.
LEMMA QuotedTo ==
    ASSUME AddressLocals, AddressSoFar(scan), scan.result = "NONE",
           scan.state \in QuotedStates, More,
           NEW state \in {"LOCAL_QUOTED_CHAR", "LOCAL_QUOTED_ESCAPE"}, NEW n \in {0, 1},
           NEW E, Inside(scan.i + 1, E),
           Escaping(scan.i + 1, E) <=> state = "LOCAL_QUOTED_ESCAPE",
           scan.local_len + n = scan.i - 1 - Cardinality(E) - (1 - n),
           n = 1 <=> state = "LOCAL_QUOTED_CHAR"
    PROVE  /\ scan.local_len + n > MaxLocal => ~Accepted
           /\ scan.local_len + n <= MaxLocal => AddressSoFar(Local(state, n))
<1>. DEFINE s == Local(state, n)
            m == scan.local_len + n
<1>1. /\ scan.i \in Nat /\ Len(text) \in Nat /\ scan.i <= Len(text) /\ scan.i > 1
      /\ scan.label_len = 0 /\ scan.domain_len = 0 /\ text # <<>> /\ Len(text) <= MaxTotal
      /\ MaxLocal \in Nat /\ scan.local_len \in Nat /\ m \in Nat
      /\ scan.local_len <= MaxLocal
  <2>1. /\ scan.i \in Nat /\ Len(text) \in Nat /\ scan.i <= Len(text)
        /\ MaxLocal \in Nat /\ scan.local_len \in Nat
    BY AddressAt
  <2>2. /\ scan.i > 1 /\ scan.label_len = 0 /\ scan.domain_len = 0 /\ text # <<>>
        /\ Len(text) <= MaxTotal /\ scan.local_len <= MaxLocal
    BY AddressAt, QuotedIs
  <2>. QED  BY <2>1, <2>2
<1>2. /\ s.i = scan.i + 1 /\ s.state = state /\ s.local_len = m
      /\ s.label_len = 0 /\ s.domain_len = 0
  BY <1>1, LocalIs DEF QuotedStates
<1>. HIDE DEF s, m
<1>3. ASSUME m > MaxLocal, NEW at, LocalAt(at) PROVE FALSE
  <2>1. n = 1
    BY <1>1, <1>3 DEF m
  <2>2. (scan.i + 1) - 2 - Cardinality(E) <= MaxLocal
    BY <1>1, <1>3, QuotedForced
  <2>3. Cardinality(E) \in Nat
    BY <1>1, EscapedIsFinite
  <2>4. m = scan.i - 1 - Cardinality(E)
    BY <1>1, <2>1, <2>3 DEF m
  <2>. QED  BY <1>1, <1>3, <2>2, <2>3, <2>4
<1>4. ASSUME m <= MaxLocal PROVE AddressSoFar(s)
  <2>1. /\ s.i > 1 /\ s.i # 2 /\ s.i \in 1..(Len(text) + 1)
        /\ s.state # "LOCAL_QUOTED_START" /\ state \in QuotedStates
    BY <1>1, <1>2 DEF QuotedStates
  <2>2. s.local_len = s.i - 2 - Cardinality(E)
                        - (IF s.state = "LOCAL_QUOTED_ESCAPE" THEN 1 ELSE 0)
    <3>1. Cardinality(E) \in Nat
      BY <1>1, EscapedIsFinite
    <3>2. 1 - n = IF state = "LOCAL_QUOTED_ESCAPE" THEN 1 ELSE 0
      OBVIOUS
    <3>3. n \in {0, 1} /\ scan.i \in Nat
      BY <1>1
    <3>4. m = scan.i - 1 - Cardinality(E) - (1 - n)
      BY DEF m
    <3>5. m = (scan.i + 1) - 2 - Cardinality(E) - (1 - n)
      BY ONLY <3>1, <3>3, <3>4
    <3>. QED  BY <1>2, <3>2, <3>5
  <2>3. QuotedSoFar(s)
    BY <1>2, <2>1, <2>2 DEF QuotedSoFar
  <2>4. s.local_len <= MaxLocal /\ state \in {"LOCAL_QUOTED_CHAR", "LOCAL_QUOTED_ESCAPE"}
    BY <1>2, <1>4
  <2>. QED  BY <1>1, <1>2, <2>1, <2>3, <2>4 DEF AddressSoFar, LabelStates
<1>. QED  BY <1>3, <1>4 DEF s, m, Accepted

LEMMA QuotedCharGoesOn ==
    ASSUME AddressLocals, AddressSoFar(scan), scan.result = "NONE", More,
           scan.state \in {"LOCAL_QUOTED_START", "LOCAL_QUOTED_CHAR"},
           NEW n \in {0, 1}, NEW state \in {"LOCAL_QUOTED_CHAR", "LOCAL_QUOTED_ESCAPE"},
           \/ Byte \in Qtext /\ n = 1 /\ state = "LOCAL_QUOTED_CHAR"
           \/ Byte = "\\" /\ n = 0 /\ state = "LOCAL_QUOTED_ESCAPE"
    PROVE  /\ scan.local_len + n > MaxLocal => ~Accepted
           /\ scan.local_len + n <= MaxLocal => AddressSoFar(Local(state, n))
<1>1. scan.state \in QuotedStates /\ scan.state # "LOCAL_QUOTED_ESCAPE"
  BY DEF QuotedStates
<1>2. scan.i \in Nat /\ scan.i > 1 /\ scan.local_len \in Nat
  BY <1>1, AddressAt, QuotedIs
<1>3. PICK E : /\ Inside(scan.i, E) /\ Cardinality(E) \in Nat /\ ~Escaping(scan.i, E)
               /\ scan.local_len = scan.i - 2 - Cardinality(E)
  <2>1. PICK E : /\ Inside(scan.i, E) /\ Cardinality(E) \in Nat
                 /\ Escaping(scan.i, E) <=> scan.state = "LOCAL_QUOTED_ESCAPE"
                 /\ scan.local_len = scan.i - 2 - Cardinality(E)
                        - (IF scan.state = "LOCAL_QUOTED_ESCAPE" THEN 1 ELSE 0)
    BY <1>1, QuotedIs
  <2>2. scan.local_len = scan.i - 2 - Cardinality(E)
    BY <1>1, <1>2, <2>1
  <2>. QED  BY <1>1, <2>1, <2>2
<1>4. Byte \in Qtext \cup {"\\"} /\ (Byte = "\\" <=> state = "LOCAL_QUOTED_ESCAPE")
      /\ (n = 1 <=> state = "LOCAL_QUOTED_CHAR")
  BY DEF Qtext
<1>5. Inside(scan.i + 1, E) /\ (Escaping(scan.i + 1, E) <=> state = "LOCAL_QUOTED_ESCAPE")
  BY <1>2, <1>3, <1>4, InsideByte DEF Byte
<1>6. scan.local_len + n = scan.i - 1 - Cardinality(E) - (1 - n)
  BY <1>2, <1>3
<1>. QED  BY <1>1, <1>4, <1>5, <1>6, QuotedTo

LEMMA QuotedEscapeGoesOn ==
    ASSUME AddressLocals, AddressSoFar(scan), scan.result = "NONE", More,
           scan.state = "LOCAL_QUOTED_ESCAPE", Byte # "CTL"
    PROVE  /\ scan.local_len + 1 > MaxLocal => ~Accepted
           /\ scan.local_len + 1 <= MaxLocal => AddressSoFar(Local("LOCAL_QUOTED_CHAR", 1))
<1>1. scan.state \in QuotedStates
  BY DEF QuotedStates
<1>2. scan.i \in Nat /\ scan.i > 1 /\ scan.local_len \in Nat
  BY <1>1, AddressAt, QuotedIs
<1>3. PICK E : /\ Inside(scan.i, E) /\ Cardinality(E) \in Nat /\ Escaping(scan.i, E)
               /\ scan.local_len = scan.i - 2 - Cardinality(E) - 1
  BY <1>1, QuotedIs
<1>. DEFINE F == E \cup {scan.i}
<1>4. /\ Inside(scan.i + 1, F) /\ ~Escaping(scan.i + 1, F)
      /\ Cardinality(F) = Cardinality(E) + 1
  BY <1>2, <1>3, InsideEscaped DEF Byte
<1>. HIDE DEF F
<1>5. scan.local_len + 1 = scan.i - 1 - Cardinality(F) - (1 - 1)
  BY <1>2, <1>3, <1>4
<1>. QED  BY <1>1, <1>4, <1>5, QuotedTo

\* The closing quote.
LEMMA QuotedCloses ==
    ASSUME AddressLocals, AddressSoFar(scan), scan.result = "NONE", More,
           scan.state = "LOCAL_QUOTED_CHAR", Byte = "DQ"
    PROVE  AddressSoFar(Local("LOCAL_ATOM", 0))
<1>. DEFINE s == Local("LOCAL_ATOM", 0)
<1>1. scan.state \in QuotedStates
  BY DEF QuotedStates
<1>2. /\ scan.i \in Nat /\ Len(text) \in Nat /\ scan.i <= Len(text) /\ scan.i > 2
      /\ scan.label_len = 0 /\ scan.domain_len = 0 /\ text # <<>> /\ Len(text) <= MaxTotal
      /\ scan.local_len \in Nat /\ scan.local_len <= MaxLocal
  BY <1>1, AddressAt, QuotedIs
<1>3. PICK E : /\ Inside(scan.i, E) /\ Cardinality(E) \in Nat /\ ~Escaping(scan.i, E)
               /\ scan.local_len = scan.i - 2 - Cardinality(E)
  <2>1. PICK E : /\ Inside(scan.i, E) /\ Cardinality(E) \in Nat
                 /\ Escaping(scan.i, E) <=> scan.state = "LOCAL_QUOTED_ESCAPE"
                 /\ scan.local_len = scan.i - 2 - Cardinality(E)
                        - (IF scan.state = "LOCAL_QUOTED_ESCAPE" THEN 1 ELSE 0)
    BY <1>1, QuotedIs
  <2>2. scan.local_len = scan.i - 2 - Cardinality(E)
    BY <1>2, <2>1
  <2>. QED  BY <2>1, <2>2
<1>4. /\ s.i = scan.i + 1 /\ s.state = "LOCAL_ATOM" /\ s.local_len = scan.local_len
      /\ s.label_len = 0 /\ s.domain_len = 0
  BY <1>2, LocalIs DEF LocalStates
<1>. HIDE DEF s
<1>. DEFINE from == scan.i + 1
            saved == 2 + Cardinality(E)
<1>5. from > 3 /\ from - 1 = scan.i /\ saved \in Nat /\ from \in 1..s.i /\ s.i > 1
      /\ s.i - 1 = scan.i /\ s.local_len = s.i - 1 - saved /\ s.i \in 1..(Len(text) + 1)
  <2>1. /\ scan.i \in Nat /\ scan.i > 2 /\ Len(text) \in Nat /\ scan.i <= Len(text)
        /\ Cardinality(E) \in Nat /\ s.i = scan.i + 1
        /\ s.local_len = scan.i - 2 - Cardinality(E)
    BY <1>2, <1>3, <1>4
  <2>. QED  BY ONLY <2>1
<1>6. text[scan.i] = "DQ"
  BY DEF Byte
<1>7. Lead(from, saved)
  <2>1. Quoted(scan.i, E)
    BY <1>2, <1>3, <1>6 DEF Quoted
  <2>2. Quoted(from - 1, E)
    BY <1>5, <2>1
  <2>. QED  BY <1>5, <2>2, Zenon DEF Lead
<1>8. \A p \in from..(s.i - 1) : AtomByte(p)
  BY <1>2, <1>4
<1>9. AtomsSoFar(s)
  <2>. HIDE DEF from, saved
  <2>. QED  BY <1>4, <1>5, <1>6, <1>7, <1>8 DEF AtomsSoFar
<1>10. AddressSoFar(s)
  BY <1>2, <1>4, <1>5, <1>9 DEF AddressSoFar, QuotedStates, LabelStates
<1>. QED  BY <1>10 DEF s

-----------------------------------------------------------------------------
(* Addresses: the states of the domain.                                       *)

LEMMA DomainIs ==
    ASSUME AddressLocals, scan.result = "NONE", NEW n \in {0, 1}, NEW label_len \in Nat,
           NEW state \in LabelStates \cup {"DOMAIN_LITERAL"}
    PROVE  /\ Domain(state, label_len, n) \in AddressScans
           /\ Domain(state, label_len, n).i = scan.i + 1
           /\ Domain(state, label_len, n).state = state
           /\ Domain(state, label_len, n).label_len = label_len
           /\ Domain(state, label_len, n).domain_len = scan.domain_len + n
           /\ Domain(state, label_len, n).result = "NONE"
<1>1. scan.i + 1 \in Nat /\ scan.domain_len + n \in Nat
  BY DEF AddressLocals, AddressScans
<1>. QED  BY <1>1 DEF Domain, AddressLocals, AddressScans

\* A record in a state of the domain.
LEMMA DomainSoFar ==
    ASSUME AddressLocals, AddressSoFar(scan), More, NEW s, s.i = scan.i + 1,
           \/ s.state \in LabelStates /\ LabelsSoFar(s)
           \/ s.state = "DOMAIN_LITERAL" /\ LiteralSoFar(s)
    PROVE  AddressSoFar(s)
<1>1. s.i \in 1..(Len(text) + 1) /\ text # <<>> /\ Len(text) <= MaxTotal
  BY AddressAt DEF AddressSoFar
<1>. QED  BY <1>1 DEF AddressSoFar, LocalStates, QuotedStates, LabelStates

LEMMA LabelsKnown ==
    ASSUME AddressLocals, AddressSoFar(scan), NEW at \in 2..(scan.i - 1), LabelsFrom(scan, at)
    PROVE  /\ at \in Nat /\ at >= 2 /\ at < scan.i
           /\ scan.label_len <= scan.domain_len /\ scan.domain_len = scan.i - at - 1
           /\ scan.i - scan.label_len >= at + 1
           /\ scan.label_len # 0 => text[scan.i - 1] # "." /\ scan.i > at + 1
           /\ scan.label_len = 0 => scan.i = at + 1 \/ text[scan.i - 1] = "."
           /\ scan.domain_len + 1 <= MaxDomain \/ ~More
<1>1. /\ scan.i \in Nat /\ Len(text) \in Nat /\ scan.label_len \in Nat
      /\ scan.domain_len \in Nat /\ (More <=> scan.i <= Len(text))
  BY AddressAt
<1>2. /\ at \in Nat /\ at >= 2 /\ at < scan.i
      /\ scan.label_len <= scan.domain_len /\ scan.domain_len = scan.i - at - 1
      /\ scan.i - scan.label_len >= at + 1
  BY <1>1 DEF LabelsFrom
<1>3. ASSUME scan.label_len # 0 PROVE text[scan.i - 1] # "." /\ scan.i > at + 1
  <2>1. scan.i - 1 \in (scan.i - scan.label_len)..(scan.i - 1) /\ scan.i > at + 1
    BY <1>1, <1>2, <1>3
  <2>. QED  BY <2>1 DEF LabelsFrom
<1>4. ASSUME scan.label_len = 0 PROVE scan.i = at + 1 \/ text[scan.i - 1] = "."
  <2>1. scan.i - scan.label_len = scan.i
    BY <1>1, <1>4
  <2>. QED  BY <2>1 DEF LabelsFrom
<1>5. ASSUME More PROVE scan.domain_len + 1 <= MaxDomain
  <2>1. Len(text) <= MaxTotal /\ MaxTotal \in Nat /\ MaxDomain \in Nat /\ MaxTotal <= MaxDomain + 2
    BY AddressAssumption DEF AddressSoFar
  <2>. QED  BY <1>1, <1>2, <1>5, <2>1
<1>. QED  BY <1>2, <1>3, <1>4, <1>5

\* Labels that reach beyond the scan have a byte of a label there, within the limit.
LEMMA LabelsReach ==
    ASSUME AddressLocals, AddressSoFar(scan), NEW at \in 2..(scan.i - 1), LabelsFrom(scan, at),
           NEW end \in Nat, LabelsAt(at, end), scan.i <= end
    PROVE  /\ LabelByte(at, scan.i)
           /\ Byte # "." => scan.label_len + 1 <= MaxLabel
<1>1. /\ scan.i \in Nat /\ scan.label_len \in Nat /\ MaxLabel \in Nat /\ at \in Nat
      /\ at < scan.i /\ scan.i - scan.label_len >= at + 1 /\ scan.label_len <= MaxLabel
  BY AddressAt, LabelsKnown DEF LabelsFrom
<1>2. LabelByte(at, scan.i)
  <2>1. scan.i \in (at + 1)..end
    BY <1>1
  <2>. QED  BY <2>1 DEF LabelsAt
<1>3. ASSUME Byte # ".", scan.label_len = MaxLabel PROVE FALSE
  <2>. DEFINE b == scan.i - scan.label_len
  <2>1. b \in (at + 1)..(end - MaxLabel) /\ b + MaxLabel = scan.i
    BY <1>1, <1>3
  <2>2. PICK k \in b..(b + MaxLabel) : text[k] = "."
    BY <2>1 DEF LabelsAt
  <2>3. k \in (scan.i - scan.label_len)..(scan.i - 1) \/ k = scan.i
    BY <1>1, <2>1, <2>2
  <2>. QED  BY <1>3, <2>2, <2>3 DEF LabelsFrom, Byte
<1>. QED  BY <1>1, <1>2, <1>3

\* How the domain has to go on.
LEMMA LabelForced ==
    ASSUME AddressLocals, AddressSoFar(scan), NEW at \in 2..(scan.i - 1), LabelsFrom(scan, at),
           Accepted
    PROVE  /\ More => \/ /\ LabelByte(at, scan.i)
                         /\ Byte # "." => scan.label_len + 1 <= MaxLabel
                      \/ Byte = "[" /\ scan.label_len = 0
           /\ ~More => text[Len(text)] \notin {".", "-"} /\ at < Len(text)
<1>1. /\ scan.i \in Nat /\ Len(text) \in Nat /\ scan.label_len \in Nat
      /\ (More <=> scan.i <= Len(text)) /\ scan.i <= Len(text) + 1
      /\ at \in Nat /\ at < scan.i /\ scan.label_len <= scan.domain_len
      /\ scan.domain_len = scan.i - at - 1
  BY AddressAt, LabelsKnown
<1>2. DomainAt(at)
  BY OneLocal DEF Accepted, LabelsFrom
<1>3. CASE LabelsAt(at, Len(text))
  <2>1. text[Len(text)] \notin {".", "-"} /\ at < Len(text)
    BY <1>3 DEF LabelsAt
  <2>. QED  BY <1>1, <1>3, <2>1, LabelsReach
<1>4. CASE ~LabelsAt(at, Len(text))
  <2>1. PICK open \in (at + 1)..(Len(text) - 1) : LiteralAt(at, open)
    BY <1>2, <1>4 DEF DomainAt
  <2>2. open \in Nat /\ open >= at + 1 /\ open < Len(text) /\ text[open] = "["
    BY <1>1, <2>1 DEF LiteralAt
  <2>3. ~(open < scan.i)
    <3>. SUFFICES ASSUME open < scan.i PROVE FALSE
      OBVIOUS
    <3>1. open \in (at + 1)..(scan.i - 1)
      BY <1>1, <2>2
    <3>. QED  BY <2>2, <3>1 DEF LabelsFrom, LabelsTo, LabelByte
  <2>4. More
    BY <1>1, <2>2, <2>3
  <2>5. CASE open = scan.i
    <3>1. Byte = "["
      BY <2>2, <2>5 DEF Byte
    <3>2. scan.label_len = 0
      <4>1. CASE open = at + 1
        BY <1>1, <2>5, <4>1
      <4>2. CASE open # at + 1
        <5>1. text[scan.i - 1] = "."
          BY <2>1, <2>5, <4>2 DEF LiteralAt
        <5>. QED  BY <5>1, LabelsKnown
      <4>. QED  BY <4>1, <4>2
    <3>. QED  BY <2>4, <3>1, <3>2
  <2>6. CASE open # scan.i
    <3>1. open > scan.i /\ open # at + 1
      BY <1>1, <2>2, <2>3, <2>6
    <3>2. open > at + 2 /\ text[open - 1] = "." /\ LabelsAt(at, open - 2)
      BY <2>1, <3>1 DEF LiteralAt
    <3>3. CASE scan.i <= open - 2
      <4>1. open - 2 \in Nat
        BY <1>1, <2>2, <3>2
      <4>. QED  BY <2>4, <3>2, <3>3, <4>1, LabelsReach
    <3>4. CASE scan.i = open - 1
      <4>1. Byte = "." /\ scan.i > at + 1 /\ scan.i - 1 = open - 2
        BY <1>1, <2>2, <3>2, <3>4 DEF Byte
      <4>2. text[scan.i - 1] \notin {".", "-"}
        BY <3>2, <4>1 DEF LabelsAt
      <4>3. LabelByte(at, scan.i)
        BY <4>1, <4>2 DEF LabelByte, Byte
      <4>. QED  BY <2>4, <4>1, <4>3
    <3>. QED  BY <1>1, <2>2, <3>1, <3>3, <3>4
  <2>. QED  BY <2>5, <2>6
<1>. QED  BY <1>3, <1>4

\* One more byte of the labels.
LEMMA LabelsMoveOn ==
    ASSUME AddressLocals, AddressSoFar(scan), More,
           NEW at \in 2..(scan.i - 1), LabelsFrom(scan, at),
           LabelByte(at, scan.i), Byte # "." => scan.label_len + 1 <= MaxLabel,
           NEW s, s.i = scan.i + 1, s.domain_len = scan.domain_len + 1,
           s.label_len = IF Byte = "." THEN 0 ELSE scan.label_len + 1,
           s.state = IF Byte = "." THEN "DOMAIN_LABEL_START" ELSE "DOMAIN_LABEL_CHAR"
    PROVE  AddressSoFar(s)
<1>1. /\ scan.i \in Nat /\ scan.label_len \in Nat /\ MaxLabel \in Nat /\ at \in Nat
      /\ at < scan.i /\ scan.i - scan.label_len >= at + 1 /\ scan.label_len <= scan.domain_len
      /\ scan.domain_len = scan.i - at - 1
  BY AddressAt, LabelsKnown
<1>2. /\ LocalAt(at) /\ LabelsTo(at, scan.i)
      /\ scan.i - scan.label_len = at + 1 \/ text[scan.i - scan.label_len - 1] = "."
      /\ \A k \in (scan.i - scan.label_len)..(scan.i - 1) : text[k] # "."
  BY DEF LabelsFrom
<1>3. LabelsTo(at, scan.i + 1)
  <2>1. ASSUME NEW p \in (at + 1)..scan.i PROVE LabelByte(at, p)
    <3>1. p \in (at + 1)..(scan.i - 1) \/ p = scan.i
      BY <1>1
    <3>. QED  BY <1>2, <3>1 DEF LabelsTo
  <2>2. ASSUME NEW b \in (at + 1)..(scan.i - MaxLabel)
        PROVE  \E k \in b..(b + MaxLabel) : text[k] = "."
    <3>1. CASE b <= scan.i - 1 - MaxLabel
      <4>1. b \in (at + 1)..(scan.i - 1 - MaxLabel)
        BY <1>1, <3>1
      <4>. QED  BY <1>2, <4>1 DEF LabelsTo
    <3>2. CASE ~(b <= scan.i - 1 - MaxLabel)
      <4>1. b + MaxLabel = scan.i /\ scan.i \in b..(b + MaxLabel)
        BY <1>1, <3>2
      <4>2. CASE Byte = "."
        BY <4>1, <4>2 DEF Byte
      <4>3. CASE Byte # "."
        <5>1. /\ scan.i - scan.label_len - 1 \in b..(b + MaxLabel)
              /\ scan.i - scan.label_len # at + 1
          BY <1>1, <4>1, <4>3
        <5>. QED  BY <1>2, <5>1
      <4>. QED  BY <4>2, <4>3
    <3>. QED  BY <3>1, <3>2
  <2>. QED  BY <1>1, <2>1, <2>2 DEF LabelsTo
<1>4. LabelsFrom(s, at)
  <2>1. CASE Byte = "."
    <3>1. /\ s.i - s.label_len - 1 = scan.i /\ s.label_len <= MaxLabel /\ s.label_len <= s.domain_len
          /\ s.domain_len = s.i - at - 1 /\ s.label_len = 0
          /\ \A k \in (s.i - s.label_len)..(s.i - 1) : FALSE
      BY <1>1, <2>1
    <3>2. text[s.i - s.label_len - 1] = "."
      BY <2>1, <3>1 DEF Byte
    <3>. QED  BY <1>2, <1>3, <2>1, <3>1, <3>2 DEF LabelsFrom
  <2>2. CASE Byte # "."
    <3>1. /\ s.i - s.label_len = scan.i - scan.label_len /\ s.i - 1 = scan.i
          /\ s.label_len <= MaxLabel /\ s.label_len <= s.domain_len
          /\ s.domain_len = s.i - at - 1 /\ s.label_len # 0
      BY <1>1, <2>2
    <3>2. ASSUME NEW k \in (scan.i - scan.label_len)..scan.i PROVE text[k] # "."
      <4>1. k \in (scan.i - scan.label_len)..(scan.i - 1) \/ k = scan.i
        BY <1>1
      <4>. QED  BY <1>2, <2>2, <4>1 DEF Byte
    <3>. QED  BY <1>2, <1>3, <2>2, <3>1, <3>2 DEF LabelsFrom
  <2>. QED  BY <2>1, <2>2
<1>5. at \in 2..(s.i - 1)
  BY <1>1
<1>6. LabelsSoFar(s) /\ s.state \in LabelStates
  BY <1>4, <1>5 DEF LabelsSoFar, LabelStates
<1>. QED  BY <1>6, DomainSoFar

LEMMA LabelsAccepted ==
    ASSUME AddressLocals, AddressSoFar(scan), ~More, scan.label_len # 0,
           NEW at \in 2..(scan.i - 1), LabelsFrom(scan, at), text[Len(text)] # "-"
    PROVE  Accepted
<1>1. /\ scan.i \in Nat /\ Len(text) \in Nat /\ scan.i = Len(text) + 1 /\ at \in Nat
      /\ scan.i - 1 = Len(text) /\ text[scan.i - 1] # "." /\ scan.i > at + 1
  BY AddressAt, LabelsKnown
<1>2. /\ \A p \in (at + 1)..Len(text) : LabelByte(at, p)
      /\ \A b \in (at + 1)..(Len(text) - MaxLabel) : \E k \in b..(b + MaxLabel) : text[k] = "."
      /\ LocalAt(at)
  BY <1>1 DEF LabelsFrom, LabelsTo
<1>3. LabelsAt(at, Len(text))
  BY <1>1, <1>2 DEF LabelsAt
<1>. QED  BY <1>2, <1>3 DEF Accepted, DomainAt

\* A literal.
LEMMA LiteralStarts ==
    ASSUME AddressLocals, AddressSoFar(scan), More, Byte = "[", scan.label_len = 0,
           NEW at \in 2..(scan.i - 1), LabelsFrom(scan, at),
           NEW s, s.i = scan.i + 1, s.domain_len = scan.domain_len, s.state = "DOMAIN_LITERAL"
    PROVE  AddressSoFar(s)
<1>1. /\ scan.i \in Nat /\ at \in Nat /\ at < scan.i /\ scan.domain_len = scan.i - at - 1
      /\ scan.i = at + 1 \/ text[scan.i - 1] = "."
  BY AddressAt, LabelsKnown
<1>2. LocalAt(at) /\ LabelsTo(at, scan.i) /\ text[scan.i] = "["
  BY DEF LabelsFrom, Byte
<1>3. /\ at \in 2..(s.i - 1) /\ scan.i \in (at + 1)..(s.i - 1) /\ s.domain_len = s.i - at - 2
      /\ \A p \in (scan.i + 1)..(s.i - 1) : FALSE
  BY <1>1
<1>4. LiteralFrom(s, at, scan.i)
  BY <1>1, <1>2, <1>3 DEF LiteralFrom
<1>5. LiteralSoFar(s)
  BY <1>3, <1>4 DEF LiteralSoFar
<1>. QED  BY <1>5, DomainSoFar

LEMMA LiteralForced ==
    ASSUME AddressLocals, AddressSoFar(scan), NEW at \in 2..(scan.i - 1),
           NEW open \in (at + 1)..(scan.i - 1), LiteralFrom(scan, at, open), Accepted
    PROVE  /\ More
           /\ IF scan.i = Len(text) THEN Byte = "]" /\ scan.domain_len # 0 ELSE Byte \in Dlit
<1>1. /\ scan.i \in Nat /\ Len(text) \in Nat /\ (More <=> scan.i <= Len(text))
      /\ scan.i <= Len(text) + 1 /\ at \in Nat /\ open \in Nat /\ at < open /\ open < scan.i
  BY AddressAt
<1>2. /\ LocalAt(at) /\ LabelsTo(at, open) /\ text[open] = "["
      /\ \A p \in (open + 1)..(scan.i - 1) : text[p] \in Dlit
      /\ scan.domain_len = scan.i - at - 2
  BY DEF LiteralFrom
<1>3. DomainAt(at)
  BY <1>2, OneLocal DEF Accepted
<1>4. ~LabelsAt(at, Len(text))
  <2>. SUFFICES ASSUME LabelsAt(at, Len(text)) PROVE FALSE
    OBVIOUS
  <2>1. open \in (at + 1)..Len(text)
    BY <1>1
  <2>2. LabelByte(at, open)
    BY <2>1 DEF LabelsAt
  <2>. QED  BY <1>2, <2>2 DEF LabelByte
<1>5. PICK o \in (at + 1)..(Len(text) - 1) : LiteralAt(at, o)
  BY <1>3, <1>4 DEF DomainAt
<1>6. o \in Nat /\ o > at /\ o < Len(text) /\ text[o] = "[" /\ text[Len(text)] = "]"
  BY <1>1, <1>5 DEF LiteralAt
<1>7. o = open
  <2>1. ASSUME o < open PROVE FALSE
    <3>1. o \in (at + 1)..(open - 1)
      BY <1>1, <1>6, <2>1
    <3>2. LabelByte(at, o)
      BY <1>2, <3>1 DEF LabelsTo
    <3>. QED  BY <1>6, <3>2 DEF LabelByte
  <2>2. ASSUME o > open PROVE FALSE
    <3>1. o > at + 2 /\ text[o - 1] = "." /\ LabelsAt(at, o - 2)
      BY <1>1, <1>5, <1>6, <2>2 DEF LiteralAt
    <3>2. open # o - 1
      BY <1>2, <3>1
    <3>3. open \in (at + 1)..(o - 2)
      BY <1>1, <1>6, <2>2, <3>2
    <3>4. LabelByte(at, open)
      BY <3>1, <3>3 DEF LabelsAt
    <3>. QED  BY <1>2, <3>4 DEF LabelByte
  <2>. QED  BY <1>1, <1>6, <2>1, <2>2
<1>8. More
  <2>. SUFFICES ASSUME scan.i = Len(text) + 1 PROVE FALSE
    BY <1>1
  <2>1. Len(text) \in (open + 1)..(scan.i - 1)
    BY <1>1, <1>6, <1>7
  <2>. QED  BY <1>2, <1>6, <2>1 DEF Dlit
<1>9. CASE scan.i = Len(text)
  <2>1. Byte = "]"
    BY <1>6, <1>9 DEF Byte
  <2>2. scan.domain_len # 0
    <3>. SUFFICES ASSUME Len(text) = at + 2 PROVE FALSE
      BY <1>1, <1>2, <1>9
    <3>. QED  BY <1>1, <1>5, <1>6 DEF LiteralAt
  <2>. QED  BY <1>8, <1>9, <2>1, <2>2
<1>10. CASE scan.i # Len(text)
  <2>1. scan.i \in (o + 1)..(Len(text) - 1)
    BY <1>1, <1>7, <1>8, <1>10
  <2>. QED  BY <1>5, <1>8, <1>10, <2>1 DEF LiteralAt, Byte
<1>. QED  BY <1>9, <1>10

LEMMA LiteralMovesOn ==
    ASSUME AddressLocals, AddressSoFar(scan), More, Byte \in Dlit, NEW at \in 2..(scan.i - 1),
           NEW open \in (at + 1)..(scan.i - 1), LiteralFrom(scan, at, open),
           NEW s, s.i = scan.i + 1, s.domain_len = scan.domain_len + 1, s.state = "DOMAIN_LITERAL"
    PROVE  AddressSoFar(s)
<1>1. scan.i \in Nat /\ at \in Nat /\ open \in Nat /\ at < open /\ open < scan.i
  BY AddressAt
<1>2. /\ LocalAt(at) /\ LabelsTo(at, open) /\ text[open] = "["
      /\ open = at + 1 \/ text[open - 1] = "."
      /\ \A p \in (open + 1)..(scan.i - 1) : text[p] \in Dlit
      /\ scan.domain_len = scan.i - at - 2
  BY DEF LiteralFrom
<1>3. /\ at \in 2..(s.i - 1) /\ open \in (at + 1)..(s.i - 1) /\ s.domain_len = s.i - at - 2
      /\ s.i - 1 = scan.i
  BY <1>1, <1>2
<1>4. ASSUME NEW p \in (open + 1)..scan.i PROVE text[p] \in Dlit
  <2>1. p \in (open + 1)..(scan.i - 1) \/ p = scan.i
    BY <1>1
  <2>. QED  BY <1>2, <2>1 DEF Byte
<1>5. LiteralFrom(s, at, open)
  BY <1>2, <1>3, <1>4 DEF LiteralFrom
<1>6. LiteralSoFar(s)
  BY <1>3, <1>5 DEF LiteralSoFar
<1>. QED  BY <1>6, DomainSoFar

LEMMA LiteralAccepted ==
    ASSUME AddressLocals, AddressSoFar(scan), scan.i = Len(text), Byte = "]",
           scan.domain_len # 0, NEW at \in 2..(scan.i - 1),
           NEW open \in (at + 1)..(scan.i - 1), LiteralFrom(scan, at, open)
    PROVE  Accepted
<1>1. /\ scan.i \in Nat /\ at \in Nat /\ at >= 2 /\ open \in Nat /\ at < open /\ open < scan.i
      /\ scan.domain_len \in Nat
  BY AddressAt
<1>2. /\ LocalAt(at) /\ LabelsTo(at, open) /\ text[open] = "["
      /\ open = at + 1 \/ text[open - 1] = "."
      /\ \A p \in (open + 1)..(scan.i - 1) : text[p] \in Dlit
      /\ scan.domain_len = scan.i - at - 2
  BY DEF LiteralFrom
<1>3. /\ open \in (at + 1)..(Len(text) - 1) /\ text[Len(text)] = "]"
      /\ \A p \in (open + 1)..(Len(text) - 1) : text[p] \in Dlit
      /\ Len(text) > at + 2
  BY <1>1, <1>2 DEF Byte
<1>4. CASE open # at + 1
  <2>1. open - 1 \in (at + 1)..(open - 1) /\ (open - 1) - 1 = open - 2
    BY <1>1, <1>4
  <2>2. LabelByte(at, open - 1) /\ text[open - 1] = "."
    BY <1>2, <1>4, <2>1 DEF LabelsTo
  <2>3. open > at + 2 /\ text[open - 2] \notin {".", "-"}
    <3>1. open - 1 > at + 1 /\ text[(open - 1) - 1] \notin {".", "-"}
      BY <2>2 DEF LabelByte
    <3>. QED  BY <1>1, <2>1, <3>1
  <2>4. MaxLabel \in Nat
    BY AddressAt
  <2>5. LabelsAt(at, open - 2)
    <3>1. at < open - 2
      BY <1>1, <2>3
    <3>2. ASSUME NEW p \in (at + 1)..(open - 2) PROVE LabelByte(at, p)
      <4>1. p \in (at + 1)..(open - 1)
        BY <1>1
      <4>. QED  BY <1>2, <4>1 DEF LabelsTo
    <3>3. ASSUME NEW b \in (at + 1)..(open - 2 - MaxLabel)
          PROVE  \E k \in b..(b + MaxLabel) : text[k] = "."
      <4>1. b \in (at + 1)..(open - 1 - MaxLabel)
        BY <1>1, <2>4
      <4>. QED  BY <1>2, <4>1 DEF LabelsTo
    <3>. QED  BY <2>3, <3>1, <3>2, <3>3 DEF LabelsAt
  <2>6. LiteralAt(at, open)
    BY <1>2, <1>3, <2>2, <2>3, <2>5 DEF LiteralAt
  <2>. QED  BY <1>2, <1>3, <2>6 DEF Accepted, DomainAt
<1>5. CASE open = at + 1
  <2>1. LiteralAt(at, open)
    BY <1>2, <1>3, <1>5 DEF LiteralAt
  <2>. QED  BY <1>2, <1>3, <2>1 DEF Accepted, DomainAt
<1>. QED  BY <1>4, <1>5

-----------------------------------------------------------------------------
(* Addresses: the theorem                                                    *)

LEMMA AddressEnded ==
    ASSUME AddressLocals, UNCHANGED text, NEW err \in AddressErrors \cup {"OK"},
           Len(text) <= MaxTotal, scan'.result = err, AddressLocals', Accepted <=> err = "OK"
    PROVE  AddressIInv'
<1>1. WellFormedAddress(text) <=> err = "OK"
  BY AcceptedIs
<1>2. WellFormedAddress(text)' <=> err = "OK"
  BY <1>1 DEF WellFormedAddress
<1>3. err # "NONE" /\ (err \in AddressErrors <=> err # "OK")
  BY DEF AddressErrors
<1>. QED  BY <1>2, <1>3 DEF AddressIInv

LEMMA AddressFailedIs ==
    ASSUME AddressLocals, AddressSoFar(scan), UNCHANGED text,
           NEW err \in AddressErrors \cup {"OK"}, scan' = Fail(err), Accepted <=> err = "OK"
    PROVE  AddressIInv'
<1>1. AddressLocals' /\ scan'.result = err /\ Len(text) <= MaxTotal
  BY DEF AddressLocals, AddressScans, AddressSoFar, Fail
<1>. QED  BY <1>1, AddressEnded

LEMMA SameText ==
    ASSUME UNCHANGED text, AddressSoFar(scan') PROVE AddressSoFar(scan)'
<1>1. \A p : AtomByte(p)' <=> AtomByte(p)
  BY DEF AtomByte
<1>2. \A from, to : Atoms(from, to)' <=> Atoms(from, to)
  BY <1>1 DEF Atoms
<1>3. \A j, escaped : /\ Inside(j, escaped)' <=> Inside(j, escaped)
                      /\ Escaping(j, escaped)' <=> Escaping(j, escaped)
  BY DEF Inside, Escaping
<1>4. \A q, escaped : Quoted(q, escaped)' <=> Quoted(q, escaped)
  BY <1>3 DEF Quoted
<1>5. \A at : LocalAt(at)' <=> LocalAt(at)
  BY <1>2, <1>4, Zenon DEF LocalAt
<1>6. \A at, p : LabelByte(at, p)' <=> LabelByte(at, p)
  BY DEF LabelByte
<1>7. \A at, i : LabelsTo(at, i)' <=> LabelsTo(at, i)
  BY <1>6, Zenon DEF LabelsTo
<1>8. \A from, saved : Lead(from, saved)' <=> Lead(from, saved)
  BY <1>4 DEF Lead
<1>. DEFINE s == scan'
<1>9. AtomsSoFar(s) => AtomsSoFar(scan)'
  BY <1>1, <1>8 DEF AtomsSoFar
<1>10. QuotedSoFar(s) => QuotedSoFar(scan)'
  BY <1>3, Zenon DEF QuotedSoFar
<1>11. LabelsSoFar(s) => LabelsSoFar(scan)'
  BY <1>5, <1>7, Zenon DEF LabelsSoFar, LabelsFrom
<1>12. LiteralSoFar(s) => LiteralSoFar(scan)'
  BY <1>5, <1>7, Zenon DEF LiteralSoFar, LiteralFrom
<1>. HIDE DEF s
<1>. QED
  BY <1>9, <1>10, <1>11, <1>12, Zenon DEF s, AddressSoFar

LEMMA AddressMovedOn ==
    ASSUME UNCHANGED text, AddressLocals, scan' \in AddressScans, scan'.result = "NONE",
           AddressSoFar(scan')
    PROVE  AddressIInv'
<1>1. AddressLocals'
  BY DEF AddressLocals
<1>2. AddressSoFar(scan)'
  BY SameText
<1>. QED  BY <1>1, <1>2 DEF AddressIInv, AddressErrors

\* A byte of the local part is read, or one too many.
LEMMA LocalMoved ==
    ASSUME AddressLocals, AddressSoFar(scan), scan.result = "NONE", UNCHANGED text,
           NEW n \in {0, 1}, NEW state \in LocalStates \cup QuotedStates \cup LabelStates,
           scan' = Local(state, n),
           scan.local_len + n > MaxLocal => ~Accepted,
           scan.local_len + n <= MaxLocal => AddressSoFar(Local(state, n))
    PROVE  AddressIInv'
<1>1. /\ scan' \in AddressScans
      /\ scan'.result = IF scan.local_len + n > MaxLocal THEN "LOCAL_TOO_LONG" ELSE "NONE"
  BY LocalIs
<1>2. AddressLocals' /\ Len(text) <= MaxTotal
  BY <1>1 DEF AddressLocals, AddressSoFar
<1>3. CASE scan.local_len + n > MaxLocal
  BY <1>1, <1>2, <1>3, AddressEnded DEF AddressErrors
<1>4. CASE ~(scan.local_len + n > MaxLocal)
  <2>1. scan.local_len + n <= MaxLocal
    BY <1>4, AddressAt
  <2>. QED  BY <1>1, <1>4, <2>1, AddressMovedOn
<1>. QED  BY <1>3, <1>4

LEMMA LocalStartKeeps ==
    ASSUME AddressLocals, AddressSoFar(scan), scan.result = "NONE", UNCHANGED text, LocalStart
    PROVE  AddressIInv'
<1>1. scan.state = "LOCAL_START" /\ scan.local_len = 0 /\ MaxLocal >= 1 /\ MaxLocal \in Nat
  BY StartIs, AddressAt DEF LocalStart
<1>2. CASE Byte = "DQ"
  <2>1. scan' = Local("LOCAL_QUOTED_START", 0)
    BY <1>2 DEF LocalStart, Atext
  <2>2. AddressSoFar(Local("LOCAL_QUOTED_START", 0))
    BY <1>1, <1>2, StartOfQuoted
  <2>3. ~(scan.local_len + 0 > MaxLocal) /\ "LOCAL_QUOTED_START" \in QuotedStates
    BY <1>1 DEF QuotedStates
  <2>. QED  BY <2>1, <2>2, <2>3, LocalMoved
<1>3. CASE Byte \in Atext
  <2>1. scan' = Local("LOCAL_ATOM", 1)
    BY <1>3 DEF LocalStart, Atext
  <2>2. AddressSoFar(Local("LOCAL_ATOM", 1))
    BY <1>1, <1>3, StartOfAtom
  <2>3. ~(scan.local_len + 1 > MaxLocal) /\ "LOCAL_ATOM" \in LocalStates
    BY <1>1 DEF LocalStates
  <2>. QED  BY <2>1, <2>2, <2>3, LocalMoved
<1>4. CASE Byte \notin Atext \cup {"DQ"}
  <2>1. ~Accepted
    BY <1>1, <1>4, StartRefused
  <2>2. \E err \in AddressErrors : scan' = Fail(err) /\ err # "OK"
    <3>1. CASE Byte = "."
      BY <1>4, <3>1 DEF LocalStart, AddressErrors
    <3>2. CASE Byte = "@"
      BY <1>4, <3>2 DEF LocalStart, AddressErrors
    <3>3. CASE Byte # "." /\ Byte # "@"
      BY <1>4, <3>3 DEF LocalStart, AddressErrors
    <3>. QED  BY <3>1, <3>2, <3>3
  <2>. QED  BY <2>1, <2>2, AddressFailedIs
<1>. QED  BY <1>2, <1>3, <1>4

LEMMA LocalAtomKeeps ==
    ASSUME AddressLocals, AddressSoFar(scan), scan.result = "NONE", UNCHANGED text, More,
           LocalAtom \/ LocalDot
    PROVE  AddressIInv'
<1>1. scan.state \in AtomStates /\ scan.local_len <= MaxLocal /\ scan.i \in Nat /\ scan.i > 1
      /\ (scan.state = "LOCAL_DOT" <=> text[scan.i - 1] = ".") /\ scan.local_len \in Nat
  BY AddressAt DEF LocalAtom, LocalDot, AtomStates, AddressSoFar, LocalStates, AtomsSoFar
<1>2. CASE Byte = "@" /\ scan.state = "LOCAL_ATOM"
  <2>1. scan' = Local("DOMAIN_LABEL_START", 0)
    BY <1>2 DEF LocalAtom, LocalDot, Atext
  <2>2. AddressSoFar(Local("DOMAIN_LABEL_START", 0))
    BY <1>2, DomainStarts
  <2>3. ~(scan.local_len + 0 > MaxLocal) /\ "DOMAIN_LABEL_START" \in LabelStates
    BY <1>1, AddressAt DEF LabelStates
  <2>. QED  BY <2>1, <2>2, <2>3, LocalMoved
<1>3. CASE Byte \in Atext \/ (Byte = "." /\ scan.state = "LOCAL_ATOM")
  <2>. DEFINE state == IF Byte = "." THEN "LOCAL_DOT" ELSE "LOCAL_ATOM"
  <2>1. scan' = Local(state, 1)
    BY <1>1, <1>3 DEF LocalAtom, LocalDot, Atext, AtomStates
  <2>2. AtomByte(scan.i)
    BY <1>1, <1>3 DEF AtomByte, Byte, Atext
  <2>3. state \in AtomStates /\ (Byte = "." <=> state = "LOCAL_DOT") /\ state \in LocalStates
    BY DEF AtomStates, LocalStates
  <2>. HIDE DEF state
  <2>4. ASSUME scan.local_len + 1 <= MaxLocal PROVE AddressSoFar(Local(state, 1))
    BY <1>1, <2>2, <2>3, <2>4, AtomMovesOn
  <2>5. ASSUME scan.local_len + 1 > MaxLocal PROVE ~Accepted
    <3>1. ~(scan.local_len + 1 <= MaxLocal)
      BY <2>5, AddressAt
    <3>2. Byte # "@"
      BY <1>3 DEF Atext
    <3>. QED  BY <1>1, <3>1, <3>2, AtomForced DEF Accepted
  <2>. QED  BY <2>1, <2>3, <2>4, <2>5, LocalMoved
<1>4. CASE ~(Byte = "@" /\ scan.state = "LOCAL_ATOM")
           /\ ~(Byte \in Atext \/ (Byte = "." /\ scan.state = "LOCAL_ATOM"))
  <2>1. ~Accepted
    <3>. SUFFICES ASSUME NEW at, LocalAt(at) PROVE FALSE
      BY DEF Accepted
    <3>1. Byte # "@" /\ AtomByte(scan.i)
      BY <1>1, <1>4, AtomForced
    <3>. QED  BY <1>1, <1>4, <3>1 DEF AtomByte, Byte, AtomStates
  <2>2. \E err \in AddressErrors : scan' = Fail(err) /\ err # "OK"
    <3>1. CASE scan.state = "LOCAL_ATOM"
      <4>1. scan' = Fail("LOCAL_INVALID_CHAR")
        BY <1>4, <3>1 DEF LocalAtom, LocalDot
      <4>. QED  BY <4>1 DEF AddressErrors
    <3>2. CASE scan.state = "LOCAL_DOT" /\ Byte = "."
      <4>1. scan' = Fail("LOCAL_CONSECUTIVE_DOTS")
        BY <1>4, <3>2 DEF LocalAtom, LocalDot
      <4>. QED  BY <4>1 DEF AddressErrors
    <3>3. CASE scan.state = "LOCAL_DOT" /\ Byte = "@"
      <4>1. scan' = Fail("LOCAL_TRAILING_DOT")
        BY <1>4, <3>3 DEF LocalAtom, LocalDot
      <4>. QED  BY <4>1 DEF AddressErrors
    <3>4. CASE scan.state = "LOCAL_DOT" /\ Byte # "." /\ Byte # "@"
      <4>1. scan' = Fail("LOCAL_INVALID_CHAR")
        BY <1>4, <3>4 DEF LocalAtom, LocalDot
      <4>. QED  BY <4>1 DEF AddressErrors
    <3>. QED  BY <1>1, <3>1, <3>2, <3>3, <3>4 DEF AtomStates
  <2>. QED  BY <2>1, <2>2, AddressFailedIs
<1>. QED  BY <1>2, <1>3, <1>4

LEMMA LocalQuotedKeeps ==
    ASSUME AddressLocals, AddressSoFar(scan), scan.result = "NONE", UNCHANGED text, More,
           LocalQuotedStart \/ LocalQuotedChar \/ LocalQuotedEscape
    PROVE  AddressIInv'
<1>1. scan.state \in QuotedStates /\ Byte \in AddressBytes
  BY AddressAt DEF LocalQuotedStart, LocalQuotedChar, LocalQuotedEscape, QuotedStates
<1>2. scan.local_len <= MaxLocal /\ scan.local_len \in Nat /\ MaxLocal \in Nat
  BY <1>1, AddressAt, QuotedIs
<1>3. CASE scan.state = "LOCAL_QUOTED_ESCAPE"
  <2>1. CASE Byte = "CTL"
    <3>1. scan' = Fail("LOCAL_BAD_ESCAPE")
      BY <1>3, <2>1 DEF LocalQuotedStart, LocalQuotedChar, LocalQuotedEscape
    <3>2. ~Accepted
      BY <1>1, <2>1, QuotedRefused
    <3>. QED  BY <3>1, <3>2, AddressFailedIs DEF AddressErrors
  <2>2. CASE Byte # "CTL"
    <3>1. scan' = Local("LOCAL_QUOTED_CHAR", 1)
      BY <1>3, <2>2 DEF LocalQuotedStart, LocalQuotedChar, LocalQuotedEscape, AfterEscape
    <3>2. "LOCAL_QUOTED_CHAR" \in QuotedStates
      BY DEF QuotedStates
    <3>. QED  BY <1>3, <2>2, <3>1, <3>2, QuotedEscapeGoesOn, LocalMoved
  <2>. QED  BY <2>1, <2>2
<1>4. CASE scan.state \in {"LOCAL_QUOTED_START", "LOCAL_QUOTED_CHAR"}
  <2>1. CASE Byte = "\\"
    <3>1. scan' = Local("LOCAL_QUOTED_ESCAPE", 0)
      BY <1>4, <2>1 DEF LocalQuotedStart, LocalQuotedChar, LocalQuotedEscape, Qtext
    <3>2. "LOCAL_QUOTED_ESCAPE" \in QuotedStates
      BY DEF QuotedStates
    <3>3. /\ scan.local_len + 0 > MaxLocal => ~Accepted
          /\ scan.local_len + 0 <= MaxLocal => AddressSoFar(Local("LOCAL_QUOTED_ESCAPE", 0))
      BY <1>4, <2>1, QuotedCharGoesOn
    <3>. QED  BY <3>1, <3>2, <3>3, LocalMoved
  <2>2. CASE Byte \in Qtext
    <3>1. scan' = Local("LOCAL_QUOTED_CHAR", 1)
      BY <1>4, <2>2 DEF LocalQuotedStart, LocalQuotedChar, LocalQuotedEscape, Qtext
    <3>2. "LOCAL_QUOTED_CHAR" \in QuotedStates
      BY DEF QuotedStates
    <3>3. /\ scan.local_len + 1 > MaxLocal => ~Accepted
          /\ scan.local_len + 1 <= MaxLocal => AddressSoFar(Local("LOCAL_QUOTED_CHAR", 1))
      BY <1>4, <2>2, QuotedCharGoesOn
    <3>. QED  BY <3>1, <3>2, <3>3, LocalMoved
  <2>3. CASE Byte = "DQ" /\ scan.state = "LOCAL_QUOTED_START"
    <3>1. scan' = Fail("LOCAL_EMPTY")
      BY <2>3 DEF LocalQuotedStart, LocalQuotedChar, LocalQuotedEscape, Qtext
    <3>2. ~Accepted
      BY <1>1, <2>3, QuotedRefused
    <3>. QED  BY <3>1, <3>2, AddressFailedIs DEF AddressErrors
  <2>4. CASE Byte = "DQ" /\ scan.state = "LOCAL_QUOTED_CHAR"
    <3>1. scan' = Local("LOCAL_ATOM", 0)
      BY <2>4 DEF LocalQuotedStart, LocalQuotedChar, LocalQuotedEscape, Qtext
    <3>2. AddressSoFar(Local("LOCAL_ATOM", 0))
      BY <2>4, QuotedCloses
    <3>3. ~(scan.local_len + 0 > MaxLocal) /\ "LOCAL_ATOM" \in LocalStates
      BY <1>2 DEF LocalStates
    <3>. QED  BY <3>1, <3>2, <3>3, LocalMoved
  <2>5. CASE Byte = "CTL"
    <3>1. scan' = Fail("LOCAL_BAD_QUOTED_CHAR")
      BY <1>4, <2>5 DEF LocalQuotedStart, LocalQuotedChar, LocalQuotedEscape, Qtext
    <3>2. ~Accepted
      BY <1>1, <2>5, QuotedRefused
    <3>. QED  BY <3>1, <3>2, AddressFailedIs DEF AddressErrors
  <2>. QED  BY <1>1, <1>4, <2>1, <2>2, <2>3, <2>4, <2>5 DEF Qtext, AddressBytes
<1>. QED  BY <1>1, <1>3, <1>4 DEF QuotedStates

LEMMA DomainLabelKeeps ==
    ASSUME AddressLocals, AddressSoFar(scan), scan.result = "NONE", UNCHANGED text, More,
           DomainLabelStart \/ DomainLabelChar
    PROVE  AddressIInv'
<1>1. scan.state \in LabelStates
  BY DEF DomainLabelStart, DomainLabelChar, LabelStates
<1>2. PICK at \in 2..(scan.i - 1) : LabelsFrom(scan, at)
  BY <1>1 DEF AddressSoFar, LabelsSoFar
<1>3. /\ scan.label_len = 0 => scan.i = at + 1 \/ text[scan.i - 1] = "."
      /\ scan.label_len # 0 => text[scan.i - 1] # "." /\ scan.i > at + 1
      /\ scan.domain_len + 1 <= MaxDomain /\ scan.label_len <= MaxLabel
      /\ scan.label_len = 0 <=> scan.state = "DOMAIN_LABEL_START"
      /\ scan.label_len \in Nat /\ scan.domain_len \in Nat /\ scan.i \in Nat /\ at \in Nat
      /\ MaxLabel \in Nat /\ MaxLabel >= 1 /\ MaxDomain \in Nat
  BY <1>2, LabelsKnown, AddressAt, AddressAssumption DEF LabelsFrom
<1>4. ASSUME Accepted
      PROVE  \/ LabelByte(at, scan.i) /\ (Byte # "." => scan.label_len + 1 <= MaxLabel)
             \/ Byte = "[" /\ scan.label_len = 0
  BY <1>2, <1>4, LabelForced
<1>5. CASE Byte = "[" /\ scan.state = "DOMAIN_LABEL_START"
  <2>. DEFINE s == Domain("DOMAIN_LITERAL", scan.label_len, 0)
  <2>1. scan' = s
    BY <1>5 DEF DomainLabelStart, DomainLabelChar, Alnum
  <2>2. /\ s \in AddressScans /\ s.i = scan.i + 1 /\ s.state = "DOMAIN_LITERAL"
        /\ s.domain_len = scan.domain_len + 0 /\ s.result = "NONE"
    BY <1>3, DomainIs
  <2>. HIDE DEF s
  <2>3. s.domain_len = scan.domain_len
    BY <1>3, <2>2
  <2>4. AddressSoFar(s)
    BY <1>2, <1>3, <1>5, <2>2, <2>3, LiteralStarts
  <2>. QED  BY <2>1, <2>2, <2>4, AddressMovedOn
<1>6. CASE Byte \in Alnum \/ (Byte \in {"-", "."} /\ LabelByte(at, scan.i))
  <2>. DEFINE label_len == IF Byte = "." THEN 0 ELSE scan.label_len + 1
              state == IF Byte = "." THEN "DOMAIN_LABEL_START" ELSE "DOMAIN_LABEL_CHAR"
              s == Domain(state, label_len, 1)
  <2>0. LabelByte(at, scan.i) /\ Byte \in {"a", "-", "."}
    BY <1>6 DEF LabelByte, Byte, Alnum
  <2>1. scan' = IF label_len > MaxLabel THEN [s EXCEPT !.result = "DOMAIN_LABEL_TOO_LONG"] ELSE s
    <3>0. s.label_len = label_len /\ s.domain_len = scan.domain_len + 1 /\ label_len \in Nat
      BY <1>3, DomainIs DEF LabelStates
    <3>1. CASE scan.state = "DOMAIN_LABEL_START"
      <4>1. scan.i = at + 1 \/ text[scan.i - 1] = "."
        BY <1>3, <3>1
      <4>2. Byte = "a"
        BY <1>3, <2>0, <4>1 DEF LabelByte, Byte
      <4>3. scan' = Domain("DOMAIN_LABEL_CHAR", 1, 1)
        BY <3>1, <4>2 DEF DomainLabelStart, DomainLabelChar, Alnum
      <4>4. label_len = 1 /\ ~(label_len > MaxLabel)
        BY <1>3, <3>1, <4>2
      <4>. QED  BY <4>2, <4>3, <4>4
    <3>2. CASE scan.state = "DOMAIN_LABEL_CHAR"
      <4>1. scan' = WithinLimits(s)
        <5>1. CASE Byte = "."
          <6>1. text[scan.i - 1] # "-"
            BY <2>0, <5>1 DEF LabelByte, Byte
          <6>. QED  BY <3>2, <5>1, <6>1 DEF DomainLabelStart, DomainLabelChar, Alnum
        <5>2. CASE Byte # "."
          BY <2>0, <3>2, <5>2 DEF DomainLabelStart, DomainLabelChar, Alnum
        <5>. QED  BY <5>1, <5>2
      <4>2. s.label_len <= MaxLabel <=> ~(label_len > MaxLabel)
        BY <1>3, <3>0
      <4>3. ~(s.domain_len > MaxDomain)
        BY <1>3, <3>0
      <4>. HIDE DEF s, label_len
      <4>. QED  BY <3>0, <4>1, <4>2, <4>3 DEF WithinLimits
    <3>. QED  BY <1>1, <3>1, <3>2 DEF LabelStates
  <2>2. label_len \in Nat /\ state \in LabelStates
    BY <1>3 DEF LabelStates
  <2>3. /\ s \in AddressScans /\ s.i = scan.i + 1 /\ s.state = state /\ s.label_len = label_len
        /\ s.domain_len = scan.domain_len + 1 /\ s.result = "NONE"
    <3>. HIDE DEF state, label_len
    <3>. QED  BY <2>2, DomainIs
  <2>. HIDE DEF s
  <2>4. CASE label_len > MaxLabel
    <3>1. Byte # "." /\ ~(scan.label_len + 1 <= MaxLabel)
      BY <1>3, <2>4
    <3>2. ~Accepted
      <4>1. Byte # "["
        BY <2>0
      <4>. QED  BY <1>4, <3>1, <4>1
    <3>3. AddressLocals' /\ scan'.result = "DOMAIN_LABEL_TOO_LONG" /\ Len(text) <= MaxTotal
      BY <2>1, <2>3, <2>4 DEF AddressLocals, AddressScans, AddressErrors, AddressSoFar
    <3>. QED  BY <3>2, <3>3, AddressEnded DEF AddressErrors
  <2>5. CASE ~(label_len > MaxLabel)
    <3>1. Byte # "." => scan.label_len + 1 <= MaxLabel
      BY <1>3, <2>5
    <3>2. AddressSoFar(s)
      BY <1>2, <2>0, <2>3, <3>1, LabelsMoveOn
    <3>. QED  BY <2>1, <2>3, <2>5, <3>2, AddressMovedOn
  <2>. QED  BY <2>4, <2>5
<1>7. CASE ~(Byte = "[" /\ scan.state = "DOMAIN_LABEL_START")
           /\ ~(Byte \in Alnum \/ (Byte \in {"-", "."} /\ LabelByte(at, scan.i)))
  <2>1. ~LabelByte(at, scan.i)
    BY <1>7 DEF LabelByte, Byte, Alnum
  <2>2. ~Accepted
    BY <1>3, <1>4, <1>7, <2>1
  <2>3. \E err \in AddressErrors : scan' = Fail(err) /\ err # "OK"
    <3>1. CASE scan.state = "DOMAIN_LABEL_START" /\ Byte = "."
      <4>1. scan' = Fail("DOMAIN_LABEL_EMPTY")
        BY <3>1 DEF DomainLabelStart, DomainLabelChar, Alnum
      <4>. QED  BY <4>1 DEF AddressErrors
    <3>2. CASE scan.state = "DOMAIN_LABEL_START" /\ Byte = "-"
      <4>1. scan' = Fail("DOMAIN_LEADING_HYPHEN")
        BY <3>2 DEF DomainLabelStart, DomainLabelChar, Alnum
      <4>. QED  BY <4>1 DEF AddressErrors
    <3>3. CASE scan.state = "DOMAIN_LABEL_START" /\ Byte \notin {".", "-"}
      <4>1. scan' = Fail("DOMAIN_INVALID_CHAR")
        BY <1>7, <3>3 DEF DomainLabelStart, DomainLabelChar
      <4>. QED  BY <4>1 DEF AddressErrors
    <3>4. CASE scan.state = "DOMAIN_LABEL_CHAR" /\ Byte = "."
      <4>1. text[scan.i - 1] = "-"
        BY <1>3, <2>1, <3>4 DEF LabelByte, Byte
      <4>2. scan' = Fail("DOMAIN_TRAILING_HYPHEN")
        BY <3>4, <4>1 DEF DomainLabelStart, DomainLabelChar, Alnum
      <4>. QED  BY <4>2 DEF AddressErrors
    <3>5. CASE scan.state = "DOMAIN_LABEL_CHAR" /\ Byte # "."
      <4>1. Byte # "-"
        BY <1>3, <2>1, <3>5 DEF LabelByte, Byte
      <4>2. scan' = Fail("DOMAIN_INVALID_CHAR")
        BY <1>7, <3>5, <4>1 DEF DomainLabelStart, DomainLabelChar
      <4>. QED  BY <4>2 DEF AddressErrors
    <3>. QED  BY <1>1, <3>1, <3>2, <3>3, <3>4, <3>5 DEF LabelStates
  <2>. QED  BY <2>2, <2>3, AddressFailedIs
<1>. QED  BY <1>5, <1>6, <1>7

LEMMA DomainLiteralKeeps ==
    ASSUME AddressLocals, AddressSoFar(scan), scan.result = "NONE", UNCHANGED text, More,
           DomainLiteral
    PROVE  AddressIInv'
<1>1. scan.state = "DOMAIN_LITERAL"
  BY DEF DomainLiteral
<1>2. PICK at \in 2..(scan.i - 1) : \E open \in (at + 1)..(scan.i - 1) : LiteralFrom(scan, at, open)
  BY <1>1 DEF AddressSoFar, LiteralSoFar
<1>3. PICK open \in (at + 1)..(scan.i - 1) : LiteralFrom(scan, at, open)
  BY <1>2
<1>4. "]" \notin Dlit
  BY DEF Dlit
<1>5. CASE Byte = "]" /\ scan.domain_len # 0 /\ scan.i = Len(text)
  <2>1. scan' = Fail("OK")
    BY <1>4, <1>5 DEF DomainLiteral
  <2>2. Accepted
    BY <1>3, <1>5, LiteralAccepted
  <2>. QED  BY <2>1, <2>2, AddressFailedIs
<1>6. CASE Byte \in Dlit
  <2>. DEFINE s == Domain("DOMAIN_LITERAL", scan.label_len, 1)
  <2>1. scan' = s
    BY <1>4, <1>6 DEF DomainLiteral
  <2>2. /\ s \in AddressScans /\ s.i = scan.i + 1 /\ s.state = "DOMAIN_LITERAL"
        /\ s.domain_len = scan.domain_len + 1 /\ s.result = "NONE"
    <3>1. scan.label_len \in Nat
      BY AddressAt
    <3>. QED  BY <3>1, DomainIs
  <2>. HIDE DEF s
  <2>3. AddressSoFar(s)
    BY <1>3, <1>6, <2>2, LiteralMovesOn
  <2>. QED  BY <2>1, <2>2, <2>3, AddressMovedOn
<1>7. CASE Byte \notin Dlit /\ ~(Byte = "]" /\ scan.domain_len # 0 /\ scan.i = Len(text))
  <2>1. ~Accepted
    BY <1>3, <1>7, LiteralForced
  <2>2. \E err \in AddressErrors : scan' = Fail(err) /\ err # "OK"
    <3>1. CASE Byte = "]" /\ scan.domain_len = 0
      <4>1. scan' = Fail("DOMAIN_LITERAL_EMPTY")
        BY <1>4, <3>1 DEF DomainLiteral
      <4>. QED  BY <4>1 DEF AddressErrors
    <3>2. CASE ~(Byte = "]" /\ scan.domain_len = 0)
      <4>1. scan' = Fail("DOMAIN_LITERAL_INVALID")
        BY <1>7, <3>2 DEF DomainLiteral
      <4>. QED  BY <4>1 DEF AddressErrors
    <3>. QED  BY <3>1, <3>2
  <2>. QED  BY <2>1, <2>2, AddressFailedIs
<1>. QED  BY <1>5, <1>6, <1>7

LEMMA AddressEndKeeps ==
    ASSUME AddressLocals, AddressSoFar(scan), scan.result = "NONE", UNCHANGED text, AddressEnd
    PROVE  AddressIInv'
<1>1. ~More
  BY DEF AddressEnd
<1>2. CASE scan.state \in LocalStates
  <2>1. scan' = Fail("MISSING_AT")
    BY <1>2 DEF AddressEnd, LocalStates, QuotedStates
  <2>2. scan.state \in AtomStates
    BY <1>1, <1>2, StartIs DEF LocalStates, AtomStates
  <2>3. ~Accepted
    BY <1>1, <2>2, AtomForced DEF Accepted
  <2>. QED  BY <2>1, <2>3, AddressFailedIs DEF AddressErrors
<1>3. CASE scan.state \in QuotedStates
  <2>1. scan' = Fail("LOCAL_UNTERMINATED_QUOTE")
    BY <1>3 DEF AddressEnd, LocalStates, QuotedStates
  <2>2. ~Accepted
    BY <1>1, <1>3, QuotedRefused
  <2>. QED  BY <2>1, <2>2, AddressFailedIs DEF AddressErrors
<1>4. CASE scan.state \in LabelStates
  <2>1. PICK at \in 2..(scan.i - 1) : LabelsFrom(scan, at)
    BY <1>4 DEF AddressSoFar, LabelsSoFar
  <2>2. /\ scan.label_len = 0 => scan.i = at + 1 \/ text[scan.i - 1] = "."
        /\ scan.label_len = 0 <=> scan.state = "DOMAIN_LABEL_START"
        /\ scan.i - 1 = Len(text) /\ at \in Nat /\ Len(text) \in Nat
    BY <1>1, <2>1, LabelsKnown, AddressAt DEF LabelsFrom
  <2>3. Accepted => text[Len(text)] \notin {".", "-"} /\ at < Len(text)
    BY <1>1, <2>1, LabelForced
  <2>4. CASE scan.state = "DOMAIN_LABEL_START"
    <3>1. scan' = Fail("DOMAIN_EMPTY")
      BY <2>4 DEF AddressEnd, LocalStates, QuotedStates
    <3>2. ~Accepted
      BY <2>2, <2>3, <2>4
    <3>. QED  BY <3>1, <3>2, AddressFailedIs DEF AddressErrors
  <2>5. CASE scan.state = "DOMAIN_LABEL_CHAR" /\ text[Len(text)] = "-"
    <3>1. scan' = Fail("DOMAIN_TRAILING_HYPHEN")
      BY <2>5 DEF AddressEnd, LocalStates, QuotedStates
    <3>. QED  BY <2>3, <2>5, <3>1, AddressFailedIs DEF AddressErrors
  <2>6. CASE scan.state = "DOMAIN_LABEL_CHAR" /\ text[Len(text)] # "-"
    <3>1. scan' = Fail("OK")
      BY <2>6 DEF AddressEnd, LocalStates, QuotedStates
    <3>2. Accepted
      BY <1>1, <2>1, <2>2, <2>6, LabelsAccepted
    <3>. QED  BY <3>1, <3>2, AddressFailedIs
  <2>. QED  BY <1>4, <2>4, <2>5, <2>6 DEF LabelStates
<1>5. CASE scan.state = "DOMAIN_LITERAL"
  <2>1. scan' = Fail("DOMAIN_LITERAL_UNTERMINATED")
    BY <1>5 DEF AddressEnd, LocalStates, QuotedStates
  <2>2. PICK at \in 2..(scan.i - 1) : \E open \in (at + 1)..(scan.i - 1) : LiteralFrom(scan, at, open)
    BY <1>5 DEF AddressSoFar, LiteralSoFar
  <2>3. ~Accepted
    BY <1>1, <2>2, LiteralForced
  <2>. QED  BY <2>1, <2>3, AddressFailedIs DEF AddressErrors
<1>6. scan.state \in LocalStates \cup QuotedStates \cup LabelStates \cup {"DOMAIN_LITERAL"}
  BY DEF AddressLocals, AddressScans
<1>. QED  BY <1>2, <1>3, <1>4, <1>5, <1>6

LEMMA AddressInductive == AddressIInv /\ [AddressNext]_scanVars => AddressIInv'
<1>. SUFFICES ASSUME AddressIInv, [AddressNext]_scanVars PROVE AddressIInv'
  OBVIOUS
<1>1. CASE UNCHANGED scanVars
  <2>1. UNCHANGED text /\ scan' = scan
    BY <1>1 DEF scanVars
  <2>2. AddressSoFar(scan) => AddressSoFar(scan)'
    BY <2>1, SameText
  <2>3. AddressLocals' /\ (WellFormedAddress(text)' <=> WellFormedAddress(text))
    BY <2>1 DEF AddressIInv, AddressLocals, WellFormedAddress
  <2>. QED  BY <2>1, <2>2, <2>3 DEF AddressIInv
<1>2. CASE AddressNext
  <2>1. AddressLocals /\ AddressSoFar(scan) /\ UNCHANGED text /\ scan.result = "NONE"
    BY <1>2 DEF AddressNext, Running, AddressIInv
  <2>2. CASE More /\ LocalStart
    BY <2>1, <2>2, LocalStartKeeps
  <2>3. CASE More /\ (LocalAtom \/ LocalDot)
    BY <2>1, <2>3, LocalAtomKeeps
  <2>4. CASE More /\ (LocalQuotedStart \/ LocalQuotedChar \/ LocalQuotedEscape)
    BY <2>1, <2>4, LocalQuotedKeeps
  <2>5. CASE More /\ (DomainLabelStart \/ DomainLabelChar)
    BY <2>1, <2>5, DomainLabelKeeps
  <2>6. CASE More /\ DomainLiteral
    BY <2>1, <2>6, DomainLiteralKeeps
  <2>7. CASE AddressEnd
    BY <2>1, <2>7, AddressEndKeeps
  <2>. QED  BY <1>2, <2>2, <2>3, <2>4, <2>5, <2>6, <2>7 DEF AddressNext
<1>. QED  BY <1>1, <1>2

LEMMA AddressInitial == AddressInit => AddressIInv
<1>. SUFFICES ASSUME AddressInit PROVE AddressIInv
  OBVIOUS
<1>. DEFINE result == IF text = <<>> THEN "EMPTY"
                      ELSE IF Len(text) > MaxTotal THEN "TOTAL_TOO_LONG" ELSE "NONE"
<1>1. text \in Seq(AddressBytes) /\ MaxTotal \in Nat /\ MaxLocal \in Nat /\ Len(text) \in Nat
  BY AddressAssumption DEF AddressInit
<1>2. scan = [of |-> "ADDRESS", state |-> "LOCAL_START", i |-> 1,
              local_len |-> 0, label_len |-> 0, domain_len |-> 0, result |-> result]
  BY DEF AddressInit
<1>3. result \in AddressErrors \cup {"NONE"}
  BY DEF AddressErrors
<1>. HIDE DEF result
<1>4. AddressLocals
  BY <1>1, <1>2, <1>3 DEF AddressLocals, AddressScans, LocalStates
<1>5. scan.result = result /\ scan.i = 1 /\ scan.state = "LOCAL_START" /\ scan.local_len = 0
      /\ scan.label_len = 0 /\ scan.domain_len = 0
  BY <1>2
<1>6. CASE text = <<>>
  <2>1. scan.result = "EMPTY"
    BY <1>5, <1>6 DEF result
  <2>2. ~WellFormedAddress(text)
    BY <1>6 DEF WellFormedAddress
  <2>. QED  BY <1>4, <2>1, <2>2 DEF AddressIInv, AddressErrors
<1>7. CASE text # <<>> /\ Len(text) > MaxTotal
  <2>1. scan.result = "TOTAL_TOO_LONG"
    BY <1>5, <1>7 DEF result
  <2>2. ~(Len(text) <= MaxTotal)
    BY <1>1, <1>7
  <2>3. ~WellFormedAddress(text)
    BY <2>2, Zenon DEF WellFormedAddress
  <2>. QED  BY <1>4, <2>1, <2>3 DEF AddressIInv, AddressErrors
<1>8. CASE text # <<>> /\ ~(Len(text) > MaxTotal)
  <2>1. scan.result = "NONE"
    BY <1>5, <1>8 DEF result
  <2>2. AddressSoFar(scan)
    <3>1. Len(text) <= MaxTotal /\ 1 \in 1..(Len(text) + 1) /\ 0 <= MaxLocal
      BY <1>1, <1>8
    <3>. QED  BY <1>5, <1>8, <3>1 DEF AddressSoFar, QuotedStates, LabelStates
  <2>. QED  BY <1>4, <2>1, <2>2 DEF AddressIInv, AddressErrors
<1>. QED  BY <1>6, <1>7, <1>8

\* For inputs of any length and any limits that are related as the code's are, the
\* two state machines end with OK exactly on the addresses of the grammar: the end
\* of a quoted string and the "@" found are the only ones there can be.
THEOREM AddressCorrect == AddressSpec => []AddressMatchesGrammar
<1>1. AddressIInv => AddressMatchesGrammar
  <2>. SUFFICES ASSUME AddressIInv, ~Running
                PROVE  scan.result = "OK" <=> WellFormedAddress(text)
    BY DEF AddressMatchesGrammar
  <2>1. scan.result = "OK" \/ scan.result \in AddressErrors
    BY DEF AddressIInv, AddressLocals, AddressScans, Running
  <2>. QED  BY <2>1 DEF AddressIInv, AddressErrors
<1>. QED  BY <1>1, AddressInitial, AddressInductive, PTL DEF AddressSpec
=============================================================================
