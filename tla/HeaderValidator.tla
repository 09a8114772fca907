-------------------------- MODULE HeaderValidator --------------------------
(***************************************************************************)
(* smtp_hdrval_validate(): an unstructured header value with its folds, and  *)
(* smtp_hdr_validate_encoded_word() on the RFC 2047 words found in it.       *)
(***************************************************************************)
EXTENDS Scanner

CONSTANTS
    Values,         \* the inputs
    HeaderMaxLine,  \* SMTP_HDRVAL_MAX_LINE_LEN
    MaxWord         \* SMTP_HDR_ENCODED_WORD_MAX_LEN

\* "WSP" is SP or TAB; "Q" and "B" stand for either case; "5" is any other hex
\* digit, "X" any other letter or "+", "-" a token character outside the base64
\* alphabet, "/" the one tspecial inside it, "<" any other tspecial; "CTL" is any
\* control or 8-bit byte.
HeaderBytes == {"CR", "LF", "WSP", "CTL", "=", "?", "Q", "B", "5", "X", "-", "/", "<"}
Token   == {"Q", "B", "5", "X", "-"}
Enctext == Token \cup {"=", "/", "<"}
Hex     == {"B", "5"}
Base64  == {"Q", "B", "5", "X", "/"}

ASSUME HeaderAssumption ==
    /\ Values \subseteq Seq(HeaderBytes)
    /\ {HeaderMaxLine, MaxWord} \subseteq Nat \ {0}

-----------------------------------------------------------------------------
(* Encoded words.  First(from, stop) is the first position from "from" on     *)
(* whose byte is in "stop", or the one behind the end.                       *)

First(bytes, from, stop) ==
    CHOOSE k \in from..(Len(bytes) + 1) :
        /\ k = Len(bytes) + 1 \/ bytes[k] \in stop
        /\ \A j \in from..(k - 1) : bytes[j] \notin stop

\* Is there a "?" at position k?
Delimiter(bytes, k) == k <= Len(bytes) /\ bytes[k] = "?"

\* smtp_hdr_validate_q_text(): a "=" starts an escape of two hex digits.
QText(txt) ==
    \A k \in 1..Len(txt) :
        /\ txt[k] \in Enctext
        /\ txt[k] = "=" => k + 2 <= Len(txt) /\ {txt[k + 1], txt[k + 2]} \subseteq Hex

\* Bug: padding may be followed by more text.
Bug_BText(txt) ==
    /\ \A k \in 1..Len(txt) : txt[k] \in Base64 \cup {"="}
    /\ Len(txt) % 4 = 0

\* smtp_hdr_validate_b_text(): padding only at the end and at most twice.
BText(txt) ==
    LET pad == First(txt, 1, {"="})
    IN  /\ \A k \in 1..(pad - 1) : txt[k] \in Base64
        /\ \A k \in pad..Len(txt) : txt[k] = "="
        /\ Len(txt) + 1 - pad <= 2
        /\ Len(txt) % 4 = 0

\* smtp_hdr_validate_encoded_word(): delimiters, charset, encoding, text.
EncodedWordOk(word) ==
    LET len      == Len(word)
        charset  == First(word, 3, {"?"})
        encoding == charset + 1
        txt      == SubSeq(word, encoding + 2, len - 2)
    IN  /\ len \in 2..MaxWord
        /\ word[1] = "=" /\ word[2] = "?" /\ word[len - 1] = "?" /\ word[len] = "="
        /\ charset \in 4..len
        /\ \A k \in 3..(charset - 1) : word[k] \in Token
        /\ encoding <= len /\ word[encoding] \in {"Q", "B"} /\ Delimiter(word, encoding + 1)
        /\ txt # <<>>
        /\ IF word[encoding] = "B" THEN BText(txt) ELSE QText(txt)

\* smtp_hdrval_locate_encoded_word_candidate(): where "=?..?.?..?=" from start
\* ends, or 0.  A fold ends the search.
CandidateEnd(start) ==
    LET charset  == First(text, start + 2, {"?", "CR"})
        textEnd  == First(text, charset + 3, {"?", "CR"})
    IN  IF /\ Delimiter(text, charset) /\ Delimiter(text, charset + 2)
           /\ Delimiter(text, textEnd)
           /\ textEnd < Len(text) /\ text[textEnd + 1] = "="
        THEN textEnd + 1 ELSE 0

-----------------------------------------------------------------------------
(* The scan                                                                  *)

HeaderInit ==
    /\ text \in Values
    /\ scan = [of |-> "HEADER", i |-> 1, line_len |-> 0,
               result |-> IF text = <<>> THEN "EMPTY" ELSE "NONE"]

\* n more bytes of the line.
Passed(n) ==
    [scan EXCEPT !.i = @ + n, !.line_len = @ + n,
                 !.result = IF scan.line_len + n > HeaderMaxLine THEN "LINE_TOO_LONG" ELSE @]

\* smtp_hdrval_step_handle_fold(): CRLF before WSP, or as the end.
HeaderFold ==
    /\ Byte = "CR"
    /\ scan' =
        IF scan.i = Len(text) \/ text[scan.i + 1] # "LF" THEN Fail("BARE_CR")
        ELSE IF scan.i + 1 = Len(text) THEN [scan EXCEPT !.i = @ + 2]
        ELSE IF text[scan.i + 2] # "WSP" THEN Fail("FOLD_NOT_WSP")
        ELSE [scan EXCEPT !.i = @ + 2, !.line_len = 0]

\* Where the encoded word at this byte ends, or 0.
WordHere ==
    IF Byte = "=" /\ Delimiter(text, scan.i + 1) THEN CandidateEnd(scan.i) ELSE 0

HeaderWord ==
    /\ WordHere # 0
    /\ scan' = IF EncodedWordOk(SubSeq(text, scan.i, WordHere)) THEN Passed(WordHere + 1 - scan.i)
               ELSE Fail("ENCODED_WORD_INVALID")

HeaderByte ==
    /\ Byte # "CR" /\ WordHere = 0
    /\ scan' = CASE Byte = "LF"  -> Fail("BARE_LF")
                 [] Byte = "CTL" -> Fail("CONTROL_CHAR")
                 [] OTHER        -> Passed(1)

HeaderEnd ==
    /\ ~More
    /\ scan' = Fail("OK")

HeaderNext ==
    /\ scan.of = "HEADER"
    /\ Running
    /\ \/ More /\ (HeaderFold \/ HeaderWord \/ HeaderByte)
       \/ HeaderEnd
    /\ UNCHANGED text

HeaderSpec == HeaderInit /\ [][HeaderNext]_scanVars

-----------------------------------------------------------------------------
(* Reference: RFC 2047 by its parts, and the words of a value as a set.       *)

SeqOver(bytes, set) == \A k \in 1..Len(bytes) : bytes[k] \in set

\* "=?" charset "?" encoding "?" text "?=", at most MaxWord bytes: charset a
\* token; text for B whole quanta of base64, for Q characters and hex escapes.
EncodedWord(w) ==
    \E c \in 1..(Len(w) - 8) :
        LET t        == Len(w) - 7 - c
            charset  == SubSeq(w, 3, c + 2)
            encoding == w[c + 4]
            txt      == SubSeq(w, c + 6, c + 5 + t)
            pads     == {k \in 1..t : txt[k] = "="}
        IN  /\ w = <<"=", "?">> \o charset \o <<"?", encoding, "?">> \o txt \o <<"?", "=">>
            /\ Len(w) <= MaxWord
            /\ SeqOver(charset, Token)
            /\ \/ /\ encoding = "B"
                  /\ SeqOver(txt, Base64 \cup {"="})
                  /\ t % 4 = 0
                  /\ pads \in {{}, {t}, {t - 1, t}}
               \/ /\ encoding = "Q"
                  /\ SeqOver(txt, Enctext)
                  /\ \A k \in pads : k + 2 <= t /\ {txt[k + 1], txt[k + 2]} \subseteq Hex

\* A span of the value shaped like an encoded word.
Shaped(v, s, e) ==
    \E c \in s..e, d \in s..e :
        /\ c >= s + 2 /\ d >= c + 3 /\ e = d + 1
        /\ v[s] = "=" /\ v[s + 1] = "?" /\ v[c] = "?" /\ v[c + 2] = "?" /\ v[d] = "?" /\ v[e] = "="
        /\ \A k \in ((s + 2)..(d - 1)) \ {c, c + 1, c + 2} : v[k] \notin {"?", "CR"}
Spans(v) == {p \in (1..Len(v)) \X (1..Len(v)) : Shaped(v, p[1], p[2])}

\* The words of the value, read from the left, are all in order: disjoint, and
\* every span that starts outside of them is one of them.
WordsInOrder(v) ==
    \E words \in SUBSET Spans(v) :
        /\ \A p \in words : EncodedWord(SubSeq(v, p[1], p[2]))
        /\ \A p, q \in words : p[1] < q[1] => p[2] < q[1]
        /\ \A p \in Spans(v) : p \in words \/ \E q \in words : p[1] \in (q[1] + 1)..q[2]

WellFormedHeader(v) ==
    /\ v # <<>>
    /\ LineBreaksPaired(v)
    /\ \A k \in 1..Len(v) : v[k] = "LF" => k = Len(v) \/ v[k + 1] = "WSP"
    /\ \A k \in 1..Len(v) : v[k] # "CTL"
    /\ LinesFit(v, HeaderMaxLine)
    /\ WordsInOrder(v)

\* The scanner accepts exactly the values in order: no CR or LF gets through but
\* as a fold or the end, and a word is judged wherever it stands, but what only
\* looks like the start of one is text.
HeaderMatchesGrammar ==
    scan.of = "HEADER" /\ ~Running => (scan.result = "OK" <=> WellFormedHeader(text))
=============================================================================
