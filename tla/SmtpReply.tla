----------------------------- MODULE SmtpReply -----------------------------
(***************************************************************************)
(* smtp_reply_parser.c and smtp_reply_reader.c: reading a reply from a      *)
(* buffer that may end anywhere.  A byte is a character that the grammar    *)
(* tells apart, "CTRL" any control or 8-bit character; a word is a run of   *)
(* printable characters that always arrives whole.                          *)
(***************************************************************************)
EXTENDS Integers, Sequences, SequencesExt

CONSTANT MaxLines  \* max_lines, passed by the caller

ASSUME MaxLinesAssumption == MaxLines \in Nat \ {0}

FirstDigit  == {"2", "3", "4", "5"}
SecondDigit == {"0", "1", "2", "3", "4", "5"}
Separators  == {"-", " ", "CR"}
Digits      == {"0", "1", "2", "3", "4", "5", "6", "7", "8", "9"}

IsTextChar(c) == c \notin {"CR", "LF", "CTRL"}

-----------------------------------------------------------------------------
(* smtp_reply_parse_line()                                                   *)

CodeValid(s) == s[1] \in FirstDigit /\ s[2] \in SecondDigit /\ s[3] \in Digits

\* Where the text begins: "NNN" CR has none, and the scan starts at the CR.
TextStart(s) == IF s[4] = "CR" THEN 4 ELSE 5

TextEnd(s) == SelectInSubSeq(s, TextStart(s), Len(s), LAMBDA c : ~IsTextChar(c))

\* Bug: a CR at the end of what has been received is not waited for.
Bug_ScanText(s) ==
    LET stop == TextEnd(s)
    IN  CASE stop = 0                          -> "INCOMPLETE"
          [] stop # 0 /\ s[stop] # "CR"        -> "ERROR"
          [] stop = Len(s) /\ s[stop] = "CR"   -> "ERROR"
          [] OTHER -> IF s[stop + 1] = "LF" THEN "OK" ELSE "ERROR"

\* Text up to a CR, then CRLF.  A bare LF or another control character ends it
\* in an error, and so does a CR without LF; the end of the buffer does not.
ScanText(s) ==
    LET stop == TextEnd(s)
    IN  CASE stop = 0                          -> "INCOMPLETE"
          [] stop # 0 /\ s[stop] # "CR"        -> "ERROR"
          [] stop = Len(s) /\ s[stop] = "CR"   -> "INCOMPLETE"
          [] OTHER -> IF s[stop + 1] = "LF" THEN "OK" ELSE "ERROR"

\* The code is looked at once its three bytes are there, then the separator.
LineStatus(s) ==
    CASE Len(s) < 3                                 -> "INCOMPLETE"
      [] Len(s) >= 3 /\ ~CodeValid(s)               -> "ERROR"
      [] Len(s) = 3 /\ CodeValid(s)                 -> "INCOMPLETE"
      [] Len(s) > 3 /\ CodeValid(s) /\ s[4] \notin Separators -> "ERROR"
      [] OTHER                                      -> ScanText(s)

ParseLine(s) ==
    IF LineStatus(s) # "OK"
      THEN [status |-> LineStatus(s)]
      ELSE [status   |-> "OK",
            code     |-> SubSeq(s, 1, 3),
            is_final |-> s[4] # "-",
            text     |-> SubSeq(s, TextStart(s), TextEnd(s) - 1),
            consumed |-> TextEnd(s) + 1]

-----------------------------------------------------------------------------
(* smtp_reply_read()                                                         *)

\* "MORE": lines have been read, and the last of them was not final.
NothingRead == [status |-> "MORE", code |-> <<>>, consumed |-> 0, texts |-> <<>>]

\* Bug: the codes of the lines are not compared.
Bug_AddLine(reply, line) ==
    IF line.status # "OK" THEN [reply EXCEPT !.status = line.status]
    ELSE [status   |-> IF line.is_final THEN "OK" ELSE "MORE",
          code     |-> IF reply.texts = <<>> THEN line.code ELSE reply.code,
          consumed |-> reply.consumed + line.consumed,
          texts    |-> Append(reply.texts, line.text)]

\* One iteration of the loop: the next line belongs to the reply if it has the
\* code of the first.
AddLine(reply, line) ==
    CASE line.status # "OK" ->
            [reply EXCEPT !.status = line.status]
      [] line.status = "OK" /\ reply.texts # <<>> /\ line.code # reply.code ->
            [reply EXCEPT !.status = "ERROR"]
      [] OTHER ->
            [status   |-> IF line.is_final THEN "OK" ELSE "MORE",
             code     |-> line.code,
             consumed |-> reply.consumed + line.consumed,
             texts    |-> Append(reply.texts, line.text)]

\* At most MaxLines lines; a reply that is not over by then is refused.  texts
\* is what a second pass over the same lines finds in them.
ReplyRead(buf) ==
    LET after[n \in 0..MaxLines] ==
            IF n = 0 THEN NothingRead
            ELSE IF after[n - 1].status # "MORE" THEN after[n - 1]
            ELSE LET read == after[n - 1]
                 IN  AddLine(read, ParseLine(SubSeq(buf, read.consumed + 1, Len(buf))))
    IN  IF after[MaxLines].status = "MORE"
          THEN [after[MaxLines] EXCEPT !.status = "ERROR"]
          ELSE after[MaxLines]
=============================================================================
