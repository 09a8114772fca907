--------------------------- MODULE BodyValidator ---------------------------
(***************************************************************************)
(* smtp_body_validate(): content to send after DATA, dot-stuffed already.    *)
(***************************************************************************)
EXTENDS Scanner

CONSTANTS
    Bodies,      \* the inputs
    BodyMaxLine  \* SMTP_BODY_MAX_LINE_LEN

\* "TEXT" stands for every other byte below 0x80, TAB included.
BodyBytes == {"CR", "LF", "DOT", "TEXT", "CTL", "8BIT"}

ASSUME BodyAssumption ==
    /\ Bodies \subseteq Seq(BodyBytes)
    /\ BodyMaxLine \in Nat \ {0}

BodyInit ==
    /\ text \in Bodies
    /\ \E allow_8bit \in BOOLEAN :
        scan = [of |-> "BODY", allow_8bit |-> allow_8bit, i |-> 1, line_start |-> 1,
                line_len |-> 0, result |-> IF text = <<>> THEN "EMPTY" ELSE "NONE"]

\* smtp_bodyval_is_bare_dot_line(), for the line that ends before "end".
BareDotLine(end) == end - scan.line_start = 1 /\ text[scan.line_start] = "DOT"

\* Bug: the byte after the CR is skipped without a look.
Bug_FollowedByLf == scan.i < Len(text)

FollowedByLf == scan.i < Len(text) /\ text[scan.i + 1] = "LF"

\* smtp_bodyval_step_handle_crlf()
BodyCrlf ==
    /\ Byte = "CR"
    /\ \/ /\ ~FollowedByLf
          /\ scan' = Fail("BARE_CR")
       \/ /\ FollowedByLf
          /\ BareDotLine(scan.i)
          /\ scan' = Fail("PREMATURE_TERMINATOR")
       \/ /\ FollowedByLf
          /\ ~BareDotLine(scan.i)
          /\ scan' = [scan EXCEPT !.i = @ + 2, !.line_start = scan.i + 2, !.line_len = 0]

BodyLf ==
    /\ Byte = "LF"
    /\ scan' = Fail("BARE_LF")

\* smtp_bodyval_step_check_byte() and the count of the line.
BodyByte ==
    /\ Byte \notin {"CR", "LF"}
    /\ scan' =
        IF Byte = "CTL" THEN Fail("CONTROL_CHAR")
        ELSE IF Byte = "8BIT" /\ ~scan.allow_8bit THEN Fail("8BIT_NOT_ALLOWED")
        ELSE [scan EXCEPT !.i = @ + 1, !.line_len = @ + 1,
                          !.result = IF scan.line_len + 1 > BodyMaxLine THEN "LINE_TOO_LONG"
                                     ELSE @]

\* The last line needs no CRLF, but may not be a dot either.
BodyEnd ==
    /\ ~More
    /\ scan' = Fail(IF BareDotLine(scan.i) THEN "PREMATURE_TERMINATOR" ELSE "OK")

BodyNext ==
    /\ scan.of = "BODY"
    /\ Running
    /\ \/ More /\ (BodyCrlf \/ BodyLf \/ BodyByte)
       \/ BodyEnd
    /\ UNCHANGED text

BodySpec == BodyInit /\ [][BodyNext]_scanVars

-----------------------------------------------------------------------------
\* What smtp_body_validator.h promises of content: CR and LF in pairs, no line
\* that is a lone dot, lines within the limit, no control characters, 8-bit
\* bytes where they were negotiated.
WellFormedBody(body, allow_8bit) ==
    /\ body # <<>>
    /\ LineBreaksPaired(body)
    /\ LinesFit(body, BodyMaxLine)
    /\ \A k \in 1..Len(body) :
        /\ body[k] # "CTL"
        /\ body[k] = "8BIT" => allow_8bit
        /\ body[k] = "DOT" =>
            ~((k = 1 \/ body[k - 1] = "LF") /\ (k = Len(body) \/ body[k + 1] = "CR"))

\* The validator accepts exactly the content that is in order: nothing it lets
\* through ends DATA early or breaks a line in two, and nothing else is refused.
BodyMatchesGrammar ==
    scan.of = "BODY" /\ ~Running =>
        (scan.result = "OK" <=> WellFormedBody(text, scan.allow_8bit))
=============================================================================
