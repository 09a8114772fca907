------------------------------ MODULE SmtpEhlo ------------------------------
(***************************************************************************)
(* An EHLO response arriving byte by byte, parsed again from the start of    *)
(* the buffer each time, as smtp_conn_handle_ehlo_read does.  Every reading  *)
(* of a response in larger pieces is one that skips states of this one.      *)
(***************************************************************************)
EXTENDS SmtpCapabilities

CONSTANTS
    Lines,        \* what the server may send, line by line
    MaxSent,      \* bound: lines sent
    Leftovers     \* contents of the shared table when the response begins

ASSUME EhloAssumption == Lines \subseteq Seq(STRING)

VARIABLES
    left,   \* rest of the line on its way
    sent,   \* lines begun
    buf,    \* read_buf, as far as it is filled
    reply,  \* what smtp_reply_read() says of buf
    caps    \* the shared capability table

vars == <<left, sent, buf, reply, caps>>

Init ==
    /\ left = <<>> /\ sent = 0
    /\ buf = <<>> /\ reply = ReplyRead(<<>>)
    /\ caps \in Leftovers

Send(line) ==
    /\ left = <<>> /\ sent < MaxSent
    /\ left' = line /\ sent' = sent + 1
    /\ UNCHANGED <<buf, reply, caps>>

\* One more byte, and the whole buffer is parsed again.
ReadByte ==
    /\ left # <<>>
    /\ left' = Tail(left)
    /\ buf' = Append(buf, Head(left))
    /\ reply' = ReplyRead(buf')
    /\ caps' = ParseEhloResponse(caps, buf')
    /\ UNCHANGED sent

\* The server has nothing more to say.
Silent == left = <<>> /\ sent = MaxSent /\ UNCHANGED vars

Next == (\E line \in Lines : Send(line)) \/ ReadByte \/ Silent

Spec == Init /\ [][Next]_vars

-----------------------------------------------------------------------------
(* RFC 5321 4.2 as smtp_reply_parser.h quotes it, stated of whole lines.     *)

LineEnds(s) == {i \in DOMAIN s : s[i] = "LF"}

\* The line of s that ends at end.
LineAt(s, end) ==
    LET before == {e \in LineEnds(s) : e < end}
    IN  SubSeq(s, (IF before = {} THEN 0 ELSE Max(before)) + 1, end)

IsReplyLine(l) ==
    /\ Len(l) >= 5
    /\ l[1] \in FirstDigit /\ l[2] \in SecondDigit /\ l[3] \in Digits
    /\ l[Len(l) - 1] = "CR" /\ l[Len(l)] = "LF"
    /\ Len(l) = 5 \/ l[4] \in {"-", " "}
    /\ \A i \in 4..(Len(l) - 2) : l[i] \notin {"CR", "LF", "CTRL"}

\* A reply: lines of one code, all but the last continued, at most MaxLines.
IsReply(s) ==
    /\ s # <<>> /\ s[Len(s)] = "LF"
    /\ Cardinality(LineEnds(s)) <= MaxLines
    /\ \A end \in LineEnds(s) :
          LET l == LineAt(s, end)
          IN  /\ IsReplyLine(l)
              /\ SubSeq(l, 1, 3) = SubSeq(s, 1, 3)
              /\ (l[4] # "-") <=> (end = Len(s))

-----------------------------------------------------------------------------
(* Properties                                                                *)

\* The line-by-line scan accepts what the grammar accepts, at whatever byte the
\* buffer ends, and takes no byte beyond the reply.  A reply still called
\* incomplete has no final line, nor a line that breaks the grammar, behind the
\* reader; but a line is not looked at before its first three bytes are there.
MatchesGrammar ==
    /\ reply.status = "OK" <=> \E n \in 1..Len(buf) : IsReply(SubSeq(buf, 1, n))
    /\ reply.status = "OK" => IsReply(SubSeq(buf, 1, reply.consumed))
    /\ reply.status = "INCOMPLETE" =>
          \A end \in LineEnds(buf) :
              LET l == LineAt(buf, end)
              IN  \/ IsReplyLine(l) /\ l[4] = "-"
                  \/ Len(buf) - (end - Len(l)) < 3

\* smtp_reply_parser.h: "incomplete" means that more bytes are needed, and only
\* then may the verdict change.  Otherwise the connection would wait for a reply
\* it has, or take back one it acted upon.
VerdictStable == [][reply.status # "INCOMPLETE" => reply' = reply]_vars

\* The texts of the reply's capability lines, by where they end.
CapabilityTexts ==
    LET ends == {e \in LineEnds(buf) : e <= reply.consumed}
        text(e) == LET l == LineAt(buf, e) IN SubSeq(l, 5, Len(l) - 2)
    IN  [e \in {x \in ends : \E d \in ends : d < x} |-> text(e)]
KeywordAt(e) == Keyword(CapabilityTexts[e])

\* The lines that are not of a keyword the table has a field for.
Known == {<<f>> : f \in Flags} \cup {<<"SIZE">>, <<"AUTH">>}
UnknownLines == {e \in DOMAIN CapabilityTexts : CapabilityTexts[e] # <<>> /\ KeywordAt(e) \notin Known}

\* After a complete response the table shows that response and nothing else,
\* whatever it held before, and whatever order or number the lines come in; an
\* unknown one that finds the table full is still counted.
CapsMatchReply ==
    reply.status = "OK" =>
        LET ends == DOMAIN CapabilityTexts
        IN  /\ caps.flags = {f \in Flags : \E e \in ends : KeywordAt(e) = <<f>>}
            /\ caps.has_size <=> \E e \in ends : KeywordAt(e) = <<"SIZE">>
            /\ caps.has_auth <=> \E e \in ends : KeywordAt(e) = <<"AUTH">>
            /\ caps.auth_mechs = UNION {{Mechanism(t) : t \in Tokens(Params(CapabilityTexts[e]))}
                                          : e \in {x \in ends : KeywordAt(x) = <<"AUTH">>}}
            /\ Len(caps.unknown) <= MaxUnknown
            /\ Len(caps.unknown) + caps.unknown_overflow = Cardinality(UnknownLines)

\* copy is text, or what of it fits into size bytes with the NUL.
IsCopy(copy, text, size) ==
    /\ IsPrefix(copy, text)
    /\ copy = text \/ Len(copy) = size - 1
    /\ Len(copy) < size

Tells(entry, text) ==
    /\ IsCopy(entry.keyword, Keyword(text), MaxKeywordLen)
    /\ IsCopy(entry.params, Params(text), MaxParamLen)
    /\ entry.truncated <=> ~(entry.keyword = Keyword(text) /\ entry.params = Params(text))

\* What the table keeps of a line it has no field for is that line, "truncated
\* instead of just silently losing data": the mark is set exactly if the keyword
\* or the parameters have lost something to their fields.  auth_raw is the last
\* AUTH line's parameters, cut likewise, but without a mark.
CutIsTold ==
    reply.status = "OK" =>
        /\ \A i \in DOMAIN caps.unknown : \E e \in UnknownLines : Tells(caps.unknown[i], CapabilityTexts[e])
        /\ \A e \in DOMAIN CapabilityTexts :
              KeywordAt(e) = <<"AUTH">>
              /\ (\A d \in DOMAIN CapabilityTexts : d > e => KeywordAt(d) # <<"AUTH">>)
                => IsCopy(caps.auth_raw, Params(CapabilityTexts[e]), MaxParamLen)

Number(digits) ==
    LET upTo[n \in 0..Len(digits)] ==
            IF n = 0 THEN 0 ELSE 10 * upTo[n - 1] + DigitValue(digits[n])
    IN  upTo[Len(digits)]

\* The number parameters begin with, behind spaces, if they do.
Announced(params) ==
    LET IsNumber(i, j) ==
            /\ i <= j /\ \A k \in i..j : params[k] \in Digits
            /\ \A k \in 1..(i - 1) : IsSpace(params[k])
            /\ j = Len(params) \/ params[j + 1] \notin Digits
        positions == DOMAIN params
    IN  {Number(SubSeq(params, r[1], r[2])) :
            r \in {q \in positions \X positions : IsNumber(q[1], q[2])}}

\* Parameters that are a number and nothing else, but for spaces in front.
OnlyANumber(params) ==
    \E i \in DOMAIN params : /\ \A k \in 1..(i - 1) : IsSpace(params[k])
                            /\ \A k \in i..Len(params) : params[k] \in Digits

SizeLines == {e \in DOMAIN CapabilityTexts : KeywordAt(e) = <<"SIZE">>}
\* What the last SIZE line, which counts, announces.
SizeParams == Params(CapabilityTexts[Max(SizeLines)])

\* The SIZE limit comes from the last SIZE line and from nothing else, least of
\* all from what the shared table held before: a number that fits is the limit, in
\* full, and one that does not is no limit at all, never a smaller one.  Of
\* parameters that are more than a number it says only which number they may
\* give; whether they may give one, MalformedSizeHasNoLimit says.
SizeAsAnnounced ==
    reply.status = "OK" =>
        /\ SizeLines = {} => ~caps.size_valid
        /\ SizeLines # {} =>
              /\ OnlyANumber(SizeParams) =>
                    (caps.size_valid <=> \E n \in Announced(SizeParams) : n <= SizeMax)
              /\ caps.size_valid =>
                    caps.size_limit \in Announced(SizeParams) /\ caps.size_limit <= SizeMax

-----------------------------------------------------------------------------
(* What the comments say and the code does not keep.                         *)

\* smtp_reply_parser.h: "A genuinely invalid byte at a fixed position ... is
\* always a hard error immediately".  The first two bytes of a code are not looked
\* at before the third is there; a peer that sends less leaves it at that.
WrongByteIsAnError ==
    reply.status = "INCOMPLETE" =>
        LET line == SubSeq(buf, reply.consumed + 1, Len(buf))
        IN  /\ Len(line) >= 1 => line[1] \in FirstDigit
            /\ Len(line) >= 2 => line[2] \in SecondDigit

\* smtp_cap_parse_size_param() "sets *valid = 0 (rather than failing) on anything
\* malformed".  It stops at the first byte that is no digit and does not look at it.
MalformedSizeHasNoLimit ==
    reply.status = "OK" /\ caps.size_valid => OnlyANumber(SizeParams)
=============================================================================
