-------------------------- MODULE SmtpCapabilities --------------------------
(***************************************************************************)
(* smtp_capabilities.c: the capability table filled from the lines of an    *)
(* EHLO response.  Text is a sequence of characters and words (SmtpReply); a *)
(* keyword that stands alone is one word.                                   *)
(***************************************************************************)
EXTENDS SmtpReply

CONSTANTS
    SizeMax,      \* SIZE_MAX
    MaxUnknown,   \* SMTP_CAP_MAX_UNKNOWN
    MaxKeywordLen, \* SMTP_CAP_MAX_KEYWORD_LEN and
    MaxParamLen    \* SMTP_CAP_MAX_PARAM_LEN, with the terminating NUL

ASSUME CapabilitiesAssumption ==
    SizeMax \in Nat /\ MaxUnknown \in Nat /\ {MaxKeywordLen, MaxParamLen} \subseteq Nat \ {0}

\* Keywords that only set a flag.
Flags == {"PIPELINING", "STARTTLS", "8BITMIME", "ENHANCEDSTATUSCODES",
          "CHUNKING", "DSN", "BINARYMIME", "SMTPUTF8"}
Mechanisms == {"PLAIN", "LOGIN", "CRAM-MD5", "DIGEST-MD5", "XOAUTH2",
               "SCRAM-SHA-1", "SCRAM-SHA-256", "NTLM", "GSSAPI"}

\* smtp_cap_init()
NoCapabilities ==
    [flags |-> {}, has_size |-> FALSE, size_valid |-> FALSE, size_limit |-> 0,
     has_auth |-> FALSE, auth_mechs |-> {}, auth_raw |-> <<>>,
     unknown |-> <<>>, unknown_overflow |-> 0]

-----------------------------------------------------------------------------

IsSpace(c) == c = " "

\* The keyword ends at the first space; the parameters are what follows it.
KeywordLen(text) ==
    LET space == SelectInSeq(text, IsSpace)
    IN  IF space = 0 THEN Len(text) ELSE space - 1
Keyword(text) == SubSeq(text, 1, KeywordLen(text))
Params(text)  == SubSeq(text, KeywordLen(text) + 2, Len(text))

DigitValue(d) ==
    CHOOSE v \in 0..9 : d = <<"0", "1", "2", "3", "4", "5", "6", "7", "8", "9">>[v + 1]

\* Bug: the comparison leaves the digit to be added out of account.
Bug_AddDigit(size, d) ==
    IF size.valid /\ size.value <= SizeMax \div 10
      THEN [size EXCEPT !.value = (@ * 10 + DigitValue(d)) % (SizeMax + 1)]
      ELSE [size EXCEPT !.valid = FALSE]

\* result > (SIZE_MAX - digit) / 10 ends the scan: the value would not fit.
AddDigit(size, d) ==
    IF size.valid /\ size.value <= (SizeMax - DigitValue(d)) \div 10
      THEN [size EXCEPT !.value = @ * 10 + DigitValue(d)]
      ELSE [size EXCEPT !.valid = FALSE]

\* smtp_cap_parse_size_param(): leading spaces, then the digits there are;
\* whatever follows them is ignored.
SizeParam(params) ==
    LET first  == SelectInSeq(params, LAMBDA c : ~IsSpace(c))
        after  == SelectInSubSeq(params, first, Len(params), LAMBDA c : c \notin Digits)
        digits == SubSeq(params, first, IF after = 0 THEN Len(params) ELSE after - 1)
        result[n \in 0..Len(digits)] ==
            IF n = 0 THEN [valid |-> TRUE, value |-> 0]
            ELSE AddDigit(result[n - 1], digits[n])
    IN  IF first = 0 \/ params[first] \notin Digits
          THEN [valid |-> FALSE, value |-> 0]
          ELSE result[Len(digits)]

\* A parameter that gives no usable limit leaves the old value, marked invalid.
StoreSize(caps, params) ==
    [caps EXCEPT !.has_size = TRUE, !.size_valid = SizeParam(params).valid,
                 !.size_limit = IF SizeParam(params).valid THEN SizeParam(params).value ELSE @]

\* The tokens between spaces.
Tokens(params) ==
    LET Bounds(i, j) ==
            /\ i <= j /\ \A k \in i..j : ~IsSpace(params[k])
            /\ i = 1 \/ IsSpace(params[i - 1])
            /\ j = Len(params) \/ IsSpace(params[j + 1])
        positions == DOMAIN params
    IN  {SubSeq(params, r[1], r[2]) : r \in {q \in positions \X positions : Bounds(q[1], q[2])}}

\* smtp_cap_match_auth_mechanism(), of each token.
Mechanism(token) ==
    IF Len(token) = 1 /\ token[1] \in Mechanisms THEN token[1] ELSE "UNKNOWN"

\* smtp_cap_bounded_copy()
Fits(src, size)        == Len(src) <= size - 1
BoundedCopy(src, size) == IF Fits(src, size) THEN src ELSE SubSeq(src, 1, size - 1)

StoreAuth(caps, params) ==
    [caps EXCEPT !.has_auth = TRUE, !.auth_raw = BoundedCopy(params, MaxParamLen),
                 !.auth_mechs = @ \cup {Mechanism(t) : t \in Tokens(params)}]

Entry(keyword, params, truncated) ==
    [keyword |-> BoundedCopy(keyword, MaxKeywordLen), params |-> BoundedCopy(params, MaxParamLen),
     truncated |-> truncated]

\* Bug: what is cut off the keyword is not told.
Bug_StoreUnknown(caps, keyword, params) ==
    IF Len(caps.unknown) >= MaxUnknown
      THEN [caps EXCEPT !.unknown_overflow = @ + 1]
      ELSE [caps EXCEPT !.unknown = Append(@, Entry(keyword, params, ~Fits(params, MaxParamLen)))]

\* smtp_cap_store_unknown(): a full table only counts.
StoreUnknown(caps, keyword, params) ==
    IF Len(caps.unknown) >= MaxUnknown
      THEN [caps EXCEPT !.unknown_overflow = @ + 1]
      ELSE [caps EXCEPT !.unknown = Append(@,
              Entry(keyword, params, ~Fits(keyword, MaxKeywordLen) \/ ~Fits(params, MaxParamLen)))]

\* smtp_cap_parse_line()
ParseCapability(caps, text) ==
    LET keyword == Keyword(text)
        params  == Params(text)
    IN  CASE text = <<>>                         -> caps
          [] keyword \in {<<f>> : f \in Flags}   -> [caps EXCEPT !.flags = @ \cup {keyword[1]}]
          [] keyword = <<"SIZE">>                -> StoreSize(caps, params)
          [] keyword = <<"AUTH">>                -> StoreAuth(caps, params)
          [] OTHER                               -> StoreUnknown(caps, keyword, params)

\* The table after the lines, starting from caps; the first is greeting text.
Filled(caps, texts) ==
    LET after[n \in 1..Len(texts)] ==
            IF n = 1 THEN caps ELSE ParseCapability(after[n - 1], texts[n])
    IN  after[Len(texts)]

\* Bug: the table is not cleared.
Bug_ParseEhloResponse(caps, buf) ==
    LET reply == ReplyRead(buf)
    IN  IF reply.status # "OK" THEN caps ELSE Filled(caps, reply.texts)

\* smtp_cap_parse_ehlo_response(): only a complete response touches the table.
ParseEhloResponse(caps, buf) ==
    LET reply == ReplyRead(buf)
    IN  IF reply.status # "OK" THEN caps ELSE Filled(NoCapabilities, reply.texts)
=============================================================================
