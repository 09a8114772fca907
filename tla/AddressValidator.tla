-------------------------- MODULE AddressValidator --------------------------
(***************************************************************************)
(* smtp_address_validate(): an envelope address, the local part up to the    *)
(* "@", then the domain, each by a state machine of its own.                 *)
(***************************************************************************)
EXTENDS Scanner, FiniteSets

CONSTANTS
    Addresses,  \* the inputs
    MaxTotal,   \* ADDRESS_MAX_LEN
    MaxLocal,   \* LOCAL_PART_MAX_LEN
    MaxLabel,   \* DOMAIN_LABEL_MAX_LEN
    MaxDomain   \* DOMAIN_MAX_LEN

\* "a" is a letter or digit, "+" any other atext but the hyphen, ":" the colon or
\* another special ( , ; < > ( ) ), "DQ" a double quote, "\\" the backslash; "CTL"
\* is any control or 8-bit byte.
AddressBytes == {"a", "+", "-", ".", "@", ":", "DQ", "\\", "[", "]", "SP", "CTL"}
Alnum == {"a"}
Atext == {"a", "+", "-"}
Qtext == AddressBytes \ {"DQ", "\\", "CTL"}
Dlit  == AddressBytes \ {"[", "]", "\\", "SP", "CTL"}

ASSUME AddressAssumption ==
    /\ Addresses \subseteq Seq(AddressBytes)
    /\ {MaxTotal, MaxLocal, MaxLabel, MaxDomain} \subseteq Nat \ {0}
    /\ MaxTotal <= MaxDomain + 2  \* 256 and 255: one byte and the "@" come first

AddressInit ==
    /\ text \in Addresses
    /\ scan = [of |-> "ADDRESS", state |-> "LOCAL_START", i |-> 1,
               local_len |-> 0, label_len |-> 0, domain_len |-> 0,
               result |-> IF text = <<>> THEN "EMPTY"
                          ELSE IF Len(text) > MaxTotal THEN "TOTAL_TOO_LONG" ELSE "NONE"]

-----------------------------------------------------------------------------
(* smtp_addr_parse_local_part()                                              *)

\* The next byte, in the given state, with n more bytes of local part.
Local(state, n) ==
    [scan EXCEPT !.i = @ + 1, !.state = state, !.local_len = @ + n,
                 !.result = IF scan.local_len + n > MaxLocal THEN "LOCAL_TOO_LONG" ELSE @]

\* Neither the first byte of an atom nor of a quoted string is held against the
\* limit, which is at least 1.
LocalStart ==
    /\ scan.state = "LOCAL_START"
    /\ scan' = CASE Byte = "DQ" -> Local("LOCAL_QUOTED_START", 0)
                 [] Byte = "."  -> Fail("LOCAL_LEADING_DOT")
                 [] Byte = "@"  -> Fail("LOCAL_EMPTY")
                 [] Byte \in Atext -> Local("LOCAL_ATOM", 1)
                 [] OTHER -> Fail("LOCAL_INVALID_CHAR")

LocalAtom ==
    /\ scan.state = "LOCAL_ATOM"
    /\ scan' = CASE Byte = "@" -> Local("DOMAIN_LABEL_START", 0)
                 [] Byte = "." -> Local("LOCAL_DOT", 1)
                 [] Byte \in Atext -> Local("LOCAL_ATOM", 1)
                 [] OTHER -> Fail("LOCAL_INVALID_CHAR")

LocalDot ==
    /\ scan.state = "LOCAL_DOT"
    /\ scan' = CASE Byte = "." -> Fail("LOCAL_CONSECUTIVE_DOTS")
                 [] Byte = "@" -> Fail("LOCAL_TRAILING_DOT")
                 [] Byte \in Atext -> Local("LOCAL_ATOM", 1)
                 [] OTHER -> Fail("LOCAL_INVALID_CHAR")

LocalQuotedStart ==
    /\ scan.state = "LOCAL_QUOTED_START"
    /\ scan' = CASE Byte = "DQ" -> Fail("LOCAL_EMPTY")
                 [] Byte = "\\" -> Local("LOCAL_QUOTED_ESCAPE", 0)
                 [] Byte \in Qtext -> Local("LOCAL_QUOTED_CHAR", 1)
                 [] OTHER -> Fail("LOCAL_BAD_QUOTED_CHAR")

\* After the closing quote the machine is where it is in an atom.
LocalQuotedChar ==
    /\ scan.state = "LOCAL_QUOTED_CHAR"
    /\ scan' = CASE Byte = "DQ" -> Local("LOCAL_ATOM", 0)
                 [] Byte = "\\" -> Local("LOCAL_QUOTED_ESCAPE", 0)
                 [] Byte \in Qtext -> Local("LOCAL_QUOTED_CHAR", 1)
                 [] OTHER -> Fail("LOCAL_BAD_QUOTED_CHAR")

\* Bug: an escaped quote closes the string.
Bug_AfterEscape == IF Byte = "DQ" THEN "LOCAL_ATOM" ELSE "LOCAL_QUOTED_CHAR"

AfterEscape == "LOCAL_QUOTED_CHAR"

LocalQuotedEscape ==
    /\ scan.state = "LOCAL_QUOTED_ESCAPE"
    /\ scan' = IF Byte = "CTL" THEN Fail("LOCAL_BAD_ESCAPE") ELSE Local(AfterEscape, 1)

LocalStates == {"LOCAL_START", "LOCAL_ATOM", "LOCAL_DOT"}
QuotedStates == {"LOCAL_QUOTED_START", "LOCAL_QUOTED_CHAR", "LOCAL_QUOTED_ESCAPE"}

-----------------------------------------------------------------------------
(* smtp_addr_parse_domain()                                                  *)

\* The next byte, in the given state, the label now so long and the domain longer
\* by n.
Domain(state, label_len, n) ==
    [scan EXCEPT !.i = @ + 1, !.state = state, !.label_len = label_len, !.domain_len = @ + n]

\* The limits, which only the characters of a label are checked against.
WithinLimits(s) ==
    CASE s.label_len > MaxLabel -> [s EXCEPT !.result = "DOMAIN_LABEL_TOO_LONG"]
      [] s.label_len <= MaxLabel /\ s.domain_len > MaxDomain ->
            [s EXCEPT !.result = "DOMAIN_TOO_LONG"]
      [] OTHER -> s

\* A literal may begin wherever a label may.
DomainLabelStart ==
    /\ scan.state = "DOMAIN_LABEL_START"
    /\ scan' = CASE Byte = "[" -> Domain("DOMAIN_LITERAL", scan.label_len, 0)
                 [] Byte = "." -> Fail("DOMAIN_LABEL_EMPTY")
                 [] Byte = "-" -> Fail("DOMAIN_LEADING_HYPHEN")
                 [] Byte \in Alnum -> Domain("DOMAIN_LABEL_CHAR", 1, 1)
                 [] OTHER -> Fail("DOMAIN_INVALID_CHAR")

DomainLabelChar ==
    /\ scan.state = "DOMAIN_LABEL_CHAR"
    /\ scan' = CASE Byte = "." /\ text[scan.i - 1] = "-" -> Fail("DOMAIN_TRAILING_HYPHEN")
                 [] Byte = "." /\ text[scan.i - 1] # "-" ->
                        WithinLimits(Domain("DOMAIN_LABEL_START", 0, 1))
                 [] Byte \in Alnum \cup {"-"} ->
                        WithinLimits(Domain("DOMAIN_LABEL_CHAR", scan.label_len + 1, 1))
                 [] OTHER -> Fail("DOMAIN_INVALID_CHAR")

\* domain_len is of the whole domain: after a label, a literal may be empty.
DomainLiteral ==
    /\ scan.state = "DOMAIN_LITERAL"
    /\ scan' = CASE Byte = "]" /\ scan.domain_len = 0 -> Fail("DOMAIN_LITERAL_EMPTY")
                 [] Byte = "]" /\ scan.domain_len # 0 ->
                        Fail(IF scan.i = Len(text) THEN "OK" ELSE "DOMAIN_LITERAL_INVALID")
                 [] Byte \in Dlit -> Domain("DOMAIN_LITERAL", scan.label_len, 1)
                 [] OTHER -> Fail("DOMAIN_LITERAL_INVALID")

\* The input is used up.
AddressEnd ==
    /\ ~More
    /\ scan' = CASE scan.state \in LocalStates  -> Fail("MISSING_AT")
                 [] scan.state \in QuotedStates -> Fail("LOCAL_UNTERMINATED_QUOTE")
                 [] scan.state = "DOMAIN_LABEL_START" -> Fail("DOMAIN_EMPTY")
                 [] scan.state = "DOMAIN_LABEL_CHAR" ->
                        Fail(IF text[Len(text)] = "-" THEN "DOMAIN_TRAILING_HYPHEN" ELSE "OK")
                 [] scan.state = "DOMAIN_LITERAL" -> Fail("DOMAIN_LITERAL_UNTERMINATED")

AddressNext ==
    /\ scan.of = "ADDRESS"
    /\ Running
    /\ \/ More /\ (\/ LocalStart \/ LocalAtom \/ LocalDot
                   \/ LocalQuotedStart \/ LocalQuotedChar \/ LocalQuotedEscape
                   \/ DomainLabelStart \/ DomainLabelChar \/ DomainLiteral)
       \/ AddressEnd
    /\ UNCHANGED text

AddressSpec == AddressInit /\ [][AddressNext]_scanVars

-----------------------------------------------------------------------------
(* Reference: the addresses the validator accepts, by their parts.  They are     *)
(* those of RFC 5321, except that                                            *)
(*   - after the closing quote of a local part atext and dots may go on,       *)
(*   - a quoted pair counts as one octet of the local part, the quotes as none, *)
(*   - the empty quoted string is refused,                                     *)
(*   - a literal may follow labels, and is then allowed to be empty,           *)
(*   - a literal holds any printable characters but space and "[" "]" "\".    *)

Over(bytes, set) == \A k \in 1..Len(bytes) : bytes[k] \in set

\* Parts in "set", with a dot between each two.
Dotted(bytes, set) ==
    /\ bytes # <<>>
    /\ Over(bytes, set \cup {"."})
    /\ \A k \in 1..Len(bytes) : bytes[k] = "." =>
        k \in 2..(Len(bytes) - 1) /\ bytes[k - 1] # "." /\ bytes[k + 1] # "."

\* A quoted string up to q; "escaped" tells which bytes follow the backslash of a
\* quoted pair.
QuotedBytes(bytes, q, escaped) ==
    /\ bytes[1] = "DQ" /\ bytes[q] = "DQ" /\ q \notin escaped
    /\ \A k \in 2..(q - 1) :
        IF k \in escaped THEN bytes[k] # "CTL" /\ bytes[k - 1] = "\\" /\ k - 1 \notin escaped
        ELSE bytes[k] \in Qtext \/ (bytes[k] = "\\" /\ k + 1 \in escaped)

QuotedString(bytes, q, escaped) ==
    /\ QuotedBytes(bytes, q, escaped)
    /\ Dotted(<<"a">> \o SubSeq(bytes, q + 1, Len(bytes)), Atext)
    /\ Len(bytes) - 2 - Cardinality(escaped) <= MaxLocal

LocalPart(bytes) ==
    \/ Dotted(bytes, Atext) /\ Len(bytes) <= MaxLocal
    \/ \E q \in 3..Len(bytes) : \E escaped \in SUBSET (3..(q - 1)) :
            QuotedString(bytes, q, escaped)

Labels(bytes) ==
    /\ Dotted(bytes, Alnum \cup {"-"})
    /\ \A k \in 1..Len(bytes) : bytes[k] = "-" =>
        k \in 2..(Len(bytes) - 1) /\ bytes[k - 1] # "." /\ bytes[k + 1] # "."
    /\ \A s \in 1..(Len(bytes) - MaxLabel) : \E k \in s..(s + MaxLabel) : bytes[k] = "."

Literal(bytes, open) ==
    LET close == Len(bytes)
    IN  /\ open < close /\ bytes[open] = "[" /\ bytes[close] = "]"
        /\ Over(SubSeq(bytes, open + 1, close - 1), Dlit)
        /\ \/ open = 1 /\ close > 2
           \/ open > 2 /\ bytes[open - 1] = "." /\ Labels(SubSeq(bytes, 1, open - 2))

DomainPart(bytes) ==
    /\ Len(bytes) <= MaxDomain
    /\ Labels(bytes) \/ \E open \in 1..Len(bytes) : Literal(bytes, open)

WellFormedAddress(bytes) ==
    /\ Len(bytes) <= MaxTotal
    /\ \E at \in 2..(Len(bytes) - 1) :
        /\ bytes[at] = "@"
        /\ LocalPart(SubSeq(bytes, 1, at - 1))
        /\ DomainPart(SubSeq(bytes, at + 1, Len(bytes)))

\* The two state machines together accept exactly the addresses of the grammar
\* above, RFC 5321's with the departures listed there: quoting, dots, hyphens,
\* literals and all limits, whatever byte a limit or a state change falls on.
AddressMatchesGrammar ==
    scan.of = "ADDRESS" /\ ~Running => (scan.result = "OK" <=> WellFormedAddress(text))

-----------------------------------------------------------------------------
(* Reference: RFC 5321 sections 4.1.2, 4.1.3 and 4.5.3.1 themselves.  A class   *)
(* of bytes is given the benefit of the doubt: "a" may be the digit or letter   *)
(* the grammar asks for, ":" the colon.                                      *)

RfcLocal(bytes) ==
    /\ Len(bytes) <= MaxLocal
    /\ \/ Dotted(bytes, Atext)
       \/ \E escaped \in SUBSET (3..(Len(bytes) - 1)) :
            Len(bytes) >= 2 /\ QuotedBytes(bytes, Len(bytes), escaped)

\* Four numbers with dots between them, or a tag, a colon and what it names.
RfcLiteral(bytes) ==
    LET inner == SubSeq(bytes, 2, Len(bytes) - 1)
    IN  /\ Len(bytes) > 2 /\ bytes[1] = "[" /\ bytes[Len(bytes)] = "]"
        /\ \/ Dotted(inner, Alnum) /\ Cardinality({k \in 1..Len(inner) : inner[k] = "."}) = 3
           \/ \E c \in 2..(Len(inner) - 1) :
                /\ Over(SubSeq(inner, 1, c - 1), Alnum \cup {"-"}) /\ inner[c - 1] # "-"
                /\ inner[c] = ":"
                /\ Over(SubSeq(inner, c + 1, Len(inner)), Dlit)

Rfc5321Address(bytes) ==
    /\ Len(bytes) <= MaxTotal
    /\ \E at \in 2..(Len(bytes) - 1) :
        LET domain == SubSeq(bytes, at + 1, Len(bytes))
        IN  /\ bytes[at] = "@"
            /\ RfcLocal(SubSeq(bytes, 1, at - 1))
            /\ Len(domain) <= MaxDomain
            /\ Labels(domain) \/ RfcLiteral(domain)

\* smtp_address_validator.h:8: "Validates against RFC 5321 Sec 4.1.2 grammar, NOT
\* the looser RFC 5322 header address grammar", with "Local-part <= 64 octets".
AddressIsRfc5321 ==
    scan.of = "ADDRESS" /\ scan.result = "OK" => Rfc5321Address(text)
=============================================================================
