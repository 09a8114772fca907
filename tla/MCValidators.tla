---------------------------- MODULE MCValidators ----------------------------
(***************************************************************************)
(* The three validators on every short input and on longer ones put together *)
(* from parts, with limits small enough to be met.                           *)
(***************************************************************************)
EXTENDS BodyValidator, HeaderValidator, AddressValidator, SequencesExt

MCBodies == SeqOf(BodyBytes, 5)

\* Values of up to three bytes, and words that are right or nearly so, with
\* something before and after.
Charsets  == SeqOf({"-", "/", "<", "WSP"}, 1) \cup {<<"X", "Q">>}
Encodings == {<<>>, <<"Q">>, <<"B">>, <<"X">>, <<"CR">>}
WordTexts == SeqOf({"X", "=", "5"}, 4) \cup {<<"-">>, <<"/">>, <<"WSP">>, <<"LF">>, <<"CR", "LF", "WSP">>,
                <<"=", "5", "B">>, <<"X", "/", "5", "/">>,
                <<"X", "X", "5", "=", "=">>}
Heads     == {<<>>, <<"X">>, <<"=", "?", "X">>}
Tails     == {<<>>, <<"?", "=">>, <<"?", "=", "X">>, <<"?", "=", "?", "X", "?", "=">>,
              <<"?", "=", "CR", "LF", "WSP">>}
MCValues  == SeqOf(HeaderBytes, 3)
    \cup {h \o <<"=", "?">> \o c \o <<"?">> \o e \o <<"?">> \o t \o z :
            h \in Heads, c \in Charsets, e \in Encodings, t \in WordTexts, z \in Tails}

\* Addresses of up to four bytes, longer local parts and longer domains.
MCAddresses == SeqOf(AddressBytes, 4)
    \cup {l \o <<"@", "a">> : l \in SeqOf({"a", ".", "DQ", "\\", "SP"}, 5)}
    \cup {<<"a", "@">> \o d : d \in SeqOf({"a", "-", ".", ":", "[", "]"}, 5)}

Init == BodyInit \/ HeaderInit \/ AddressInit
Next == BodyNext \/ HeaderNext \/ AddressNext
Spec == Init /\ [][Next]_scanVars
=============================================================================
