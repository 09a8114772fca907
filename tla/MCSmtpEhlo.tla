----------------------------- MODULE MCSmtpEhlo -----------------------------
(* Model-checking values for SmtpEhlo.                                      *)
EXTENDS SmtpEhlo

EOL  == <<"CR", "LF">>
C250 == <<"2", "5", "0">>

Texts == {<<>>, <<"STARTTLS">>, <<"word">>, <<"word", " ", "word", "word">>,
          <<"SIZE", " ", "2", "5">>, <<"SIZE", " ", " ", "3", " ", "1">>, <<"SIZE", " ", "2", "6">>,
          <<"SIZE", "2">>, <<"SIZE">>, <<"AUTH", " ", "PLAIN", " ", "word">>}

Continued == {C250 \o <<"-">> \o text \o EOL : text \in Texts}
Final     == {C250 \o <<" ">> \o text \o EOL : text \in Texts} \cup {C250 \o EOL}
\* Another code, a code or a separator that is none, broken text and line ends.
Unusual   == {<<"2", "5", "1", "-">> \o EOL, <<"2", "5", "1">> \o EOL,
              <<"2", "9", "0", " ">> \o EOL, <<"9", "5", "0", " ">> \o EOL,
              <<"2">> \o EOL, C250 \o <<"word">> \o EOL,
              C250 \o <<"-", "CTRL">> \o EOL, C250 \o <<" ", "CR", "word">>,
              C250 \o <<" ", "LF">>, C250 \o <<"CR", "CR", "LF">>,
              <<"LF">>, <<"2", "LF">>}

ResponseLines == Continued \cup Final \cup Unusual

\* A fresh table, and one full of another connection's response.
FreshOrUsed ==
    {NoCapabilities,
     [flags |-> {"STARTTLS"}, has_size |-> TRUE, size_valid |-> TRUE, size_limit |-> 7,
      has_auth |-> TRUE, auth_mechs |-> {"LOGIN"}, auth_raw |-> <<"LOGIN">>,
      unknown |-> <<[keyword |-> <<"word">>, params |-> <<>>, truncated |-> FALSE]>>,
      unknown_overflow |-> 1]}
=============================================================================
