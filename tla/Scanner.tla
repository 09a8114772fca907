------------------------------ MODULE Scanner ------------------------------
(***************************************************************************)
(* What the validators share: each runs once over an input that does not     *)
(* change and ends with a result.  A step is one turn of its loop.  Bytes    *)
(* are classes; positions count from 1.                                      *)
(***************************************************************************)
EXTENDS Integers, Sequences

VARIABLES
    text,  \* the input: a sequence of byte classes
    scan   \* the validator's local variables, "i" and "result" among them

scanVars == <<text, scan>>

Running == scan.result = "NONE"
More == scan.i <= Len(text)
Byte == text[scan.i]
Fail(err) == [scan EXCEPT !.result = err]

\* No more than max bytes in a row without a line break among them.
LinesFit(bytes, max) ==
    \A s \in 1..(Len(bytes) - max) : \E k \in s..(s + max) : bytes[k] \in {"CR", "LF"}

\* CR and LF come in pairs only.
LineBreaksPaired(bytes) ==
    /\ \A k \in 1..Len(bytes) : bytes[k] = "CR" => k < Len(bytes) /\ bytes[k + 1] = "LF"
    /\ \A k \in 1..Len(bytes) : bytes[k] = "LF" => k > 1 /\ bytes[k - 1] = "CR"
=============================================================================
