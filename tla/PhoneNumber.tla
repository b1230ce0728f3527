----------------------------- MODULE PhoneNumber -----------------------------
(***************************************************************************)
(* normalizePhone and phoneRegex of the DNO service.  A raw number is a    *)
(* sequence of symbols; the four separators the code removes (dash, both   *)
(* parentheses, space) are one symbol here.                                *)
(***************************************************************************)
EXTENDS Integers, SequencesExt

CONSTANTS Digits,  \* length of a number (10)
          Digit    \* digit symbols in use, "1" among them

ASSUME NumberFormat ==
    /\ Digits \in Nat \ {0}
    /\ "1" \in Digit /\ "+" \notin Digit

Separator == "-"
Symbol    == Digit \cup {"+", Separator}

TrimPrefix(s, pre) ==
    IF IsPrefix(pre, s) THEN SubSeq(s, Len(pre) + 1, Len(s)) ELSE s

Stripped(s, x) == IF x = Separator THEN s ELSE Append(s, x)

Unseparated(raw) ==
    LET upTo[i \in 0..Len(raw)] ==
          IF i = 0 THEN <<>> ELSE Stripped(upTo[i - 1], raw[i])
    IN  upTo[Len(raw)]

\* Both prefixes go, one after the other.
Normalize(raw) ==
    TrimPrefix(TrimPrefix(Unseparated(raw), <<"+", "1">>), <<"1">>)

Valid(n) == Len(n) = Digits /\ ToSet(n) \subseteq Digit

-----------------------------------------------------------------------------
(* Reference: which raw numbers mean n.  A number that begins with 1, which *)
(* is not one of the numbering plan but passes the format check, is not    *)
(* reached by writing its own digits.                                      *)

Spellings(n) ==
    {pre \o n : pre \in {<<"1">>, <<"+", "1", "1">>}
                    \cup IF n[1] = "1" THEN {} ELSE {<<>>, <<"+", "1">>}}

Means(raw, n) == Unseparated(raw) \in Spellings(n)
=============================================================================
