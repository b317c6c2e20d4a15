----------------------------- MODULE MCConvert -----------------------------
(* Every text of up to MaxText characters, of a letter, a digit and the    *)
(* three special characters, with one or two columns; and, with a column   *)
(* of integers alone, texts of digits, signs and blanks.  Integers have    *)
(* one or two digits.                                                      *)
EXTENDS Convert

CONSTANTS a, d, zero, Minus, Blank, MaxText

SeqsUpTo(S, n) == UNION {[1 .. k -> S] : k \in 0 .. n}

MCNumerals ==
    LET values == {s \in SeqsUpTo({d, zero}, 2) : s # <<>> /\ s[1] = d}
    IN  {<<zero>>} \cup values \cup {<<Minus>> \o s : s \in values}

\* How many characters at the start of s are of set S.
Run(s, S) ==
    CHOOSE n \in 0 .. Len(s) :
        (\A k \in 1 .. n : s[k] \in S) /\ (n < Len(s) => s[n + 1] \notin S)

Without(s, S) == SubSeq(s, Run(s, S) + 1, Len(s))

\* Blanks, a sign and digits; what follows them is ignored.
MCStoll(s) ==
    LET t == Without(s, {Blank, Newline})
        negative == t # <<>> /\ t[1] = Minus
        u == IF negative THEN Tail(t) ELSE t
        digits == SubSeq(u, 1, Run(u, {d, zero}))
        value == Without(digits, {zero})
    IN  IF digits = <<>> THEN <<>>
        ELSE IF value = <<>> THEN <<zero>>
        ELSE IF negative THEN <<Minus>> \o value
        ELSE value

JobsOf(alphabet, n, schemas) ==
    [text : SeqsUpTo(alphabet, n), columns : schemas, batch_size : {1, 2}]

MCJobs ==
    JobsOf({a, Comma, Newline, Quote}, MaxText, {<<"string">>, <<"string", "string">>})
    \cup JobsOf({a, d, Comma, Newline}, MaxText - 1, {<<"int64", "string">>, <<"int64">>})
    \cup JobsOf({d, zero, Minus, Blank, Newline, Quote}, MaxText - 2, {<<"int64">>})
=============================================================================
