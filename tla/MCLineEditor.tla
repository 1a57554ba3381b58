---------------------------- MODULE MCLineEditor ----------------------------
EXTENDS SessionHistory

\* The lines that can be typed.
MCLines == UNION {[1 .. n -> Chars] : n \in 1 .. MaxLine}

NoCompletions(text) == <<>>

\* The commands "aa a" (a keyword and an argument) and "ab".
Keyword(name) == [kind |-> "keyword", name |-> name]
Argument == [kind |-> "argument", name |-> <<>>]

MCCompletions(text) ==
    LET untilWord == UpToLastWord(IF Trailing(text) THEN Front(text) ELSE text)
        word == SubSeq(text, Len(untilWord) + 1,
                       Len(text) - IF Trailing(text) THEN 1 ELSE 0)
        names == <<<<"a", "a">>, <<"a", "b">>>>
    IN  IF word = <<>> THEN <<>>
        ELSE IF untilWord = <<>>
        THEN LET fits == SelectSeq(names, LAMBDA n : IsPrefix(word, n))
             IN  [i \in DOMAIN fits |-> Keyword(fits[i])]
        ELSE IF untilWord \in {<<"a", Space>>, <<"a", "a", Space>>} /\ word = <<"a">>
        THEN <<Argument>>
        ELSE <<>>
=============================================================================
