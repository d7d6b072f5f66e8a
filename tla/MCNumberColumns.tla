--------------------------- MODULE MCNumberColumns ---------------------------
(* All CPFs made of two digits, with the right check digits or one of them   *)
(* off by one; texts of digits around every length the constructors check;   *)
(* and texts of the other forms that Number() takes.                         *)
EXTENDS NumberColumns

CONSTANTS d, e

Bodies == [1..9 -> {d, e}]

Candidates(b) ==
    LET x == Official(b, 9)
        y == Official(b \o <<x>>, 10)
    IN  {b \o <<x, y>>, b \o <<(x + 1) % 10, y>>, b \o <<x, (y + 9) % 10>>}

Around(lengths) == UNION {[1..n -> {0, e}] : n \in lengths}

\* Zeros and then sevens.
Sevens(lengths) == {[i \in 1..n |-> IF i < m THEN 0 ELSE 7] : n \in lengths, m \in 1..21}

\* The largest bigint, and the number after it.
Largest == {MaxBigint, [MaxBigint EXCEPT ![19] = 8]}

\* What node prints of the long numbers here.
SomeRounded ==
    [s \in {[i \in 1..n |-> 7] : n \in 16..19} \cup {MaxBigint} |->
        IF s = MaxBigint THEN <<9, 2, 2, 3, 3, 7, 2, 0, 3, 6, 8, 5, 4, 7, 7, 6, 0, 0, 0>>
        ELSE [i \in 1..Len(s) |->
                 IF i < 16 \/ Len(s) = 16 THEN 7 ELSE IF i = 16 THEN 8 ELSE 0]]

AsTexts(S) == {Digits(s) : s \in S}

\* n characters of a form, of which m are digits.
Of(form, n, m) == [form |-> form, digits |-> [i \in 1..m |-> IF i = 1 THEN 1 ELSE 0], length |-> n]
Zeros(n, m) == [form |-> "around", digits |-> [i \in 1..m |-> 0], length |-> n]

Mixed(lengths) ==
    UNION {UNION {{Of("around", n, m), Of("decimal", n, m), Zeros(n, m)} : m \in 0..(n - 1)}
               \cup {Of("hex", n, 1), Of("hex", n, n - 2), Of("letters", n, 0)}
               \cup {Of("binary", n, 1), Of("binary", n, 2)} : n \in lengths}

SomeTexts ==
    [CPF |-> AsTexts(UNION {Candidates(b) : b \in Bodies}
               \cup {SubSeq(b \o <<0, 0>>, 1, 10) : b \in Bodies}) \cup Mixed({11}),
     CNPJ |-> AsTexts(Sevens(13..15)) \cup Mixed(13..15) \cup {Of("hex", 14, 15)},
     CEP |-> AsTexts(Around({7, 8, 9})) \cup Mixed({7, 8, 9}),
     phone |-> AsTexts(Around({9, 10}) \cup Sevens(11..20) \cup Largest) \cup Mixed({9, 10, 12})]
=============================================================================
