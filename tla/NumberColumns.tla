---------------------------- MODULE NumberColumns ----------------------------
(***************************************************************************)
(* Texts that are kept in columns of numbers: the CPF and the phone number *)
(* of a person, the CNPJ and the CEP of a condominium.  A value object     *)
(* accepts or refuses the text, a mapper or an update writes it to the     *)
(* column, PostgreSQL keeps the number, and a mapper makes the text again. *)
(*                                                                         *)
(* Digits are digits; of the other characters a text may hold, its form    *)
(* tells what three readers make of them: Number() of JavaScript in the    *)
(* value objects, parseInt() in the mappers, and the cast of the database. *)
(* Punctuation has been taken out by the constructor.  A number is its     *)
(* digits without leading zeros.                                           *)
(***************************************************************************)
EXTENDS Integers, Sequences, Functions

CONSTANTS
    Texts,    \* kind -> the texts that requests carry
    Rounded   \* number of more than 15 digits -> what a double makes of it

Digit == 0..9
Kinds == {"CPF", "CNPJ", "CEP", "phone"}

\* Digits alone; digits with blanks or a sign around, or blanks alone; digits, or
\* none, in front of a point or an exponent, or Infinity; a prefix 0x; a prefix
\* 0b or 0o; anything that is no number.
Forms == {"digits", "around", "decimal", "hex", "binary", "letters"}

\* length counts all the characters.  The digits of a hex or binary text are
\* those of its number in base ten; of a decimal text, those of its integer
\* part.
Text == [form : Forms, digits : Seq(Digit), length : Nat]

\* The text of these digits.
Digits(s) == [form |-> "digits", digits |-> s, length |-> Len(s)]

\* What cannot be read, what is not there: no digits.
Error == <<-1>>
Null  == <<-2>>

ASSUME TextsAreTexts ==
    /\ DOMAIN Texts = Kinds
    /\ \A k \in Kinds : \A t \in Texts[k] :
          /\ t \in Text
          /\ t.form = "digits" => t.length = Len(t.digits)
          /\ t.form \in {"around", "decimal"} => t.length > Len(t.digits)

VARIABLES
    kind,    \* the field the request is about
    text,    \* what the request carries
    stage,   \* "typed", "refused", "rejected", "stored" or "loaded"
    column,  \* the number in the column
    loaded   \* the digits of the text made of the column

vars == <<kind, text, stage, column, loaded>>

Init ==
    /\ kind \in Kinds /\ text \in Texts[kind]
    /\ stage = "typed" /\ column = Null /\ loaded = Null

-----------------------------------------------------------------------------
(* Value objects.                                                          *)

\* The digit that follows the first n digits of s.  The slip is a border case
\* of the remainder.
CheckDigit_Mut(s, n) ==
    LET rest == FoldFunction(+, 0, [i \in 1..n |-> s[i] * (n + 2 - i)]) % 11
    IN  IF rest < 1 THEN 0 ELSE 11 - rest

CheckDigit(s, n) ==
    LET rest == FoldFunction(+, 0, [i \in 1..n |-> s[i] * (n + 2 - i)]) % 11
    IN  IF rest < 2 THEN 0 ELSE 11 - rest

\* The constructor of CPF.  A shorter text gives NaN, which equals no digit.
IsCpf(s) ==
    /\ Len(s) = 11
    /\ LET first == CheckDigit(s, 9)
       IN  s[10] = first /\ s[11] = CheckDigit([s EXCEPT ![10] = first], 10)

\* The constructors.  Number() is NaN for letters alone; what is not a digit
\* makes a CPF's sum NaN.
Accepts(k, t) ==
    \/ k = "CPF"   /\ t.form = "digits" /\ IsCpf(t.digits)
    \/ k = "CNPJ"  /\ t.form # "letters" /\ t.length = 14
    \/ k = "CEP"   /\ t.form # "letters" /\ t.length = 8
    \/ k = "phone" /\ t.form # "letters" /\ t.length \in 10..20

\* The length toString pads to.
MinLength(k) ==
    [CPF |-> 11, CNPJ |-> 14, CEP |-> 8, phone |-> 10][k]

-----------------------------------------------------------------------------
(* Numbers and texts.                                                      *)

Zero == <<0>>

\* The number these digits are.
Number(s) ==
    LET significant == {i \in DOMAIN s : s[i] # 0}
    IN  IF significant = {} THEN Zero
        ELSE SubSeq(s, CHOOSE i \in significant : \A j \in significant : i <= j, Len(s))

\* parseInt takes the digits in front and goes no further; it knows 0x, and
\* reads 0 of another prefix.  Nothing to read is NaN, which no column takes.
ParseInt(t) ==
    IF t.form = "binary" THEN Zero
    ELSE IF t.digits = <<>> THEN Error ELSE Number(t.digits)

\* The cast of a text to int or bigint reads all of it or fails.
Cast(t) ==
    IF t.form = "decimal" \/ t.digits = <<>> THEN Error ELSE Number(t.digits)

MaxBigint == <<9, 2, 2, 3, 3, 7, 2, 0, 3, 6, 8, 5, 4, 7, 7, 5, 8, 0, 7>>

\* A bigint holds the number.  (An int holds every number of eight characters.)
Fits(number) ==
    \/ Len(number) < 19
    \/ Len(number) = 19 /\ \A i \in 1..19 :
          number[i] > MaxBigint[i] => \E j \in 1..(i - 1) : number[j] < MaxBigint[j]

\* A double holds every number of 15 digits; of longer ones, which only phone
\* numbers are, it holds the nearest it can.
AsDouble(number) == IF Len(number) > 15 THEN Rounded[number] ELSE number

ASSUME RoundedAreNumbers ==
    /\ \A n \in DOMAIN Rounded : Rounded[n] \in Seq(Digit) /\ Len(Rounded[n]) > 15
    /\ \A t \in Texts["phone"] :
          Len(Number(t.digits)) > 15 /\ Fits(Number(t.digits)) => Number(t.digits) \in DOMAIN Rounded

\* toString of a value object.  The slip pads to one digit less.
Padded_Mut(k, number) ==
    [i \in 1..(MinLength(k) - 1 - Len(number)) |-> 0] \o number

Padded(k, number) ==
    [i \in 1..(MinLength(k) - Len(number)) |-> 0] \o number

\* What toClass makes of a column.  The CPF goes through its constructor before
\* it is padded, and every text goes through its constructor at the end; a phone
\* number that is 0 counts as none.  In the slip a phone number is cut to the
\* length it is padded to.
Loaded_Mut(k, number) ==
    LET padded == Padded(k, AsDouble(number))
    IN  IF k = "phone" THEN SubSeq(padded, 1, 10)
        ELSE IF (k = "CPF" => IsCpf(number)) /\ Accepts(k, Digits(padded)) THEN padded ELSE Error

Loaded(k, number) ==
    LET padded == Padded(k, AsDouble(number))
    IN  IF k = "phone" /\ number = Zero THEN Null
        ELSE IF (k = "CPF" => IsCpf(number)) /\ Accepts(k, Digits(padded)) THEN padded ELSE Error

-----------------------------------------------------------------------------

Refuse ==
    /\ stage = "typed" /\ ~Accepts(kind, text)
    /\ stage' = "refused"
    /\ UNCHANGED <<kind, text, column, loaded>>

Store(number) ==
    /\ stage = "typed" /\ Accepts(kind, text)
    /\ number # Error /\ Fits(number)
    /\ stage' = "stored"
    /\ column' = number
    /\ UNCHANGED <<kind, text, loaded>>

\* toTypeOrm of a new row: the CEP goes in as a number, the others as texts.
Insert == Store(IF kind = "CEP" THEN ParseInt(text) ELSE Cast(text))

\* PATCH of a condominium's CEP, of a user's or an employee's phone number.
Update == kind \in {"CEP", "phone"} /\ Store(Cast(text))

\* ViaCEP does not know the CEP of a new condominium; the database does not read
\* the text (versions of PostgreSQL differ about prefixes, and CockroachDB about
\* blanks); the number is too large.
Reject ==
    /\ stage = "typed" /\ Accepts(kind, text)
    /\ \/ kind = "CEP"
       \/ text.form # "digits"
       \/ ~Fits(Number(text.digits))
    /\ stage' = "rejected"
    /\ UNCHANGED <<kind, text, column, loaded>>

Load ==
    /\ stage = "stored"
    /\ stage' = "loaded"
    /\ loaded' = Loaded(kind, column)
    /\ UNCHANGED <<kind, text, column>>

Next == Refuse \/ Insert \/ Update \/ Reject \/ Load

Spec == Init /\ [][Next]_vars

-----------------------------------------------------------------------------

\* The official rule for the digit after the first n: ten times the weighted
\* sum, modulo 11, modulo 10.
Official(s, n) ==
    ((10 * FoldFunction(+, 0, [i \in 1..n |-> s[i] * (n + 2 - i)])) % 11) % 10

\* A CPF is accepted if and only if both of its check digits are the official
\* ones: the remainders 0 and 1 give the same digit.
CpfsAreTheOfficialOnes ==
    kind = "CPF" /\ stage # "typed" =>
        (stage # "refused" <=>
            /\ text.form = "digits" /\ text.length = 11
            /\ text.digits[10] = Official(text.digits, 9)
            /\ text.digits[11] = Official(text.digits, 10))

\* A CNPJ or CEP of digits is read as it was written, leading zeros included,
\* whichever request wrote it: on such texts UNIQUE on the columns is UNIQUE on
\* the texts.  A blank or a sign, which the constructors let pass, gives way to
\* zeros, and the number is the same: it meets the UNIQUE of the text of digits.
CondominiumNumbersComeBack ==
    kind \in {"CNPJ", "CEP"} /\ stage = "loaded" =>
        /\ text.form = "digits" => loaded = text.digits
        /\ text.form = "around" =>
              Len(loaded) = text.length /\ Number(loaded) = Number(text.digits)

\* A CPF that is read is the one that was written: a registry never comes back
\* with the CPF of somebody else.  So is a phone number of 15 digits at most,
\* but for zeros in front.  A longer one may come back as another number: the
\* constructor and the column take up to 19 digits, and the mapper makes a double
\* of them.
OnlyLeadingZerosAreLost ==
    kind \in {"CPF", "phone"} /\ stage = "loaded" /\ loaded \notin {Null, Error} =>
        \/ kind = "phone" /\ Len(Number(text.digits)) > 15
        \/ /\ Number(loaded) = Number(text.digits)
           /\ text.form = "digits" => Len(loaded) \in MinLength(kind)..text.length

\* Which CPFs those are that cannot be read: exactly those that start with 0.
CpfIsReadUnlessItStartsWithZero ==
    kind = "CPF" /\ stage = "loaded" =>
        loaded = IF text.digits[1] = 0 THEN Error ELSE text.digits

\* The test of the mapper of registries expects the registry back that it wrote,
\* and the test of CPF picks one that starts with 0 to convert to a number and
\* to a text again.
CpfComesBack == kind = "CPF" /\ stage = "loaded" => loaded = text.digits
=============================================================================
