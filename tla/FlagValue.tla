----------------------------- MODULE FlagValue -----------------------------
(***************************************************************************)
(* The texts of flag values (FlagValue in gflags.cc): what a text is       *)
(* parsed into, what a value is printed as, and the C library's strtol     *)
(* family as FlagValue uses it.  A text is a sequence of letters (a letter *)
(* may stand for a run of characters that is looked at as a whole).        *)
(***************************************************************************)
EXTENDS Integers, Sequences, SequencesExt

CONSTANTS
    Letter,        \* the letters
    Narrow, Wide,  \* the bits of an int32 or uint32, an int64 or uint64
    Double,        \* the doubles
    DoubleText,    \* how "%.17g" prints each of them
    Strtod         \* the double of each text strtod takes whole

ASSUME FlagValueAssumption ==
    /\ Narrow \in Nat \ {0} /\ Wide \in Nat /\ Narrow < Wide
    /\ {"-", "true", "false"} \cup {"0", "1", "2", "3", "4", "5", "6", "7", "8", "9"}
            \subseteq Letter
    /\ Double # {} /\ DoubleText \in [Double -> Seq(Letter)]
    /\ \A t \in DOMAIN Strtod : Strtod[t] \in Double
    /\ \A d \in Double : DoubleText[d] \in DOMAIN Strtod =>
            Strtod[DoubleText[d]] = d

Type == {"bool", "int32", "uint32", "int64", "uint64", "double", "string"}
Signed == {"int32", "int64"}
Unsigned == {"uint32", "uint64"}

Bits(type) == IF type \in {"int32", "uint32"} THEN Narrow ELSE Wide

\* The integers a type holds.
IntRange(type) ==
    IF type \in Signed
    THEN -(2 ^ (Bits(type) - 1)) .. (2 ^ (Bits(type) - 1) - 1)
    ELSE 0 .. (2 ^ Bits(type) - 1)

HasType(value, type) ==
    CASE type = "bool" -> value \in BOOLEAN
      [] type = "string" -> value \in Seq(Letter)
      [] type = "double" -> value \in Double
      [] type \in Signed \cup Unsigned -> value \in IntRange(type)

---------------------------------------------------------------------------
(* Letters.                                                                *)

IsSpace == {" ", "\t", "\n", "\r"}

DigitValue ==
    [c \in {"0", "1", "2", "3", "4", "5", "6", "7", "8", "9", "a", "f"} |->
        CASE c = "0" -> 0 [] c = "1" -> 1 [] c = "2" -> 2 [] c = "3" -> 3
          [] c = "4" -> 4 [] c = "5" -> 5 [] c = "6" -> 6 [] c = "7" -> 7
          [] c = "8" -> 8 [] c = "9" -> 9 [] c = "a" -> 10 [] c = "f" -> 15]

Digits(base) == { c \in DOMAIN DigitValue : DigitValue[c] < base }
Hexed == {"x", "X"}

Without(text, n) == SubSeq(text, n + 1, Len(text))

\* How many letters at the front of the text are in a set.
Lead(text, letters) ==
    Max({ n \in 0..Len(text) : \A i \in 1..n : text[i] \in letters })

\* The number that digits stand for.
Number(digits, base) ==
    LET upto[n \in 0..Len(digits)] ==
            IF n = 0 THEN 0 ELSE upto[n - 1] * base + DigitValue[digits[n]]
    IN  upto[Len(digits)]

\* printf("%d"): the digits of a natural number.
Decimal(n) ==
    LET letter(d) == CHOOSE c \in Digits(10) : DigitValue[c] = d
        digits[k \in 0..n] == IF k < 10 THEN <<letter(k)>>
                              ELSE Append(digits[k \div 10], letter(k % 10))
    IN  digits[n]

---------------------------------------------------------------------------
(* strtoll and strtoull: white space, a sign, the "0x" of base 16, digits. *)
(* "whole" says that end stands at the end of the text.                    *)

Scan(text, base) ==
    LET after == Without(text, Lead(text, IsSpace))
        minus == after # <<>> /\ after[1] = "-"
        plain == IF after # <<>> /\ after[1] \in {"-", "+"} THEN Tail(after)
                 ELSE after
        hexed == /\ base = 16 /\ Len(plain) >= 3
                 /\ plain[1] = "0" /\ plain[2] \in Hexed
                 /\ plain[3] \in Digits(16)
        body == IF hexed THEN Without(plain, 2) ELSE plain
        count == Lead(body, Digits(base))
    IN  [minus |-> minus,
         magnitude |-> Number(SubSeq(body, 1, count), base),
         whole |-> IF count = 0 THEN text = <<>> ELSE count = Len(body)]

strto64(text, base) ==
    LET s == Scan(text, base)
        n == IF s.minus THEN -s.magnitude ELSE s.magnitude
    IN  [value |-> n, whole |-> s.whole, errno |-> n \notin IntRange("int64")]

\* A minus sign negates in unsigned arithmetic, without an error.
strtou64(text, base) ==
    LET s == Scan(text, base)
        size == 2 ^ Wide
    IN  [value |-> IF s.minus THEN (size - s.magnitude) % size
                   ELSE s.magnitude,
         whole |-> s.whole,
         errno |-> s.magnitude >= size]

---------------------------------------------------------------------------
(* FlagValue::New, ParseFrom and ToString.                                 *)

New(type) ==
    CASE type = "bool" -> FALSE
      [] type = "string" -> <<>>
      [] type = "double" -> CHOOSE d \in Double : TRUE
      [] type \in Signed \cup Unsigned -> 0

Failed(type) == [ok |-> FALSE, value |-> New(type)]
Parsed(value) == [ok |-> TRUE, value |-> value]

\* strcasecmp against kTrue and kFalse.
kTrue == {"1", "t", "true", "y", "yes", "T", "True", "Y", "YES"}
kFalse == {"0", "f", "false", "n", "no", "F", "False", "N", "NO"}

Base(text) ==
    IF Len(text) >= 2 /\ text[1] = "0" /\ text[2] \in Hexed THEN 16 ELSE 10

\* Seeded faults: the 64-bit result is stored in 32 bits unchecked, or the
\* minus sign is not looked for once the spaces are skipped.
WrapsNarrow(type, text) ==
    LET r == strto64(text, Base(text))
        size == 2 ^ Bits(type)
    IN  IF text = <<>> \/ r.errno \/ ~r.whole THEN Failed(type)
        ELSE Parsed(((r.value + size \div 2) % size) - (size \div 2))

MinusUnsigned(type, text) ==
    LET r == strto64(text, Base(text))
    IN  IF text = <<>> \/ r.errno \/ ~r.whole THEN Failed(type)
        ELSE Parsed(r.value)

ParseSigned(type, text) ==
    LET r == strto64(text, Base(text))
    IN  IF text = <<>> \/ r.errno \/ ~r.whole
           \/ r.value \notin IntRange(type)
        THEN Failed(type)
        ELSE Parsed(r.value)

ParseUnsigned(type, text) ==
    LET from == Without(text, Lead(text, {" "}))
        r == strtou64(from, Base(text))
    IN  IF \/ text = <<>>
           \/ from # <<>> /\ from[1] = "-"
           \/ r.errno \/ ~r.whole
           \/ r.value \notin IntRange(type)
        THEN Failed(type)
        ELSE Parsed(r.value)

ParseFrom(type, text) ==
    CASE type = "bool" ->
            IF Len(text) = 1 /\ text[1] \in kTrue THEN Parsed(TRUE)
            ELSE IF Len(text) = 1 /\ text[1] \in kFalse THEN Parsed(FALSE)
            ELSE Failed(type)
      [] type = "string" -> Parsed(text)
      [] type = "double" ->
            IF text \in DOMAIN Strtod THEN Parsed(Strtod[text])
            ELSE Failed(type)
      [] type \in Signed -> ParseSigned(type, text)
      [] type \in Unsigned -> ParseUnsigned(type, text)

ValueToString(type, value) ==
    CASE type = "bool" -> IF value THEN <<"true">> ELSE <<"false">>
      [] type = "string" -> value
      [] type = "double" -> DoubleText[value]
      [] type \in Signed \cup Unsigned ->
            IF value < 0 THEN <<"-">> \o Decimal(-value) ELSE Decimal(value)

---------------------------------------------------------------------------
(* What a text means, in words of its own: the numeral it is, with no      *)
(* arithmetic that wraps.                                                  *)

Numeral(text, base) == text # <<>> /\ Lead(text, Digits(base)) = Len(text)

Meanings(type, text) ==
    LET rest(k) == SubSeq(text, k, Len(text))
        spaced(n) == \A i \in 1..n : text[i] \in IsSpace
        plain == { k \in 1..Len(text) : Numeral(rest(k), 10) /\ spaced(k - 1) }
        after(sign) == { k \in 2..Len(text) : /\ Numeral(rest(k), 10)
                                              /\ text[k - 1] = sign
                                              /\ spaced(k - 2) }
        hexadecimal == { k \in 3..Len(text) : /\ k = 3 /\ text[1] = "0"
                                              /\ text[2] \in Hexed
                                              /\ Numeral(rest(k), 16) }
        minus == IF type \in Unsigned THEN {} ELSE after("-")
    IN  IntRange(type) \cap
            ( { Number(rest(k), 10) : k \in plain \cup after("+") }
              \cup { -Number(rest(k), 10) : k \in minus }
              \cup { Number(rest(k), 16) : k \in hexadecimal } )

\* The texts of unsigned flags that are taken for numbers although they are
\* none: nothing but spaces, which is 0, and a minus sign behind a white
\* space other than a space, which is looked for in front of it only.
Mistaken(type, text) ==
    /\ type \in Unsigned
    /\ \/ text # <<>> /\ Lead(text, {" "}) = Len(text)
       \/ /\ Lead(text, {" "}) < Lead(text, IsSpace)
          /\ \E k \in 2..Len(text) : /\ k = Lead(text, IsSpace) + 1
                                    /\ text[k] = "-"
=============================================================================
