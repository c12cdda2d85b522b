----------------------- MODULE FlagsIntoStringProofs -----------------------
(***************************************************************************)
(* Proofs about FlagValue and FlagsIntoString.                             *)
(***************************************************************************)
EXTENDS FlagsIntoString, Induction, FiniteSetTheorems, SequenceTheorems, TLAPS

-----------------------------------------------------------------------------
(* Powers of two: the sets of numbers up to n are as many.                 *)

LEMMA PowerCounts ==
  ASSUME NEW n \in Nat
  PROVE  /\ IsFiniteSet(1..n) /\ IsFiniteSet(SUBSET (1..n))
         /\ Cardinality(SUBSET (1..n)) = 2 ^ n
<1>1. IsFiniteSet(1..n) /\ Cardinality(1..n) = n
  BY FS_Interval
<1>. QED
  BY <1>1, FS_SUBSET

LEMMA Powers ==
  ASSUME NEW m \in Nat, NEW n \in Nat, m <= n
  PROVE  2 ^ m \in Nat \ {0} /\ 2 ^ n \in Nat \ {0} /\ 2 ^ m <= 2 ^ n
<1>1. \A k \in Nat : 2 ^ k \in Nat
  BY PowerCounts, FS_CardinalityType
<1>2. SUBSET (1..m) \in SUBSET SUBSET (1..n)
  OBVIOUS
<1>3. Cardinality(SUBSET (1..m)) <= Cardinality(SUBSET (1..n))
  BY <1>2, PowerCounts, FS_Subset
<1>4. \A k \in Nat : 2 ^ k # 0
  <2> TAKE k \in Nat
  <2>1. SUBSET (1..k) # {}
    OBVIOUS
  <2>. QED
    BY <2>1, PowerCounts, FS_EmptySet
<1>. QED
  BY <1>1, <1>3, <1>4, PowerCounts

(* The ranges of the integers.                                             *)
LEMMA Ranges ==
  /\ \A type \in Signed \cup Unsigned : 0 \in IntRange(type) /\ IntRange(type) \in SUBSET Int
  /\ \A type \in Signed : IntRange(type) \in SUBSET IntRange("int64")
  /\ \A type \in Unsigned : IntRange(type) \in SUBSET (0 .. 2 ^ Wide - 1)
  /\ \A type \in Unsigned : \A n \in IntRange(type) : n >= 0
  /\ 2 ^ Wide \in Nat \ {0}
<1> DEFINE small == 2 ^ (Narrow - 1)
           large == 2 ^ (Wide - 1)
           smallU == 2 ^ Narrow
           largeU == 2 ^ Wide
<1>1. Narrow - 1 \in Nat /\ Wide - 1 \in Nat /\ Narrow \in Nat /\ Wide \in Nat /\ Narrow <= Wide
  BY FlagValueAssumption
<1>2. small \in Nat \ {0} /\ large \in Nat \ {0} /\ small <= large
  <2>1. Narrow - 1 <= Wide - 1
    BY <1>1
  <2>. QED
    BY <1>1, <2>1, Powers
<1>3. smallU \in Nat \ {0} /\ largeU \in Nat \ {0} /\ smallU <= largeU
  BY <1>1, Powers
<1>4. /\ IntRange("int32") = -small .. small - 1 /\ IntRange("int64") = -large .. large - 1
      /\ IntRange("uint32") = 0 .. smallU - 1 /\ IntRange("uint64") = 0 .. largeU - 1
  BY DEF IntRange, Bits, Signed
<1> HIDE DEF small, large, smallU, largeU
<1>5. /\ 0 \in IntRange("int32") /\ 0 \in IntRange("int64")
      /\ 0 \in IntRange("uint32") /\ 0 \in IntRange("uint64")
      /\ IntRange("int32") \in SUBSET IntRange("int64")
      /\ IntRange("uint32") \in SUBSET IntRange("uint64")
      /\ IntRange("int64") \in SUBSET Int
  BY <1>2, <1>3, <1>4
<1>6. \A n \in IntRange("uint64") : n >= 0 /\ n \in Int
  BY <1>3, <1>4
<1>. QED
  BY <1>3, <1>4, <1>5, <1>6 DEF Signed, Unsigned, largeU

(* How far letters go at the front of a text.                              *)
LEMMA LeadOf ==
  ASSUME NEW S, NEW s \in Seq(S), NEW letters
  PROVE  /\ Lead(s, letters) \in 0..Len(s)
         /\ \A i \in 1..Lead(s, letters) : s[i] \in letters
         /\ Lead(s, letters) < Len(s) => s[Lead(s, letters) + 1] \notin letters
<1> DEFINE T == {n \in 0..Len(s) : \A i \in 1..n : s[i] \in letters}
<1>1. T \in SUBSET (0..Len(s)) /\ T # {} /\ Len(s) \in Nat
  <2>1. 0 \in T
    OBVIOUS
  <2>. QED
    BY <2>1
<1> DEFINE m == Max(T)
<1>2. m \in T /\ \A k \in T : m >= k
  BY <1>1, GreatestMember
<1>3. Lead(s, letters) = m
  BY DEF Lead
<1> HIDE DEF m
<1>4. m \in 0..Len(s) /\ \A i \in 1..m : s[i] \in letters
  BY <1>2
<1>5. ASSUME m < Len(s) PROVE s[m + 1] \notin letters
  <2>1. m + 1 \notin T
    BY <1>2, <1>4
  <2>2. m + 1 \in 0..Len(s)
    BY <1>4, <1>5
  <2>3. PICK i \in 1..m + 1 : s[i] \notin letters
    BY <2>1, <2>2
  <2>4. i = m + 1
    BY <1>4, <2>3
  <2>. QED
    BY <2>3, <2>4
<1>. QED
  BY <1>3, <1>4, <1>5

(* It is the only number that is as far as they go.                        *)
LEMMA LeadIs ==
  ASSUME NEW S, NEW s \in Seq(S), NEW letters, NEW n \in 0..Len(s),
         \A i \in 1..n : s[i] \in letters, n < Len(s) => s[n + 1] \notin letters
  PROVE  Lead(s, letters) = n
<1>1. PICK m \in 0..Len(s) : m = Lead(s, letters)
  BY LeadOf
<1>2. /\ \A i \in 1..m : s[i] \in letters
      /\ m < Len(s) => s[m + 1] \notin letters
  BY <1>1, LeadOf
<1>3. ~(m < n)
  <2> SUFFICES ASSUME m < n PROVE FALSE
    OBVIOUS
  <2>1. m + 1 \in 1..n /\ m < Len(s)
    OBVIOUS
  <2>. QED
    BY <1>2, <2>1
<1>4. ~(n < m)
  <2> SUFFICES ASSUME n < m PROVE FALSE
    OBVIOUS
  <2>1. n + 1 \in 1..m /\ n < Len(s)
    OBVIOUS
  <2>. QED
    BY <1>2, <2>1
<1>5. m = n
  BY <1>3, <1>4
<1>. QED
  BY <1>1, <1>5

LEMMA WithoutOf ==
  ASSUME NEW S, NEW s \in Seq(S), NEW n \in 0..Len(s)
  PROVE  /\ Without(s, n) \in Seq(S) /\ Len(Without(s, n)) = Len(s) - n
         /\ \A i \in 1..Len(s) - n : Without(s, n)[i] = s[i + n]
<1>1. PICK m \in Nat : m = Len(s)
  OBVIOUS
<1>2. /\ n + 1 \in 1..m + 1 /\ m \in (n + 1) - 1..m /\ m - (n + 1) + 1 = m - n
      /\ \A i \in Int : i + (n + 1) - 1 = i + n
  BY <1>1
<1>3. /\ SubSeq(s, n + 1, m) \in Seq(S) /\ Len(SubSeq(s, n + 1, m)) = m - (n + 1) + 1
      /\ \A i \in 1..m - (n + 1) + 1 : SubSeq(s, n + 1, m)[i] = s[i + (n + 1) - 1]
  BY <1>1, <1>2, SliceOf
<1>. QED
  BY <1>1, <1>2, <1>3 DEF Without

-----------------------------------------------------------------------------
(* What a text is parsed into has the flag's type.                         *)

LEMMA Kinds ==
  /\ \A type \in Signed : type \notin Unsigned /\ type \notin {"bool", "string", "double"}
  /\ \A type \in Unsigned : type \notin {"bool", "string", "double"}
  /\ Type = {"bool", "string", "double"} \cup Signed \cup Unsigned
BY DEF Type, Signed, Unsigned

LEMMA HasTypeMeans ==
  ASSUME NEW value
  PROVE  /\ HasType(value, "bool") <=> value \in BOOLEAN
         /\ HasType(value, "string") <=> value \in Seq(Letter)
         /\ HasType(value, "double") <=> value \in Double
         /\ \A type \in Signed \cup Unsigned : HasType(value, type) <=> value \in IntRange(type)
<1>1. HasType(value, "bool") <=> value \in BOOLEAN
  BY DEF HasType, Signed, Unsigned
<1>2. HasType(value, "string") <=> value \in Seq(Letter)
  BY DEF HasType, Signed, Unsigned
<1>3. HasType(value, "double") <=> value \in Double
  BY DEF HasType, Signed, Unsigned
<1>4. ASSUME NEW type \in Signed \cup Unsigned
      PROVE  HasType(value, type) <=> value \in IntRange(type)
  <2>1. type \notin {"bool", "string", "double"}
    BY Kinds
  <2>. QED
    BY <2>1 DEF HasType, Signed, Unsigned
<1>. QED
  BY <1>1, <1>2, <1>3, <1>4

LEMMA ParsedIs ==
  ASSUME NEW value
  PROVE  Parsed(value).ok = TRUE /\ Parsed(value).value = value
BY Zenon DEF Parsed

LEMMA FailedIs ==
  ASSUME NEW type
  PROVE  Failed(type).ok = FALSE /\ Failed(type).value = New(type)
BY Zenon DEF Failed

LEMMA ParseFromIs ==
  ASSUME NEW t
  PROVE  /\ ParseFrom("bool", t) \in {Parsed(TRUE), Parsed(FALSE), Failed("bool")}
         /\ ParseFrom("string", t) = Parsed(t)
         /\ ParseFrom("double", t) =
               IF t \in DOMAIN Strtod THEN Parsed(Strtod[t]) ELSE Failed("double")
         /\ \A type \in Signed : ParseFrom(type, t) = ParseSigned(type, t)
         /\ \A type \in Unsigned : ParseFrom(type, t) = ParseUnsigned(type, t)
<1>1. ParseFrom("bool", t) \in {Parsed(TRUE), Parsed(FALSE), Failed("bool")}
  <2>1. ParseFrom("bool", t) = IF Len(t) = 1 /\ t[1] \in kTrue THEN Parsed(TRUE)
            ELSE IF Len(t) = 1 /\ t[1] \in kFalse THEN Parsed(FALSE)
            ELSE Failed("bool")
    BY DEF ParseFrom, Signed, Unsigned
  <2>. QED
    BY <2>1, Zenon
<1>2. ParseFrom("string", t) = Parsed(t)
  BY DEF ParseFrom, Signed, Unsigned
<1>3. ParseFrom("double", t) =
               IF t \in DOMAIN Strtod THEN Parsed(Strtod[t]) ELSE Failed("double")
  BY DEF ParseFrom, Signed, Unsigned
<1>4. ASSUME NEW type \in Signed PROVE ParseFrom(type, t) = ParseSigned(type, t)
  <2>1. type # "bool" /\ type # "string" /\ type # "double"
    BY Kinds
  <2>. QED
    BY <2>1 DEF ParseFrom, Signed, Unsigned
<1>5. ASSUME NEW type \in Unsigned PROVE ParseFrom(type, t) = ParseUnsigned(type, t)
  <2>1. type # "bool" /\ type # "string" /\ type # "double" /\ type \notin Signed
    BY Kinds
  <2>. QED
    BY <2>1 DEF ParseFrom, Signed, Unsigned
<1>. QED
  BY <1>1, <1>2, <1>3, <1>4, <1>5

LEMMA NewHasType ==
  ASSUME NEW type \in Type
  PROVE  HasType(New(type), type)
<1>1. HasType(New("bool"), "bool")
  BY HasTypeMeans DEF New, Signed, Unsigned
<1>2. HasType(New("string"), "string")
  <2>1. New("string") = <<>> /\ <<>> \in Seq(Letter)
    BY DEF New, Signed, Unsigned
  <2>. QED
    BY <2>1, HasTypeMeans
<1>3. HasType(New("double"), "double")
  <2>1. Double # {}
    BY FlagValueAssumption
  <2>. QED
    BY <2>1, HasTypeMeans DEF New, Signed, Unsigned
<1>4. ASSUME type \in Signed \cup Unsigned PROVE HasType(New(type), type)
  <2>1. New(type) = 0
    BY <1>4 DEF New, Signed, Unsigned
  <2>. QED
    BY <1>4, <2>1, Ranges, HasTypeMeans
<1>. QED
  BY <1>1, <1>2, <1>3, <1>4, Kinds

LEMMA ParseHasType ==
  ASSUME NEW type \in Type, NEW t \in Seq(Letter)
  PROVE  /\ ParseFrom(type, t).ok \in BOOLEAN
         /\ HasType(ParseFrom(type, t).value, type)
<1> DEFINE Good(r) == r.ok \in BOOLEAN /\ HasType(r.value, type)
<1>0. Good(Failed(type))
  BY NewHasType, FailedIs, Zenon
<1>00. \A v : HasType(v, type) => Good(Parsed(v))
  BY ParsedIs, Zenon
<1> HIDE DEF Good
<1> SUFFICES Good(ParseFrom(type, t))
  BY DEF Good
<1>1. CASE type = "bool"
  <2>1. Good(Parsed(TRUE)) /\ Good(Parsed(FALSE))
    BY <1>00, <1>1, HasTypeMeans
  <2>. QED
    BY <1>0, <1>1, <2>1, ParseFromIs
<1>2. CASE type = "string"
  BY <1>00, <1>2, HasTypeMeans, ParseFromIs
<1>3. CASE type = "double"
  <2>1. \A x \in DOMAIN Strtod : Strtod[x] \in Double
    BY FlagValueAssumption
  <2>. QED
    BY <1>0, <1>00, <1>3, <2>1, HasTypeMeans, ParseFromIs
<1>4. \A v \in IntRange(type) : type \in Signed \cup Unsigned => Good(Parsed(v))
  BY <1>00, HasTypeMeans
<1>5. CASE type \in Signed
  <2>1. ParseFrom(type, t) = ParseSigned(type, t)
    BY <1>5, ParseFromIs
  <2>2. \/ ParseSigned(type, t) = Failed(type)
        \/ \E v \in IntRange(type) : ParseSigned(type, t) = Parsed(v)
    BY DEF ParseSigned
  <2>. QED
    BY <1>0, <1>4, <1>5, <2>1, <2>2
<1>6. CASE type \in Unsigned
  <2>1. ParseFrom(type, t) = ParseUnsigned(type, t)
    BY <1>6, ParseFromIs
  <2>2. \/ ParseUnsigned(type, t) = Failed(type)
        \/ \E v \in IntRange(type) : ParseUnsigned(type, t) = Parsed(v)
    BY DEF ParseUnsigned
  <2>. QED
    BY <1>0, <1>4, <1>6, <2>1, <2>2
<1>. QED
  BY <1>1, <1>2, <1>3, <1>5, <1>6, Kinds

-----------------------------------------------------------------------------
(* Printed numbers.                                                        *)

DigitOf(d) == CHOOSE c \in Digits(10) : DigitValue[c] = d

LEMMA DigitOfIs ==
  ASSUME NEW d \in 0..9
  PROVE  DigitOf(d) \in Digits(10) /\ DigitValue[DigitOf(d)] = d
<1>1. \E c \in Digits(10) : DigitValue[c] = d
  <2>1. \E c \in DOMAIN DigitValue : DigitValue[c] = d
    BY DEF DigitValue
  <2>. QED
    BY <2>1 DEF Digits
<1>. QED
  BY <1>1 DEF DigitOf

LEMMA DigitsAreLetters ==
  /\ Digits(10) = {"0", "1", "2", "3", "4", "5", "6", "7", "8", "9"}
  /\ \A c \in DOMAIN DigitValue : DigitValue[c] \in Nat
<1>1. \A c \in DOMAIN DigitValue : DigitValue[c] \in Nat
  BY DEF DigitValue
<1>2. Digits(10) = {"0", "1", "2", "3", "4", "5", "6", "7", "8", "9"}
  BY DEF Digits, DigitValue
<1>. QED
  BY <1>1, <1>2

(* The digits of k from those of k \div 10.                                *)
PrintsTo(f, n) ==
  f = [k \in 0..n |-> IF k < 10 THEN <<DigitOf(k)>> ELSE Append(f[k \div 10], DigitOf(k % 10))]

LEMMA PrintsToAt ==
  ASSUME NEW n \in Nat, NEW f, PrintsTo(f, n), NEW k \in 0..n
  PROVE  f[k] = IF k < 10 THEN <<DigitOf(k)>> ELSE Append(f[k \div 10], DigitOf(k % 10))
<1> DEFINE E(j) == IF j < 10 THEN <<DigitOf(j)>> ELSE Append(f[j \div 10], DigitOf(j % 10))
<1>1. f = [j \in 0..n |-> E(j)]
  BY DEF PrintsTo
<1> HIDE DEF E
<1>2. f[k] = E(k)
  BY <1>1
<1>. QED
  BY <1>2 DEF E

LEMMA DivideByTen ==
  ASSUME NEW k \in Nat, k >= 10
  PROVE  k \div 10 \in 0..k - 1 /\ k % 10 \in 0..9 /\ k = 10 * (k \div 10) + (k % 10)
OBVIOUS

LEMMA PrintingExists ==
  ASSUME NEW n \in Nat
  PROVE  \E f \in [0..n -> Seq(Digits(10))] : PrintsTo(f, n)
<1> DEFINE D == Digits(10)
           p == [k \in 0..n |-> IF k < 10 THEN k ELSE k \div 10]
           B == [k \in 0..n |-> IF k < 10 THEN <<DigitOf(k)>> ELSE <<>>]
           G == [k \in 0..n |-> [s \in Seq(D) |-> IF k < 10 THEN s ELSE Append(s, DigitOf(k % 10))]]
<1>1. p \in [0..n -> Nat]
  BY DivideByTen
<1>2. ASSUME NEW k \in 0..n, k < 10 PROVE DigitOf(k) \in D
  BY <1>2, DigitOfIs
<1>3. ASSUME NEW k \in 0..n, ~(k < 10) PROVE DigitOf(k % 10) \in D
  BY <1>3, DivideByTen, DigitOfIs
<1> HIDE DEF D
<1>4. B \in [0..n -> Seq(D)]
  BY <1>2
<1>5. G \in [0..n -> [Seq(D) -> Seq(D)]]
  BY <1>3
<1>6. PICK f \in [0..n -> Seq(D)] : Descends(f, n, p, B, G)
  <2> HIDE DEF p, B, G
  <2>. QED
    BY <1>1, <1>4, <1>5, DescentExists
<1>7. ASSUME NEW k \in 0..n
      PROVE  f[k] = IF k < 10 THEN <<DigitOf(k)>> ELSE Append(f[k \div 10], DigitOf(k % 10))
  <2>1. f[k] = IF p[k] < k THEN G[k][f[p[k]]] ELSE B[k]
    BY <1>6 DEF Descends
  <2>2. CASE k < 10
    BY <2>1, <2>2
  <2>3. CASE ~(k < 10)
    <3>1. k \div 10 \in 0..k - 1
      BY <2>3, DivideByTen
    <3>2. p[k] = k \div 10 /\ k \div 10 \in 0..n /\ k \div 10 < k
      BY <2>3, <3>1
    <3>3. f[k \div 10] \in Seq(D)
      BY <3>2
    <3>. QED
      BY <2>1, <2>3, <3>2, <3>3
  <2>. QED
    BY <2>2, <2>3
<1>. QED
  BY <1>7 DEF PrintsTo, D

LEMMA PrintingUnique ==
  ASSUME NEW m \in Nat, NEW n \in Nat, m <= n, NEW f, NEW g, PrintsTo(f, m), PrintsTo(g, n)
  PROVE  \A k \in 0..m : f[k] = g[k]
<1> DEFINE T == {k \in 0..m : f[k] = g[k]}
<1>1. ASSUME NEW k \in 0..m, \A j \in 0..k - 1 : j \in T PROVE k \in T
  <2>1. /\ f[k] = IF k < 10 THEN <<DigitOf(k)>> ELSE Append(f[k \div 10], DigitOf(k % 10))
        /\ g[k] = IF k < 10 THEN <<DigitOf(k)>> ELSE Append(g[k \div 10], DigitOf(k % 10))
    <3>1. k \in 0..n
      OBVIOUS
    <3>. QED
      BY <3>1, PrintsToAt
  <2>2. CASE k < 10
    BY <2>1, <2>2
  <2>3. CASE ~(k < 10)
    <3>1. k \div 10 \in T
      BY <1>1, <2>3, DivideByTen
    <3>. QED
      BY <2>1, <2>3, <3>1
  <2>. QED
    BY <2>2, <2>3
<1>2. \A k \in 0..m : k \in T
  <2> HIDE DEF T
  <2>. QED
    BY <1>1, StrongInduction
<1>. QED
  BY <1>2

LEMMA DecimalIs ==
  ASSUME NEW n \in Nat
  PROVE  /\ Decimal(n) \in Seq(Digits(10))
         /\ n < 10 => Decimal(n) = <<DigitOf(n)>>
         /\ n >= 10 => Decimal(n) = Append(Decimal(n \div 10), DigitOf(n % 10))
<1> DEFINE Printed(m) == CHOOSE f : PrintsTo(f, m)
<1>1. ASSUME NEW m \in Nat PROVE PrintsTo(Printed(m), m)
  BY PrintingExists
<1>2. ASSUME NEW m \in Nat PROVE Decimal(m) = Printed(m)[m]
  BY DEF Decimal, PrintsTo, DigitOf
<1>3. PICK f \in [0..n -> Seq(Digits(10))] : PrintsTo(f, n)
  BY PrintingExists
<1>4. Decimal(n) = f[n]
  BY <1>1, <1>2, <1>3, PrintingUnique
<1>5. f[n] = IF n < 10 THEN <<DigitOf(n)>> ELSE Append(f[n \div 10], DigitOf(n % 10))
  <2>1. n \in 0..n
    OBVIOUS
  <2>. QED
    BY <1>3, <2>1, PrintsToAt
<1>6. ASSUME n >= 10 PROVE Decimal(n \div 10) = f[n \div 10]
  <2>1. PICK q \in 0..n - 1 : q = n \div 10
    BY <1>6, DivideByTen
  <2>2. q \in Nat /\ q <= n
    OBVIOUS
  <2>3. PrintsTo(Printed(q), q) /\ Decimal(q) = Printed(q)[q]
    BY <1>1, <1>2, <2>2
  <2> HIDE DEF Printed
  <2>4. \A k \in 0..q : Printed(q)[k] = f[k]
    BY <1>3, <2>2, <2>3, PrintingUnique
  <2>. QED
    BY <2>1, <2>2, <2>3, <2>4
<1>7. f[n] \in Seq(Digits(10))
  BY <1>3
<1>. QED
  BY <1>4, <1>5, <1>6, <1>7

-----------------------------------------------------------------------------
(* What is written.                                                        *)

LEMMA ValueToStringType ==
  ASSUME NEW type \in Type, NEW v, HasType(v, type)
  PROVE  ValueToString(type, v) \in Seq(Letter)
<1>0. {"-", "true", "false"} \in SUBSET Letter /\ Digits(10) \in SUBSET Letter
  BY FlagValueAssumption, DigitsAreLetters
<1>1. CASE type = "bool"
  <2>1. ValueToString(type, v) \in {<<"true">>, <<"false">>}
    BY <1>1 DEF ValueToString, Signed, Unsigned
  <2>2. <<"true">> \in Seq(Letter) /\ <<"false">> \in Seq(Letter)
    BY <1>0
  <2>. QED
    BY <2>1, <2>2
<1>2. CASE type = "string"
  <2>1. ValueToString(type, v) = v
    BY <1>2 DEF ValueToString, Signed, Unsigned
  <2>. QED
    BY <1>2, <2>1, HasTypeMeans
<1>3. CASE type = "double"
  <2>1. ValueToString(type, v) = DoubleText[v]
    BY <1>3 DEF ValueToString, Signed, Unsigned
  <2>2. v \in Double
    BY <1>3, HasTypeMeans
  <2>. QED
    BY <2>1, <2>2, FlagValueAssumption
<1>4. CASE type \in Signed \cup Unsigned
  <2>1. ValueToString(type, v) = IF v < 0 THEN <<"-">> \o Decimal(-v) ELSE Decimal(v)
    BY <1>4 DEF ValueToString, Signed, Unsigned
  <2>2. v \in Int
    BY <1>4, HasTypeMeans, Ranges
  <2>3. \A n \in Nat : Decimal(n) \in Seq(Letter)
    BY <1>0, DecimalIs
  <2>4. v < 0 => -v \in Nat
    BY <2>2
  <2>5. v >= 0 => v \in Nat
    BY <2>2
  <2>6. <<"-">> \in Seq(Letter)
    BY <1>0
  <2>. QED
    BY <2>1, <2>2, <2>3, <2>4, <2>5, <2>6
<1>. QED
  BY <1>1, <1>2, <1>3, <1>4, Kinds

LEMMA NamesAre ==
  /\ Names \in SUBSET Letter
  /\ \A k \in DOMAIN Name : Name[k] \in Names
  /\ \A n \in Names : TypeOf[n] \in Type
<1>1. Name \in Seq(Letter) /\ TypeOf \in [Names -> Type]
  BY FlagsIntoStringAssumption
<1>. QED
  BY <1>1 DEF Names, Range

LEMMA LineType ==
  ASSUME Typed(flags), NEW n \in Names
  PROVE  Line(n) \in Seq(Letter)
<1>1. ValueToString(TypeOf[n], flags[n]) \in Seq(Letter)
  BY NamesAre, ValueToStringType DEF Typed
<1>2. {"-", "=", "\n", n} \in SUBSET Letter
  BY NamesAre, FlagValueAssumption, FlagsIntoStringAssumption
<1>3. <<"-", "-", n, "=">> \in Seq(Letter) /\ <<"\n">> \in Seq(Letter)
  BY <1>2
<1>. QED
  BY <1>1, <1>3 DEF Line

LEMMA WrittenType ==
  ASSUME Typed(flags), NEW names \in SUBSET Names
  PROVE  TheseCommandlineFlagsIntoString(names) \in Seq(Letter)
<1> DEFINE E(k) == IF Name[k] \in names THEN Line(Name[k]) ELSE <<>>
           s == [k \in DOMAIN Name |-> E(k)]
<1>1. \A k \in DOMAIN Name : E(k) \in Seq(Letter)
  BY LineType, NamesAre
<1>2. PICK m \in Nat : DOMAIN Name = 1..m
  BY FlagsIntoStringAssumption
<1> HIDE DEF E
<1>3. s \in Seq(Seq(Letter))
  BY <1>1, <1>2
<1> HIDE DEF s
<1>4. FlattenSeq(s) \in Seq(Letter)
  <2>1. PICK f \in [0..Len(s) -> Seq(Letter)] : FlattenSeq(s) = f[Len(s)]
    BY <1>3, FlattenIs
  <2>2. Len(s) \in 0..Len(s)
    BY <1>3
  <2>. QED
    BY <2>1, <2>2
<1>. QED
  BY <1>4 DEF TheseCommandlineFlagsIntoString, s, E

-----------------------------------------------------------------------------
(* What is read.                                                           *)

AFrame == [kind : {"lines"} \cup Recursive, rest : Seq(Letter), relevant : BOOLEAN,
           inSection : BOOLEAN]

LEMMA FrameType ==
  ASSUME NEW s \in Seq(Letter)
  PROVE  Frame(s) \in AFrame
BY DEF Frame, AFrame

LEMMA TopFrame ==
  ASSUME frames \in Seq(AFrame), frames # <<>>
  PROVE  /\ Last(frames) \in AFrame /\ Last(frames).rest \in Seq(Letter)
         /\ Last(frames).relevant \in BOOLEAN /\ Last(frames).inSection \in BOOLEAN
         /\ Front(frames) \in Seq(AFrame)
<1>1. PICK m \in Nat : m = Len(frames)
  OBVIOUS
<1>2. m # 0
  BY <1>1
<1>3. frames[m] \in AFrame
  BY <1>1, <1>2
<1>4. SubSeq(frames, 1, m - 1) \in Seq(AFrame)
  <2>1. m - 1 \in 0..m
    BY <1>2
  <2>. QED
    BY <1>1, <2>1, FrontOf
<1>. QED
  BY <1>1, <1>3, <1>4 DEF Last, Front, AFrame

LEMMA ContentsType ==
  ASSUME frames \in Seq(AFrame), frames # <<>>
  PROVE  Contents \in Seq(Letter)
BY TopFrame, LeadOf, WithoutOf DEF Contents

(* Where the line ends: behind all letters but one that breaks it.         *)
LEMMA LineEndIs ==
  ASSUME NEW s \in Seq(Letter)
  PROVE  LineEnd(s) \in 1..Len(s) + 1
<1> DEFINE at(c) == {k \in 1..Len(s) : s[k] = c}
           ends == IF at("\r") # {} THEN at("\r") ELSE at("\n")
<1>1. ends \in SUBSET (1..Len(s)) /\ ends \in SUBSET Nat
  OBVIOUS
<1>2. LineEnd(s) = IF ends = {} THEN Len(s) + 1 ELSE Min(ends)
  BY DEF LineEnd
<1> HIDE DEF ends
<1>3. ends # {} => Min(ends) \in ends
  BY <1>1, LeastMember
<1>4. PICK m \in Nat : m = Len(s)
  OBVIOUS
<1>5. \A k \in 1..m : k \in 1..m + 1
  OBVIOUS
<1>6. m + 1 \in 1..m + 1
  OBVIOUS
<1>7. CASE ends = {}
  BY <1>2, <1>4, <1>6, <1>7
<1>8. CASE ends # {}
  <2>1. LineEnd(s) \in 1..m
    BY <1>1, <1>2, <1>3, <1>4, <1>8
  <2>. QED
    BY <1>4, <1>5, <2>1
<1>. QED
  BY <1>7, <1>8

LEMMA CurrentLineType ==
  ASSUME frames \in Seq(AFrame), frames # <<>>
  PROVE  CurrentLine \in Seq(Letter)
<1>1. PICK c \in Seq(Letter) : c = Contents
  BY ContentsType
<1>2. PICK e \in 1..Len(c) + 1 : e = LineEnd(c)
  BY LineEndIs
<1>3. e - 1 \in 0..Len(c)
  BY <1>2
<1>. QED
  BY <1>1, <1>2, <1>3, FrontOf DEF CurrentLine

LEMMA AdvanceType ==
  ASSUME frames \in Seq(AFrame), frames # <<>>, NEW r \in BOOLEAN, NEW i \in BOOLEAN
  PROVE  Advance(r, i) \in Seq(AFrame)
<1>1. PICK c \in Seq(Letter) : c = Contents
  BY ContentsType
<1>2. PICK e \in 1..Len(c) + 1 : e = LineEnd(c)
  BY LineEndIs
<1>3. CASE e > Len(c)
  BY <1>1, <1>2, <1>3, TopFrame DEF Advance
<1>4. CASE ~(e > Len(c))
  <2>1. e \in 0..Len(c)
    BY <1>4
  <2>2. Without(c, e) \in Seq(Letter)
    BY <2>1, WithoutOf
  <2>3. [kind |-> "lines", rest |-> Without(c, e), relevant |-> r, inSection |-> i] \in AFrame
    BY <2>2 DEF AFrame
  <2>4. Advance(r, i) = Append(Front(frames),
                          [kind |-> "lines", rest |-> Without(c, e), relevant |-> r,
                           inSection |-> i])
    BY <1>1, <1>2, <1>4 DEF Advance
  <2>. QED
    BY <2>3, <2>4, TopFrame
<1>. QED
  BY <1>3, <1>4

LEMMA ArgumentType ==
  ASSUME frames \in Seq(AFrame), frames # <<>>, LineStarts("-")
  PROVE  Argument \in Seq(Letter)
<1>1. PICK s \in Seq(Letter) : s = CurrentLine
  BY CurrentLineType
<1>2. PICK n \in 0..Len(s) : n = IF Len(s) > 1 /\ s[2] = "-" THEN 2 ELSE 1
  <2>1. s # <<>>
    BY <1>1 DEF LineStarts
  <2>2. Len(s) \in Nat /\ Len(s) # 0
    BY <2>1
  <2>. QED
    BY <2>2
<1>. QED
  BY <1>1, <1>2, WithoutOf DEF Argument

LEMMA FlagsFound ==
  ASSUME NEW key
  PROVE  FindFlagLocked(key) \in SUBSET Names
BY DEF FindFlagLocked

(* A setting names a flag, and what it is set to is a text.                *)
LEMMA SplitType ==
  ASSUME NEW a \in Seq(Letter), NEW s \in SplitArgumentLocked(a)
  PROVE  s.flag \in Names /\ s.value \in Seq(Letter)
<1>1. PICK l \in 0..Len(a) : l = Lead(a, Letter \ {"="})
  BY LeadOf
<1>2. PICK key : key = SubSeq(a, 1, l)
  OBVIOUS
<1>3. PICK flag \in SUBSET Names : flag = FindFlagLocked(key)
  BY FlagsFound
<1>4. PICK positive \in SUBSET Names :
         positive = IF flag = {} /\ key # <<>> /\ key[1] = "no"
                    THEN FindFlagLocked(Tail(key)) ELSE {}
  BY FlagsFound
<1>5. PICK one \in Seq(Letter), zero \in Seq(Letter) : one = <<"1">> /\ zero = <<"0">>
  <2>1. "1" \in Letter /\ "0" \in Letter
    BY FlagValueAssumption
  <2>2. <<"1">> \in Seq(Letter) /\ <<"0">> \in Seq(Letter)
    BY <2>1
  <2>. QED
    BY <2>2
<1>6. PICK value \in Seq(Letter) : value = IF l < Len(a) THEN Without(a, l + 1) ELSE one
  <2>1. l < Len(a) => l + 1 \in 0..Len(a)
    OBVIOUS
  <2>. QED
    BY <2>1, WithoutOf
<1>7. \/ \E n \in flag : s = [flag |-> n, value |-> value]
      \/ \E n \in positive : s = [flag |-> n, value |-> zero]
  BY <1>1, <1>2, <1>3, <1>4, <1>5, <1>6 DEF SplitArgumentLocked
<1>8. PICK n \in Names, v \in Seq(Letter) : s = [flag |-> n, value |-> v]
  BY <1>7
<1>9. s.flag = n /\ s.value = v
  BY <1>8
<1>. QED
  BY <1>9

(* The entries of a list.                                                  *)
LEMMA EntryType ==
  ASSUME NEW list \in Seq(Letter)
  PROVE  Entry(list) \in Seq(Letter) /\ Behind(list) \in Seq(Letter)
<1>1. PICK l \in 0..Len(list) : l = Lead(list, Letter \ {","})
  BY LeadOf
<1>2. Entry(list) \in Seq(Letter) /\ Len(Entry(list)) = l
  BY <1>1, FrontOf DEF Entry
<1>3. PICK m \in Nat : m = Len(list)
  OBVIOUS
<1>4. {l + 1, m} \in SUBSET Nat /\ {l + 1, m} # {} /\ m \in {l + 1, m}
  BY <1>3
<1>5. Min({l + 1, m}) \in 0..m
  <2>1. Min({l + 1, m}) \in Nat /\ Min({l + 1, m}) <= m
    BY <1>4, LeastMember
  <2>. QED
    BY <1>3, <2>1
<1>6. Behind(list) = Without(list, Min({l + 1, m}))
  BY <1>2, <1>3 DEF Behind
<1>. QED
  BY <1>2, <1>3, <1>5, <1>6, WithoutOf

LEMMA NextEntryType ==
  ASSUME frames \in Seq(AFrame), frames # <<>>
  PROVE  /\ NextEntry \in Seq(AFrame)
         /\ \E x \in AFrame : NextEntry = Append(Front(frames), x)
<1>1. PICK x \in AFrame : x = Last(frames)
  BY TopFrame
<1>2. Behind(x.rest) \in Seq(Letter)
  BY EntryType DEF AFrame
<1>3. [x EXCEPT !.rest = Behind(@)] \in AFrame
  BY <1>2 DEF AFrame
<1>4. NextEntry = Append(Front(frames), [x EXCEPT !.rest = Behind(@)])
  BY <1>1 DEF NextEntry
<1>. QED
  BY <1>3, <1>4, TopFrame

-----------------------------------------------------------------------------
(* What is on top once a line or an entry has been read.                   *)

Pushed(callers, fs) == fs = callers \/ \E x \in AFrame : fs = Append(callers, x)

LEMMA PushedType ==
  ASSUME NEW callers \in Seq(AFrame), NEW fs, Pushed(callers, fs)
  PROVE  fs \in Seq(AFrame)
BY DEF Pushed

LEMMA ListReads ==
  ASSUME NEW name \in Recursive, NEW list \in Seq(Letter), NEW callers,
         ProcessListLocked(name, list, callers)
  PROVE  /\ pc' \in {pc, "exit"} /\ Pushed(callers, frames')
         /\ list = <<>> => frames' = callers
<1>1. PICK x : x = [Frame(list) EXCEPT !.kind = name]
  OBVIOUS
<1>2. x \in AFrame
  BY <1>1 DEF Frame, AFrame
<1>3. frames' \in {callers, Append(callers, x)} /\ (list = <<>> => frames' = callers)
  BY <1>1 DEF ProcessListLocked
<1>4. pc' \in {pc, "exit"}
  BY DEF ProcessListLocked
<1>. QED
  BY <1>2, <1>3, <1>4 DEF Pushed

LEMMA SetTyped ==
  ASSUME Typed(flags), NEW n \in Names, NEW v, HasType(v, TypeOf[n])
  PROVE  Typed([flags EXCEPT ![n] = v])
<1> DEFINE g == [flags EXCEPT ![n] = v]
<1>1. flags = [k \in Names |-> flags[k]] /\ \A k \in Names : HasType(flags[k], TypeOf[k])
  BY DEF Typed
<1>2. g = [k \in Names |-> g[k]]
  BY <1>1
<1>3. ASSUME NEW k \in Names PROVE HasType(g[k], TypeOf[k])
  <2>1. CASE k = n
    <3>1. g[k] = v
      BY <1>1, <2>1
    <3>. QED
      BY <2>1, <3>1
  <2>2. CASE k # n
    <3>1. g[k] = flags[k]
      BY <1>1, <2>2
    <3>. QED
      BY <1>1, <3>1
  <2>. QED
    BY <2>1, <2>2
<1>. QED
  BY <1>2, <1>3 DEF Typed

LEMMA OptionReads ==
  ASSUME Typed(flags), NEW name \in Names, NEW value \in Seq(Letter), NEW callers,
         ProcessSingleOptionLocked(name, value, callers)
  PROVE  /\ pc' \in {pc, "exit"} /\ Pushed(callers, frames') /\ Typed(flags')
         /\ \A key \in errors' : key \in errors \/ key \in Seq(Letter)
<1>1. PICK parsed : parsed = ParseFrom(TypeOf[name], value)
  OBVIOUS
<1>2. HasType(parsed.value, TypeOf[name])
  BY <1>1, NamesAre, ParseHasType
<1>3. \/ /\ errors' = errors \cup {<<name>>} /\ frames' = callers
         /\ pc' = pc /\ flags' = flags
      \/ /\ flags' = [flags EXCEPT ![name] = parsed.value] /\ errors' = errors
         /\ \/ name \in Recursive /\ ProcessListLocked(name, value, callers)
            \/ frames' = callers /\ pc' = pc
  BY <1>1 DEF ProcessSingleOptionLocked
<1>4. Typed([flags EXCEPT ![name] = parsed.value])
  BY <1>2, SetTyped
<1>5. Typed(flags')
  BY <1>3, <1>4
<1>6. <<name>> \in Seq(Letter)
  <2>1. name \in Letter
    BY NamesAre
  <2>. QED
    BY <2>1
<1>7. \A key \in errors' : key \in errors \/ key \in Seq(Letter)
  BY <1>3, <1>6
<1>8. pc' \in {pc, "exit"} /\ Pushed(callers, frames')
  BY <1>3, ListReads DEF Pushed
<1>. QED
  BY <1>5, <1>7, <1>8

LEMMA LineReads ==
  ASSUME TypeOK, ReadFlagLine
  PROVE  /\ pc' \in {pc, "exit"} /\ Pushed(Advance(TRUE, FALSE), frames') /\ Typed(flags')
         /\ \A key \in errors' : key \in Seq(Letter)
<1>1. frames \in Seq(AFrame) /\ frames # <<>> /\ LineStarts("-")
  BY DEF TypeOK, AFrame, ReadFlagLine, Reading
<1>2. Typed(flags) /\ \A key \in errors : key \in Seq(Letter)
  BY DEF TypeOK
<1>3. PICK a \in Seq(Letter) : a = Argument
  BY <1>1, ArgumentType
<1>4. PICK after : after = Advance(TRUE, FALSE)
  OBVIOUS
<1>5. CASE frames' = after /\ UNCHANGED <<pc, flags, errors>>
  BY <1>2, <1>4, <1>5 DEF Pushed, Typed
<1>6. ASSUME NEW s \in SplitArgumentLocked(a),
             ProcessSingleOptionLocked(s.flag, s.value, after)
      PROVE  /\ pc' \in {pc, "exit"} /\ Pushed(after, frames') /\ Typed(flags')
             /\ \A key \in errors' : key \in Seq(Letter)
  <2>1. PICK n \in Names, v \in Seq(Letter) : n = s.flag /\ v = s.value
    BY <1>6, SplitType
  <2>2. ProcessSingleOptionLocked(n, v, after)
    BY <1>6, <2>1
  <2>. QED
    BY <1>2, <2>2, OptionReads
<1>7. \/ frames' = after /\ UNCHANGED <<pc, flags, errors>>
      \/ \E s \in SplitArgumentLocked(a) : ProcessSingleOptionLocked(s.flag, s.value, after)
  BY <1>3, <1>4 DEF ReadFlagLine
<1>. QED
  BY <1>4, <1>5, <1>6, <1>7

LEMMA FileReads ==
  ASSUME ReadFile
  PROVE  pc' \in {pc, "exit"} /\ Pushed(NextEntry, frames')
<1>1. \A f \in DOMAIN Nested : Frame(Nested[f]) \in AFrame
  BY FlagsIntoStringAssumption, FrameType
<1>2. PICK file : file = Entry(Last(frames).rest)
  OBVIOUS
<1>3. \/ file \in DOMAIN Nested /\ frames' = Append(NextEntry, Frame(Nested[file])) /\ pc' = pc
      \/ frames' = NextEntry /\ pc' = "exit"
  BY <1>2 DEF ReadFile
<1>. QED
  BY <1>1, <1>3 DEF Pushed

LEMMA VariableReads ==
  ASSUME TypeOK, ReadVariable
  PROVE  /\ pc' \in {pc, "exit"} /\ Pushed(NextEntry, frames') /\ Typed(flags')
         /\ \A key \in errors' \cup undefined' : key \in Seq(Letter)
<1>1. frames \in Seq(AFrame) /\ frames # <<>>
  BY DEF TypeOK, AFrame, ReadVariable, Reading
<1>2. Typed(flags) /\ \A key \in errors \cup undefined : key \in Seq(Letter)
  BY DEF TypeOK
<1>3. PICK flagname \in Seq(Letter) : flagname = Entry(Last(frames).rest)
  BY <1>1, TopFrame, EntryType
<1>4. undefined' \in {undefined, undefined \cup {flagname}}
  BY <1>3 DEF ReadVariable
<1>5. \/ errors' = errors \cup {flagname} /\ frames' = NextEntry /\ UNCHANGED <<pc, flags>>
      \/ frames' = NextEntry /\ UNCHANGED <<pc, flags, errors>>
      \/ \E n \in FindFlagLocked(flagname), envval \in SafeGetEnv(flagname) :
            ProcessSingleOptionLocked(n, envval, NextEntry)
  BY <1>3 DEF ReadVariable
<1>6. CASE errors' = errors \cup {flagname} /\ frames' = NextEntry /\ UNCHANGED <<pc, flags>>
  BY <1>2, <1>4, <1>6 DEF Pushed, Typed
<1>7. CASE frames' = NextEntry /\ UNCHANGED <<pc, flags, errors>>
  BY <1>2, <1>4, <1>7 DEF Pushed, Typed
<1>8. ASSUME NEW n \in FindFlagLocked(flagname), NEW envval \in SafeGetEnv(flagname),
             ProcessSingleOptionLocked(n, envval, NextEntry)
      PROVE  /\ pc' \in {pc, "exit"} /\ Pushed(NextEntry, frames') /\ Typed(flags')
             /\ \A key \in errors' \cup undefined' : key \in Seq(Letter)
  <2>1. n \in Names
    BY <1>8, FlagsFound
  <2>2. envval \in Seq(Letter)
    BY <1>8, FlagsIntoStringAssumption DEF SafeGetEnv
  <2>3. /\ pc' \in {pc, "exit"} /\ Pushed(NextEntry, frames') /\ Typed(flags')
        /\ \A key \in errors' : key \in errors \/ key \in Seq(Letter)
    BY <1>2, <1>8, <2>1, <2>2, OptionReads
  <2>. QED
    BY <1>2, <1>3, <1>4, <2>3
<1>. QED
  BY <1>5, <1>6, <1>7, <1>8

-----------------------------------------------------------------------------
(* The type invariant.                                                     *)

LEMMA TypeInit == Init => TypeOK
<1> SUFFICES ASSUME Init PROVE TypeOK
  OBVIOUS
<1>1. asked \in [type : Type, text : EnvTexts \cup {<<>>}]
  BY DEF Init, Type
<1>2. answer.ok \in BOOLEAN /\ HasType(answer.value, asked.type)
  <2>1. asked.type \in Type
    BY <1>1
  <2>2. answer = Failed(asked.type)
    BY DEF Init
  <2>. QED
    BY <2>1, <2>2, FailedIs, NewHasType
<1>3. Typed(flags) /\ Typed(backup)
  <2>1. flags \in Settings /\ backup = flags
    BY FlagsIntoStringAssumption DEF Init
  <2>. QED
    BY <2>1, FlagsIntoStringAssumption
<1>4. text \in Seq(Letter)
  <2>1. text \in Foreign \/ text = <<>>
    BY DEF Init
  <2>2. \A t \in Foreign : t \in Seq(Letter)
    BY FlagsIntoStringAssumption
  <2>3. <<>> \in Seq(Letter)
    OBVIOUS
  <2>. QED
    BY <2>1, <2>2, <2>3
<1>5. frames \in Seq(AFrame)
  BY DEF Init
<1>6. pc \in {"start", "running"} /\ errors = {} /\ undefined = {} /\ returned \in BOOLEAN
  BY DEF Init
<1>. QED
  BY <1>1, <1>2, <1>3, <1>4, <1>5, <1>6 DEF TypeOK, AFrame

LEMMA TypeStep == TypeOK /\ [Next]_vars => TypeOK'
<1> SUFFICES ASSUME TypeOK, Next \/ UNCHANGED vars PROVE TypeOK'
  OBVIOUS
<1>0. frames \in Seq(AFrame)
  BY DEF TypeOK, AFrame
<1>1. ASSUME GetFromEnv PROVE TypeOK'
  <2>1. asked.type \in Type /\ asked.text \in Seq(Letter)
    <3>1. asked.type \in Type /\ asked.text \in EnvTexts \cup {<<>>}
      BY DEF TypeOK
    <3>2. \A t \in EnvTexts : t \in Seq(Letter)
      BY FlagsIntoStringAssumption
    <3>3. <<>> \in Seq(Letter)
      OBVIOUS
    <3>. QED
      BY <3>1, <3>2, <3>3
  <2>2. answer' = ParseFrom(asked.type, asked.text)
    BY <1>1 DEF GetFromEnv
  <2>3. (answer').ok \in BOOLEAN /\ HasType((answer').value, asked.type)
    BY <2>1, <2>2, ParseHasType
  <2>4. pc' \in {"parsed", "refused"} /\ UNCHANGED <<asked, flags, writing, reading>>
    BY <1>1 DEF GetFromEnv
  <2>5. asked' = asked
    BY <2>4
  <2>6. answer'.ok \in BOOLEAN /\ HasType(answer'.value, asked'.type)
    BY <2>3, <2>5
  <2>. QED
    BY <2>4, <2>6 DEF TypeOK, writing, reading, Typed
<1>2. ASSUME CommandlineFlagsIntoString PROVE TypeOK'
  <2>1. text' \in Seq(Letter)
    BY <1>2, WrittenType DEF CommandlineFlagsIntoString, TypeOK
  <2>. QED
    BY <1>2, <2>1 DEF CommandlineFlagsIntoString, TypeOK, environment, reading, Typed
<1>3. ASSUME AppendFlagsIntoFile PROVE TypeOK'
  <2>1. PICK named \in BOOLEAN :
           text' = text \o (IF named THEN <<Prog, "\n">> ELSE <<>>)
                        \o TheseCommandlineFlagsIntoString(Names \ {"flagfile"})
    BY <1>3 DEF AppendFlagsIntoFile
  <2>2. text \in Seq(Letter)
    BY DEF TypeOK
  <2>3. (IF named THEN <<Prog, "\n">> ELSE <<>>) \in Seq(Letter)
    <3>1. Prog \in Letter /\ "\n" \in Letter
      BY FlagsIntoStringAssumption
    <3>2. <<Prog, "\n">> \in Seq(Letter) /\ <<>> \in Seq(Letter)
      BY <3>1
    <3>. QED
      BY <3>2
  <2>4. TheseCommandlineFlagsIntoString(Names \ {"flagfile"}) \in Seq(Letter)
    BY WrittenType DEF TypeOK
  <2>5. text' \in Seq(Letter)
    BY <2>1, <2>2, <2>3, <2>4
  <2>. QED
    BY <1>3, <2>5 DEF AppendFlagsIntoFile, TypeOK, environment, reading, Typed
<1>4. ASSUME AppendFails PROVE TypeOK'
  BY <1>4 DEF AppendFails, TypeOK, environment, writing, reading, Typed
<1>5. ASSUME SetFlags PROVE TypeOK'
  <2>1. Typed(flags')
    BY <1>5, FlagsIntoStringAssumption DEF SetFlags
  <2>. QED
    BY <1>5, <2>1 DEF SetFlags, TypeOK, environment, writing, reading, Typed
<1>6. ASSUME ReadFlagsFromString PROVE TypeOK'
  <2>1. frames' \in Seq(AFrame)
    BY <1>6, FrameType DEF ReadFlagsFromString, TypeOK
  <2>2. Typed(backup')
    BY <1>6 DEF ReadFlagsFromString, TypeOK
  <2>. QED
    BY <1>6, <2>1, <2>2 DEF ReadFlagsFromString, TypeOK, environment, writing, Typed, AFrame
<1>7. ASSUME ReadNothing PROVE TypeOK'
  <2>1. frames' \in Seq(AFrame)
    BY <1>0, <1>7, TopFrame, AdvanceType DEF ReadNothing, Reading
  <2>. QED
    BY <1>7, <2>1 DEF ReadNothing, TypeOK, environment, writing, Typed, AFrame
<1>8. ASSUME ReadFilenames PROVE TypeOK'
  <2>1. frames' \in Seq(AFrame)
    BY <1>0, <1>8, TopFrame, AdvanceType DEF ReadFilenames, Reading, NamesUs
  <2>. QED
    BY <1>8, <2>1 DEF ReadFilenames, TypeOK, environment, writing, Typed, AFrame
<1>9. ASSUME IgnoreFlagLine PROVE TypeOK'
  <2>1. frames' \in Seq(AFrame)
    BY <1>0, <1>9, AdvanceType DEF IgnoreFlagLine, Reading
  <2>. QED
    BY <1>9, <2>1 DEF IgnoreFlagLine, TypeOK, environment, writing, Typed, AFrame
<1>10. ASSUME ReadFlagLine PROVE TypeOK'
  <2>1. Advance(TRUE, FALSE) \in Seq(AFrame)
    BY <1>0, <1>10, AdvanceType DEF ReadFlagLine, Reading
  <2>2. /\ pc' \in {pc, "exit"} /\ frames' \in Seq(AFrame) /\ Typed(flags')
        /\ \A key \in errors' : key \in Seq(Letter)
    BY <1>10, <2>1, LineReads, PushedType
  <2>3. UNCHANGED <<asked, answer, text, backup, undefined, returned>>
    BY <1>10 DEF ReadFlagLine, environment, writing
  <2>. QED
    BY <2>2, <2>3 DEF TypeOK, Typed, AFrame
<1>11. ASSUME ListEnds PROVE TypeOK'
  <2>1. frames' \in Seq(AFrame)
    BY <1>0, <1>11, TopFrame DEF ListEnds, Reading
  <2>. QED
    BY <1>11, <2>1 DEF ListEnds, TypeOK, environment, writing, Typed, AFrame
<1>12. ASSUME ReadFile PROVE TypeOK'
  <2>1. NextEntry \in Seq(AFrame)
    BY <1>0, <1>12, NextEntryType DEF ReadFile, Reading
  <2>2. pc' \in {pc, "exit"} /\ frames' \in Seq(AFrame)
    BY <1>12, <2>1, FileReads, PushedType
  <2>3. UNCHANGED <<asked, answer, flags, text, backup, errors, undefined, returned>>
    BY <1>12 DEF ReadFile, environment, writing
  <2>. QED
    BY <2>2, <2>3 DEF TypeOK, Typed, AFrame
<1>13. ASSUME ReadVariable PROVE TypeOK'
  <2>1. NextEntry \in Seq(AFrame)
    BY <1>0, <1>13, NextEntryType DEF ReadVariable, Reading
  <2>2. /\ pc' \in {pc, "exit"} /\ frames' \in Seq(AFrame) /\ Typed(flags')
        /\ \A key \in errors' \cup undefined' : key \in Seq(Letter)
    BY <1>13, <2>1, VariableReads, PushedType
  <2>3. UNCHANGED <<asked, answer, text, backup, returned>>
    BY <1>13 DEF ReadVariable, environment, writing
  <2>. QED
    BY <2>2, <2>3 DEF TypeOK, Typed, AFrame
<1>14. ASSUME HandleCommandLineHelpFlags PROVE TypeOK'
  BY <1>14 DEF HandleCommandLineHelpFlags, TypeOK, environment, writing, reading, Typed
<1>15. ASSUME FinishReading PROVE TypeOK'
  <2>1. PICK reparsing \in BOOLEAN, fatal \in BOOLEAN :
           /\ errors' = (errors \ Excused) \ (IF reparsing THEN undefined ELSE {})
           /\ returned' = (errors' = {})
           /\ IF errors' # {} /\ fatal THEN pc' = "exit" /\ UNCHANGED flags
              ELSE pc' = "read" /\ flags' = IF errors' = {} THEN flags ELSE backup
    BY <1>15 DEF FinishReading
  <2>2. Typed(flags')
    BY <2>1 DEF TypeOK
  <2>3. returned' \in BOOLEAN /\ pc' \in {"exit", "read"} /\ errors' \in SUBSET errors
    BY <2>1
  <2>4. UNCHANGED <<asked, answer, text, frames, backup, undefined>>
    BY <1>15 DEF FinishReading, environment, writing
  <2>. QED
    BY <2>2, <2>3, <2>4 DEF TypeOK, Typed
<1>16. ASSUME ReportDies PROVE TypeOK'
  BY <1>16 DEF ReportDies, TypeOK, environment, writing, reading, Typed
<1>17. ASSUME UNCHANGED vars PROVE TypeOK'
  BY <1>17 DEF TypeOK, vars, Typed
<1>. QED
  BY <1>1, <1>2, <1>3, <1>4, <1>5, <1>6, <1>7, <1>8, <1>9, <1>10, <1>11, <1>12, <1>13,
     <1>14, <1>15, <1>16, <1>17 DEF Next, Step, Done

(* What is stored in a flag fits it, wherever the text came from: however   *)
(* lines, files and values are mixed (FlagValue::ParseFrom).               *)
THEOREM TypeCorrect == Spec => []TypeOK
BY TypeInit, TypeStep, PTL DEF Spec

-----------------------------------------------------------------------------
(* What a number means, and what the scanner makes of it.                  *)

(* Where the digits of a decimal number must begin, and the sign before.   *)
Blank(s) == Lead(s, IsSpace)
SignAt(s, sign) == Blank(s) < Len(s) /\ s[Blank(s) + 1] = sign
Signed10(s) == SignAt(s, "-") \/ SignAt(s, "+")
Begin(s) == IF Signed10(s) THEN Blank(s) + 1 ELSE Blank(s)
Body(s) == Without(s, Begin(s))

LEMMA BeginOf ==
  ASSUME NEW s \in Seq(Letter)
  PROVE  /\ Blank(s) \in 0..Len(s) /\ Begin(s) \in 0..Len(s) /\ Body(s) \in Seq(Letter)
         /\ Begin(s) \in {Blank(s), Blank(s) + 1}
<1>1. PICK j \in 0..Len(s) : j = Blank(s)
  BY LeadOf DEF Blank
<1>2. j < Len(s) => j + 1 \in 0..Len(s)
  OBVIOUS
<1>3. Begin(s) \in 0..Len(s)
  BY <1>1, <1>2 DEF Begin, Signed10, SignAt
<1>. QED
  BY <1>1, <1>3, WithoutOf DEF Begin, Body

LEMMA NumeralIs ==
  ASSUME NEW s \in Seq(Letter), NEW base
  PROVE  Numeral(s, base) <=> s # <<>> /\ \A i \in 1..Len(s) : s[i] \in Digits(base)
<1>1. PICK n \in 0..Len(s) : n = Lead(s, Digits(base))
  BY LeadOf
<1>2. \A i \in 1..n : s[i] \in Digits(base)
  BY <1>1, LeadOf
<1>3. n < Len(s) => s[n + 1] \notin Digits(base)
  BY <1>1, LeadOf
<1>4. Numeral(s, base) <=> s # <<>> /\ n = Len(s)
  BY <1>1 DEF Numeral
<1>5. ASSUME n # Len(s) PROVE n + 1 \in 1..Len(s) /\ s[n + 1] \notin Digits(base)
  <2>1. n < Len(s)
    BY <1>5
  <2>. QED
    BY <1>3, <2>1
<1>. QED
  BY <1>2, <1>4, <1>5

(* Spaces, signs, and the x of "0x" are no digits.                         *)
LEMMA NoDigits ==
  /\ \A c \in IsSpace \cup Hexed \cup {"-", "+"} : c \notin Digits(10) /\ c \notin Digits(16)
  /\ "-" \notin IsSpace /\ "+" \notin IsSpace /\ "0" \notin IsSpace
  /\ "0" \in Digits(10) /\ "0" \in Digits(16)
<1>1. \A c \in IsSpace \cup Hexed \cup {"-", "+"} : c \notin DOMAIN DigitValue
  BY DEF IsSpace, Hexed, DigitValue
<1>2. \A base : Digits(base) \in SUBSET DOMAIN DigitValue
  BY DEF Digits
<1>3. "0" \in DOMAIN DigitValue /\ DigitValue["0"] = 0
  BY DEF DigitValue
<1>4. "0" \in Digits(10) /\ "0" \in Digits(16)
  BY <1>3 DEF Digits
<1>5. "-" \notin IsSpace /\ "+" \notin IsSpace /\ "0" \notin IsSpace
  BY DEF IsSpace
<1>. QED
  BY <1>1, <1>2, <1>4, <1>5

LEMMA WithoutNone ==
  ASSUME NEW S, NEW s \in Seq(S)
  PROVE  Without(s, 0) = s
<1>1. 0 + 1 = 1
  OBVIOUS
<1>. QED
  BY <1>1, SubSeqFull DEF Without

LEMMA WithoutTwice ==
  ASSUME NEW S, NEW s \in Seq(S), NEW m \in 0..Len(s), NEW n \in 0..Len(s) - m
  PROVE  Without(Without(s, m), n) = Without(s, m + n)
<1>1. PICK l \in Nat : l = Len(s)
  OBVIOUS
<1>2. PICK a \in Seq(S) : a = Without(s, m)
  BY WithoutOf
<1>3. Len(a) = l - m /\ \A i \in 1..l - m : a[i] = s[i + m]
  BY <1>1, <1>2, WithoutOf
<1>4. n \in 0..Len(a) /\ m + n \in 0..Len(s) /\ (l - m) - n = l - (m + n)
  BY <1>1, <1>3
<1>5. PICK b \in Seq(S) : b = Without(a, n)
  BY <1>4, WithoutOf
<1>6. Len(b) = Len(a) - n /\ \A i \in 1..Len(a) - n : b[i] = a[i + n]
  BY <1>4, <1>5, WithoutOf
<1>7. PICK c \in Seq(S) : c = Without(s, m + n)
  BY <1>4, WithoutOf
<1>8. Len(c) = l - (m + n) /\ \A i \in 1..l - (m + n) : c[i] = s[i + (m + n)]
  BY <1>1, <1>4, <1>7, WithoutOf
<1>9. Len(b) = l - (m + n)
  BY <1>3, <1>4, <1>6
<1>10. ASSUME NEW i \in 1..Len(b) PROVE b[i] = c[i]
  <2>1. i \in 1..Len(a) - n
    BY <1>6
  <2>2. i + n \in 1..l - m /\ (i + n) + m = i + (m + n) /\ i \in 1..l - (m + n)
    BY <1>1, <1>9
  <2>3. b[i] = a[i + n] /\ a[i + n] = s[(i + n) + m]
    BY <1>3, <1>6, <2>1, <2>2
  <2>4. c[i] = s[i + (m + n)]
    BY <1>8, <2>2
  <2>. QED
    BY <2>2, <2>3, <2>4
<1>11. Len(b) = Len(c)
  BY <1>8, <1>9
<1>12. b = c
  BY <1>10, <1>11, SameElements
<1>. QED
  BY <1>2, <1>5, <1>7, <1>12

(* Where a decimal number may begin is where it does.                      *)
LEMMA PlainAt ==
  ASSUME NEW s \in Seq(Letter), NEW k \in 1..Len(s)
  PROVE  Numeral(Without(s, k - 1), 10) /\ (\A i \in 1..k - 1 : s[i] \in IsSpace)
            <=> k = Begin(s) + 1 /\ ~Signed10(s) /\ Numeral(Body(s), 10)
<1>0. k - 1 \in 0..Len(s) /\ k - 1 < Len(s) /\ (k - 1) + 1 = k
  OBVIOUS
<1>1. ASSUME Numeral(Without(s, k - 1), 10), \A i \in 1..k - 1 : s[i] \in IsSpace
      PROVE  k = Begin(s) + 1 /\ ~Signed10(s) /\ Numeral(Body(s), 10)
  <2>1. s[k] \in Digits(10)
    <3>1. PICK a \in Seq(Letter) : a = Without(s, k - 1)
      BY <1>0, WithoutOf
    <3>a. Len(a) = Len(s) - (k - 1) /\ \A i \in 1..Len(s) - (k - 1) : a[i] = s[i + (k - 1)]
      BY <1>0, <3>1, WithoutOf
    <3>b. 1 \in 1..Len(s) - (k - 1) /\ 1 + (k - 1) = k
      OBVIOUS
    <3>2. 1 \in 1..Len(a) /\ a[1] = s[k]
      BY <3>a, <3>b
    <3>3. a[1] \in Digits(10)
      BY <1>1, <3>1, <3>2, NumeralIs
    <3>. QED
      BY <3>2, <3>3
  <2>2. s[k] \notin IsSpace /\ s[k] # "-" /\ s[k] # "+"
    BY <2>1, NoDigits
  <2>3. Blank(s) = k - 1
    BY <1>0, <1>1, <2>2, LeadIs DEF Blank
  <2>4. ~Signed10(s)
    BY <1>0, <2>2, <2>3 DEF Signed10, SignAt
  <2>. QED
    BY <1>0, <1>1, <2>3, <2>4 DEF Begin, Body
<1>2. ASSUME k = Begin(s) + 1, ~Signed10(s), Numeral(Body(s), 10)
      PROVE  Numeral(Without(s, k - 1), 10) /\ \A i \in 1..k - 1 : s[i] \in IsSpace
  <2>1. PICK j \in 0..Len(s) : j = Blank(s)
    BY LeadOf DEF Blank
  <2>2. Begin(s) = j /\ k - 1 = j
    BY <1>2, <2>1 DEF Begin
  <2>3. \A i \in 1..j : s[i] \in IsSpace
    BY <2>1, LeadOf DEF Blank
  <2>. QED
    BY <1>2, <2>2, <2>3 DEF Body
<1>. QED
  BY <1>1, <1>2

LEMMA SignedNumberAt ==
  ASSUME NEW s \in Seq(Letter), NEW k \in 2..Len(s), NEW sign \in {"-", "+"}
  PROVE  Numeral(Without(s, k - 1), 10) /\ s[k - 1] = sign /\ (\A i \in 1..k - 2 : s[i] \in IsSpace)
            <=> k = Begin(s) + 1 /\ SignAt(s, sign) /\ Numeral(Body(s), 10)
<1>0. k - 2 \in 0..Len(s) /\ k - 2 < Len(s) /\ (k - 2) + 1 = k - 1
  OBVIOUS
<1>1. ASSUME Numeral(Without(s, k - 1), 10), s[k - 1] = sign, \A i \in 1..k - 2 : s[i] \in IsSpace
      PROVE  k = Begin(s) + 1 /\ SignAt(s, sign) /\ Numeral(Body(s), 10)
  <2>2. s[k - 1] \notin IsSpace
    BY <1>1, NoDigits
  <2>3. Blank(s) = k - 2
    BY <1>0, <1>1, <2>2, LeadIs DEF Blank
  <2>4. SignAt(s, sign)
    BY <1>0, <1>1, <2>3 DEF SignAt
  <2>5. Begin(s) = k - 1
    BY <1>0, <2>3, <2>4 DEF Begin, Signed10
  <2>6. k = Begin(s) + 1
    BY <2>5
  <2>. QED
    BY <1>1, <2>4, <2>5, <2>6 DEF Body
<1>2. ASSUME k = Begin(s) + 1, SignAt(s, sign), Numeral(Body(s), 10)
      PROVE  Numeral(Without(s, k - 1), 10) /\ s[k - 1] = sign /\ \A i \in 1..k - 2 : s[i] \in IsSpace
  <2>1. PICK j \in 0..Len(s) : j = Blank(s)
    BY LeadOf DEF Blank
  <2>2. Begin(s) = j + 1
    BY <1>2, <2>1 DEF Begin, Signed10
  <2>3. k - 1 = j + 1 /\ k - 2 = j
    BY <1>2, <2>2
  <2>4. \A i \in 1..j : s[i] \in IsSpace
    BY <2>1, LeadOf DEF Blank
  <2>5. s[j + 1] = sign
    BY <1>2, <2>1 DEF SignAt
  <2>. QED
    BY <1>2, <2>2, <2>3, <2>4, <2>5 DEF Body
<1>. QED
  BY <1>1, <1>2

(* The one number a text says, or none.                                    *)
Decimals(type, t) ==
    { n \in {IF SignAt(t, "-") THEN -Number(Body(t), 10) ELSE Number(Body(t), 10)} :
          Numeral(Body(t), 10) /\ ~(type \in Unsigned /\ SignAt(t, "-")) }

Hexadecimals(t) ==
    { n \in {Number(Without(t, 2), 16)} : Numeral(Without(t, 2), 16) }

Said(type, t) == IF Base(t) = 16 THEN Hexadecimals(t) ELSE Decimals(type, t)

LEMMA SignsDiffer ==
  ASSUME NEW s
  PROVE  ~(SignAt(s, "-") /\ SignAt(s, "+"))
<1>1. "-" # "+"
  OBVIOUS
<1>. QED
  BY <1>1 DEF SignAt

LEMMA RestIs ==
  ASSUME NEW s \in Seq(Letter), NEW k \in 1..Len(s)
  PROVE  SubSeq(s, k, Len(s)) = Without(s, k - 1)
<1>1. (k - 1) + 1 = k
  OBVIOUS
<1>. QED
  BY <1>1 DEF Without

LEMMA HexedText ==
  ASSUME NEW s \in Seq(Letter), Base(s) = 16
  PROVE  /\ Len(s) >= 2 /\ s[1] = "0" /\ s[2] \in Hexed
         /\ Blank(s) = 0 /\ ~Signed10(s) /\ Body(s) = s /\ ~Numeral(s, 10)
<1>1. Len(s) >= 2 /\ s[1] = "0" /\ s[2] \in Hexed
  BY DEF Base
<1>2. Blank(s) = 0
  <2>1. 0 \in 0..Len(s) /\ (\A i \in 1..0 : s[i] \in IsSpace) /\ s[0 + 1] \notin IsSpace
    BY <1>1, NoDigits
  <2>. QED
    BY <2>1, LeadIs DEF Blank
<1>3. ~Signed10(s)
  <2>1. s[1] # "-" /\ s[1] # "+"
    BY <1>1
  <2>. QED
    BY <1>2, <2>1 DEF Signed10, SignAt
<1>4. Body(s) = s
  BY <1>2, <1>3, WithoutNone DEF Body, Begin
<1>5. ~Numeral(s, 10)
  <2>1. 2 \in 1..Len(s) /\ s[2] \notin Digits(10)
    BY <1>1, NoDigits
  <2>. QED
    BY <2>1, NumeralIs
<1>. QED
  BY <1>1, <1>2, <1>3, <1>4, <1>5

LEMMA EmptyIs ==
  ASSUME NEW S, NEW s \in Seq(S)
  PROVE  s = <<>> <=> Len(s) = 0
OBVIOUS

LEMMA BodyStarts ==
  ASSUME NEW t \in Seq(Letter), Numeral(Body(t), 10)
  PROVE  /\ Begin(t) + 1 \in 1..Len(t)
         /\ \A sign \in {"-", "+"} : SignAt(t, sign) => Begin(t) + 1 \in 2..Len(t)
<1>1. PICK j \in 0..Len(t) : j = Begin(t)
  BY BeginOf
<1>2. Without(t, j) # <<>> /\ Without(t, j) \in Seq(Letter) /\ Len(Without(t, j)) = Len(t) - j
  BY <1>1, WithoutOf DEF Body, Numeral
<1>3. Len(t) - j # 0
  BY <1>2
<1>4. j + 1 \in 1..Len(t)
  BY <1>3
<1>5. PICK b \in 0..Len(t) : b = Blank(t)
  BY BeginOf
<1>6. \A sign \in {"-", "+"} : SignAt(t, sign) => j = b + 1
  BY <1>1, <1>5 DEF Begin, Signed10
<1>. QED
  BY <1>1, <1>4, <1>6

LEMMA MeaningsAre ==
  ASSUME NEW type \in Signed \cup Unsigned, NEW t \in Seq(Letter)
  PROVE  Meanings(type, t) = IntRange(type) \cap Said(type, t)
<1> DEFINE rest(k) == SubSeq(t, k, Len(t))
           spaced(n) == \A i \in 1..n : t[i] \in IsSpace
           plain == { k \in 1..Len(t) : Numeral(rest(k), 10) /\ spaced(k - 1) }
           after(sign) == { k \in 2..Len(t) : /\ Numeral(rest(k), 10)
                                              /\ t[k - 1] = sign
                                              /\ spaced(k - 2) }
           hexadecimal == { k \in 3..Len(t) : /\ k = 3 /\ t[1] = "0"
                                              /\ t[2] \in Hexed
                                              /\ Numeral(rest(k), 16) }
           minus == IF type \in Unsigned THEN {} ELSE after("-")
           N == Number(Body(t), 10)
           M == Number(Without(t, 2), 16)
<1>1. Meanings(type, t) =
        IntRange(type) \cap
            ( { Number(rest(k), 10) : k \in plain \cup after("+") }
              \cup { -Number(rest(k), 10) : k \in minus }
              \cup { Number(rest(k), 16) : k \in hexadecimal } )
  BY Zenon DEF Meanings
<1>2. \A k \in 1..Len(t) : rest(k) = Without(t, k - 1)
  BY RestIs
<1>3. \A k : k \in plain <=> k = Begin(t) + 1 /\ ~Signed10(t) /\ Numeral(Body(t), 10)
  <2>1. \A k \in 1..Len(t) : k \in plain <=> k = Begin(t) + 1 /\ ~Signed10(t) /\ Numeral(Body(t), 10)
    BY <1>2, PlainAt
  <2> HIDE DEF rest, spaced
  <2>2. plain \in SUBSET (1..Len(t))
    OBVIOUS
  <2> HIDE DEF plain
  <2>. QED
    BY <2>1, <2>2, BodyStarts
<1>4. \A sign \in {"-", "+"} : \A k : k \in after(sign) <=>
            k = Begin(t) + 1 /\ SignAt(t, sign) /\ Numeral(Body(t), 10)
  <2> TAKE sign \in {"-", "+"}
  <2>0. \A k \in 2..Len(t) : k \in 1..Len(t)
    OBVIOUS
  <2>1. \A k \in 2..Len(t) : k \in after(sign) <=> k = Begin(t) + 1 /\ SignAt(t, sign) /\ Numeral(Body(t), 10)
    BY <1>2, <2>0, SignedNumberAt
  <2> HIDE DEF rest, spaced
  <2>2. after(sign) \in SUBSET (2..Len(t))
    OBVIOUS
  <2> HIDE DEF after
  <2>. QED
    BY <2>1, <2>2, BodyStarts
<1>5. Numeral(Body(t), 10) => rest(Begin(t) + 1) = Body(t)
  <2>1. PICK j \in 0..Len(t) : j = Begin(t)
    BY BeginOf
  <2>2. (j + 1) - 1 = j
    OBVIOUS
  <2>3. Numeral(Body(t), 10) => j + 1 \in 1..Len(t)
    BY <2>1, BodyStarts
  <2> HIDE DEF rest
  <2>. QED
    BY <1>2, <2>1, <2>2, <2>3 DEF Body
<1>6. \A k : k \in hexadecimal <=> k = 3 /\ Base(t) = 16 /\ Numeral(Without(t, 2), 16)
  <2>1. ASSUME Len(t) >= 3
        PROVE  rest(3) = Without(t, 2)
    <3>1. 3 \in 1..Len(t) /\ 3 - 1 = 2
      BY <2>1
    <3> HIDE DEF rest
    <3>. QED
      BY <1>2, <3>1
  <2>2. Base(t) = 16 <=> Len(t) >= 2 /\ t[1] = "0" /\ t[2] \in Hexed
    BY DEF Base
  <2>3. Base(t) = 16 /\ Numeral(Without(t, 2), 16) => Len(t) >= 3
    <3>1. SUFFICES ASSUME Base(t) = 16, Numeral(Without(t, 2), 16) PROVE Len(t) >= 3
      OBVIOUS
    <3>2. 2 \in 0..Len(t)
      BY <2>2, <3>1
    <3>3. PICK a \in Seq(Letter) : a = Without(t, 2)
      BY <3>2, WithoutOf
    <3>4. a # <<>> /\ Len(a) = Len(t) - 2
      BY <3>1, <3>2, <3>3, WithoutOf DEF Numeral
    <3>5. Len(a) # 0
      BY <3>4, EmptyIs
    <3>6. \A l \in Nat : l - 2 # 0 /\ 2 \in 0..l => l >= 3
      OBVIOUS
    <3>. QED
      BY <3>2, <3>4, <3>5, <3>6
  <2> HIDE DEF rest
  <2>4. \A k : k \in hexadecimal <=> /\ k = 3 /\ Len(t) >= 3 /\ t[1] = "0" /\ t[2] \in Hexed
                                     /\ Numeral(rest(3), 16)
    OBVIOUS
  <2> HIDE DEF hexadecimal
  <2>. QED
    BY <2>1, <2>2, <2>3, <2>4
<1> HIDE DEF plain, after, hexadecimal
<1>7. { Number(rest(k), 16) : k \in hexadecimal } = IF Base(t) = 16 THEN Hexadecimals(t) ELSE {}
  <2>1. Base(t) = 16 /\ Numeral(Without(t, 2), 16) => rest(3) = Without(t, 2)
    <3>1. 3 = 2 + 1
      OBVIOUS
    <3>. QED
      BY <3>1 DEF Without
  <2> HIDE DEF rest
  <2>. QED
    BY <1>6, <2>1 DEF Hexadecimals
<1>8. { Number(rest(k), 10) : k \in plain \cup after("+") } =
         IF Numeral(Body(t), 10) /\ ~SignAt(t, "-") THEN {N} ELSE {}
  <2> HIDE DEF rest
  <2>1. \A k : k \in plain \cup after("+") <=>
                  k = Begin(t) + 1 /\ Numeral(Body(t), 10) /\ ~SignAt(t, "-")
    BY <1>3, <1>4, SignsDiffer DEF Signed10
  <2>. QED
    BY <1>5, <2>1
<1>9. { -Number(rest(k), 10) : k \in minus } =
         IF Numeral(Body(t), 10) /\ SignAt(t, "-") /\ type \notin Unsigned THEN {-N} ELSE {}
  <2> HIDE DEF rest
  <2>. QED
    BY <1>4, <1>5
<1>10. Numeral(Body(t), 10) => Base(t) # 16
  BY HexedText
<1>11. CASE Base(t) = 16
  BY <1>1, <1>7, <1>8, <1>9, <1>10, <1>11 DEF Said
<1>12. CASE Base(t) # 16
  <2>1. Decimals(type, t) =
          (IF Numeral(Body(t), 10) /\ ~SignAt(t, "-") THEN {N} ELSE {}) \cup
          (IF Numeral(Body(t), 10) /\ SignAt(t, "-") /\ type \notin Unsigned THEN {-N} ELSE {})
    BY DEF Decimals
  <2>2. Meanings(type, t) = IntRange(type) \cap Decimals(type, t)
    BY <1>1, <1>7, <1>8, <1>9, <1>12, <2>1
  <2>. QED
    BY <1>12, <2>2 DEF Said
<1>. QED
  BY <1>11, <1>12

(* What the scanner takes a decimal number for, and a hexadecimal one.     *)
LEMMA WholeIs ==
  ASSUME NEW s \in Seq(Letter), s # <<>>, NEW body \in Seq(Letter), NEW base, NEW count,
         count = Lead(body, Digits(base))
  PROVE  /\ (IF count = 0 THEN s = <<>> ELSE count = Len(body)) <=> Numeral(body, base)
         /\ Numeral(body, base) => SubSeq(body, 1, count) = body
<1>1. count \in 0..Len(body)
  BY LeadOf
<1>2. Numeral(body, base) <=> body # <<>> /\ count = Len(body)
  BY DEF Numeral
<1>3. body # <<>> <=> Len(body) # 0
  BY EmptyIs
<1>4. SubSeq(body, 1, Len(body)) = body
  BY SubSeqFull
<1>. QED
  BY <1>1, <1>2, <1>3, <1>4

LEMMA TailIs ==
  ASSUME NEW S, NEW s \in Seq(S), s # <<>>
  PROVE  Tail(s) = Without(s, 1)
<1>1. 1 + 1 = 2
  OBVIOUS
<1>. QED
  BY <1>1, TailIsSubSeq DEF Without

LEMMA PlainIs ==
  ASSUME NEW s \in Seq(Letter), NEW after, after = Without(s, Lead(s, IsSpace))
  PROVE  /\ after # <<>> /\ after[1] = "-" <=> SignAt(s, "-")
         /\ (IF after # <<>> /\ after[1] \in {"-", "+"} THEN Tail(after) ELSE after) = Body(s)
<1>1. PICK b \in 0..Len(s) : b = Lead(s, IsSpace)
  BY LeadOf
<1>2. PICK l \in Nat : l = Len(s)
  OBVIOUS
<1>3. after \in Seq(Letter) /\ Len(after) = l - b /\ \A i \in 1..l - b : after[i] = s[i + b]
  BY <1>1, <1>2, WithoutOf
<1>4. b < l <=> 1 \in 1..l - b
  BY <1>1, <1>2
<1>5. after # <<>> <=> b < l
  BY <1>1, <1>2, <1>3, EmptyIs
<1>6. b < l => after[1] = s[b + 1]
  <2>1. 1 + b = b + 1
    OBVIOUS
  <2>. QED
    BY <1>3, <1>4, <2>1
<1>7. \A sign : SignAt(s, sign) <=> b < l /\ s[b + 1] = sign
  BY <1>1, <1>2 DEF SignAt, Blank
<1>8. after # <<>> /\ after[1] \in {"-", "+"} <=> Signed10(s)
  BY <1>5, <1>6, <1>7 DEF Signed10
<1>9. CASE Signed10(s)
  <2>1. after # <<>> /\ after[1] \in {"-", "+"} /\ 1 \in 0..Len(s) - b
    BY <1>2, <1>4, <1>5, <1>8, <1>9
  <2>a. Without(after, 1) = Without(s, b + 1)
    BY <1>1, <2>1, WithoutTwice
  <2>2. Tail(after) = Without(s, b + 1)
    BY <1>3, <2>1, <2>a, TailIs
  <2>3. Body(s) = Without(s, b + 1)
    BY <1>1, <1>9 DEF Body, Begin, Blank
  <2>. QED
    BY <1>5, <1>6, <1>7, <2>1, <2>2, <2>3
<1>10. CASE ~Signed10(s)
  <2>1. Body(s) = after
    BY <1>10 DEF Body, Begin, Blank
  <2>. QED
    BY <1>5, <1>6, <1>7, <1>8, <1>10, <2>1
<1>. QED
  BY <1>9, <1>10

LEMMA ScanTen ==
  ASSUME NEW s \in Seq(Letter), s # <<>>
  PROVE  /\ Scan(s, 10).minus <=> SignAt(s, "-")
         /\ Scan(s, 10).whole <=> Numeral(Body(s), 10)
         /\ Scan(s, 10).whole => Scan(s, 10).magnitude = Number(Body(s), 10)
<1> DEFINE after == Without(s, Lead(s, IsSpace))
           plain == IF after # <<>> /\ after[1] \in {"-", "+"} THEN Tail(after) ELSE after
           hexed == /\ 10 = 16 /\ Len(plain) >= 3
                    /\ plain[1] = "0" /\ plain[2] \in Hexed
                    /\ plain[3] \in Digits(16)
           body == IF hexed THEN Without(plain, 2) ELSE plain
           count == Lead(body, Digits(10))
<1>1. Scan(s, 10).minus = (after # <<>> /\ after[1] = "-")
  BY Zenon DEF Scan
<1>2. Scan(s, 10).magnitude = Number(SubSeq(body, 1, count), 10)
  BY Zenon DEF Scan
<1>3. Scan(s, 10).whole = IF count = 0 THEN s = <<>> ELSE count = Len(body)
  BY Zenon DEF Scan
<1>4. plain = Body(s) /\ (after # <<>> /\ after[1] = "-" <=> SignAt(s, "-"))
  BY PlainIs
<1> HIDE DEF after, plain
<1>5. body = Body(s)
  BY <1>4
<1> HIDE DEF body
<1>6. Body(s) \in Seq(Letter)
  BY BeginOf
<1>7. /\ (IF count = 0 THEN s = <<>> ELSE count = Len(body)) <=> Numeral(body, 10)
      /\ Numeral(body, 10) => SubSeq(body, 1, count) = body
  BY <1>5, <1>6, WholeIs
<1> HIDE DEF count
<1>. QED
  BY <1>1, <1>2, <1>3, <1>4, <1>5, <1>7

LEMMA ScanSixteen ==
  ASSUME NEW s \in Seq(Letter), Base(s) = 16
  PROVE  /\ ~Scan(s, 16).minus
         /\ Scan(s, 16).whole <=> Numeral(Without(s, 2), 16)
         /\ Scan(s, 16).whole => Scan(s, 16).magnitude = Number(Without(s, 2), 16)
<1> DEFINE after == Without(s, Lead(s, IsSpace))
           plain == IF after # <<>> /\ after[1] \in {"-", "+"} THEN Tail(after) ELSE after
           hexed == /\ 16 = 16 /\ Len(plain) >= 3
                    /\ plain[1] = "0" /\ plain[2] \in Hexed
                    /\ plain[3] \in Digits(16)
           body == IF hexed THEN Without(plain, 2) ELSE plain
           count == Lead(body, Digits(16))
<1>1. Scan(s, 16).minus = (after # <<>> /\ after[1] = "-")
  BY Zenon DEF Scan
<1>2. Scan(s, 16).magnitude = Number(SubSeq(body, 1, count), 16)
  BY Zenon DEF Scan
<1>3. Scan(s, 16).whole = IF count = 0 THEN s = <<>> ELSE count = Len(body)
  BY Zenon DEF Scan
<1>4. plain = s /\ ~(after # <<>> /\ after[1] = "-")
  BY PlainIs, HexedText DEF Signed10
<1>5. PICK l \in Nat : l = Len(s)
  OBVIOUS
<1>6. l >= 2 /\ s[1] = "0" /\ s[2] \in Hexed /\ s # <<>>
  BY <1>5, HexedText, EmptyIs
<1> HIDE DEF after, plain
<1>a. 2 \in 0..Len(s)
  BY <1>5, <1>6
<1>7. PICK a \in Seq(Letter) : a = Without(s, 2)
  BY <1>a, WithoutOf
<1>8. Len(a) = l - 2 /\ \A i \in 1..l - 2 : a[i] = s[i + 2]
  BY <1>5, <1>7, <1>a, WithoutOf
<1>9. CASE l >= 3 /\ s[3] \in Digits(16)
  <2>1. body = a
    BY <1>4, <1>5, <1>6, <1>7, <1>9
  <2> HIDE DEF body
  <2>2. /\ (IF count = 0 THEN s = <<>> ELSE count = Len(body)) <=> Numeral(body, 16)
        /\ Numeral(body, 16) => SubSeq(body, 1, count) = body
    BY <1>6, <2>1, WholeIs
  <2> HIDE DEF count
  <2>. QED
    BY <1>1, <1>2, <1>3, <1>4, <1>7, <2>1, <2>2
<1>10. CASE ~(l >= 3 /\ s[3] \in Digits(16))
  <2>1. body = s
    BY <1>4, <1>5, <1>10
  <2> HIDE DEF body
  <2>2. count = 1
    <3>1. 1 \in 0..Len(s) /\ (\A i \in 1..1 : s[i] \in Digits(16)) /\ s[1 + 1] \notin Digits(16)
      BY <1>5, <1>6, NoDigits
    <3>. QED
      BY <2>1, <3>1, LeadIs
  <2>a. Len(body) # 1
    BY <1>5, <1>6, <2>1
  <2> HIDE DEF count
  <2>b. ~(IF count = 0 THEN s = <<>> ELSE count = Len(body))
    BY <2>2, <2>a
  <2>3. ~Scan(s, 16).whole
    BY <1>3, <2>b, Zenon
  <2>4. ~Numeral(a, 16)
    <3>1. CASE l >= 3
      <4>1. 1 \in 1..l - 2 /\ 1 + 2 = 3
        BY <3>1
      <4>2. 1 \in 1..Len(a) /\ a[1] = s[3]
        BY <1>8, <4>1
      <4>. QED
        BY <1>10, <3>1, <4>2, NumeralIs
    <3>2. CASE l = 2
      <4>1. a = <<>>
        BY <1>8, <3>2, EmptyIs
      <4>. QED
        BY <4>1 DEF Numeral
    <3>. QED
      BY <1>6, <3>1, <3>2
  <2>. QED
    BY <1>1, <1>4, <1>7, <2>3, <2>4
<1>. QED
  BY <1>9, <1>10

LEMMA NothingSaid ==
  ASSUME NEW type
  PROVE  Said(type, <<>>) = {}
<1>1. <<>> \in Seq(Letter) /\ Len(<<>>) = 0
  OBVIOUS
<1>2. Base(<<>>) # 16
  BY <1>1 DEF Base
<1>3. ~(Begin(<<>>) + 1 \in 1..Len(<<>>))
  BY <1>1, BeginOf
<1>4. ~Numeral(Body(<<>>), 10)
  BY <1>1, <1>3, BodyStarts
<1>. QED
  BY <1>2, <1>4 DEF Said, Decimals

(* A signed flag takes a text exactly for the number it says.              *)
LEMMA SignedMeans ==
  ASSUME NEW type \in Signed, NEW t \in Seq(Letter)
  PROVE  IF ParseSigned(type, t).ok
         THEN IntRange(type) \cap Said(type, t) = {ParseSigned(type, t).value}
         ELSE IntRange(type) \cap Said(type, t) = {}
<1> DEFINE base == Base(t)
           s == Scan(t, base)
           v == IF s.minus THEN -s.magnitude ELSE s.magnitude
           r == strto64(t, base)
<1>1. r.value = v /\ r.whole = s.whole /\ r.errno = (v \notin IntRange("int64"))
  BY Zenon DEF strto64
<1>2. ParseSigned(type, t) =
        IF t = <<>> \/ r.errno \/ ~r.whole \/ r.value \notin IntRange(type)
        THEN Failed(type) ELSE Parsed(r.value)
  BY Zenon DEF ParseSigned
<1>3. IntRange(type) \in SUBSET IntRange("int64") /\ type \notin Unsigned
  BY Ranges, Kinds
<1>4. CASE t = <<>>
  <2>1. Said(type, t) = {}
    BY <1>4, NothingSaid
  <2>. QED
    BY <1>2, <1>4, <2>1, FailedIs
<1>5. CASE t # <<>>
  <2>1. s.whole => Said(type, t) = {v}
    <3>1. CASE base = 16
      BY <1>5, <3>1, ScanSixteen DEF Said, Hexadecimals
    <3>2. CASE base # 16
      <4>1. base = 10
        BY <3>2 DEF Base
      <4>. QED
        BY <1>3, <1>5, <4>1, ScanTen DEF Said, Decimals
    <3>. QED
      BY <3>1, <3>2
  <2>2. ~s.whole => Said(type, t) = {}
    <3>1. CASE base = 16
      BY <1>5, <3>1, ScanSixteen DEF Said, Hexadecimals
    <3>2. CASE base # 16
      <4>1. base = 10
        BY <3>2 DEF Base
      <4>. QED
        BY <1>3, <1>5, <4>1, ScanTen DEF Said, Decimals
    <3>. QED
      BY <3>1, <3>2
  <2> HIDE DEF v, r, s, base
  <2>3. CASE ~s.whole
    <3>1. ParseSigned(type, t) = Failed(type)
      BY <1>1, <1>2, <2>3
    <3>. QED
      BY <2>2, <2>3, <3>1, FailedIs
  <2>4. CASE s.whole /\ v \notin IntRange(type)
    <3>1. ParseSigned(type, t) = Failed(type)
      BY <1>1, <1>2, <2>4
    <3>. QED
      BY <2>1, <2>4, <3>1, FailedIs
  <2>5. CASE s.whole /\ v \in IntRange(type)
    <3>1. ~(t = <<>> \/ r.errno \/ ~r.whole \/ r.value \notin IntRange(type))
      BY <1>1, <1>3, <1>5, <2>5
    <3>2. ParseSigned(type, t) = Parsed(v)
      BY <1>1, <1>2, <3>1
    <3>. QED
      BY <2>1, <2>5, <3>2, ParsedIs
  <2>. QED
    BY <2>3, <2>4, <2>5
<1>. QED
  BY <1>4, <1>5

(* Skipping the spaces first leaves the number as it is.                   *)
LEMMA SkippedSpaces ==
  ASSUME NEW t \in Seq(Letter), NEW spaces \in SUBSET IsSpace,
         NEW from, from = Without(t, Lead(t, spaces))
  PROVE  /\ from \in Seq(Letter) /\ Lead(t, spaces) <= Blank(t)
         /\ \A sign : SignAt(from, sign) <=> SignAt(t, sign)
         /\ Body(from) = Body(t)
<1>1. PICK b \in 0..Len(t) : b = Blank(t)
  BY BeginOf
<1>2. PICK i \in 0..Len(t) : i = Lead(t, spaces)
  BY LeadOf
<1>3. PICK l \in Nat : l = Len(t)
  OBVIOUS
<1>4. \A k \in 1..b : t[k] \in IsSpace
  BY <1>1, LeadOf DEF Blank
<1>5. b < l => t[b + 1] \notin IsSpace
  BY <1>1, <1>3, LeadOf DEF Blank
<1>6. i <= b
  <2>1. SUFFICES ASSUME b < i PROVE FALSE
    BY <1>1, <1>2
  <2>2. b + 1 \in 1..i /\ b < l
    BY <1>1, <1>2, <1>3, <2>1
  <2>3. t[b + 1] \in spaces
    BY <1>2, <2>2, LeadOf
  <2>. QED
    BY <1>5, <2>2, <2>3
<1>7. from \in Seq(Letter) /\ Len(from) = l - i /\ \A k \in 1..l - i : from[k] = t[k + i]
  BY <1>2, <1>3, WithoutOf
<1>8. Blank(from) = b - i
  <2>1. b - i \in 0..l - i
    BY <1>1, <1>2, <1>3, <1>6
  <2>2. ASSUME NEW k \in 1..b - i PROVE from[k] \in IsSpace
    <3>1. k \in 1..l - i /\ k + i \in 1..b
      BY <1>1, <1>2, <1>3, <1>6
    <3>. QED
      BY <1>4, <1>7, <3>1
  <2>3. ASSUME b - i < l - i PROVE from[(b - i) + 1] \notin IsSpace
    <3>1. (b - i) + 1 \in 1..l - i /\ ((b - i) + 1) + i = b + 1 /\ b < l
      BY <1>1, <1>2, <1>3, <1>6, <2>3
    <3>. QED
      BY <1>5, <1>7, <3>1
  <2>4. PICK d \in Int : d = b - i
    BY <1>1, <1>2
  <2>5. /\ d \in 0..Len(from) /\ \A k \in 1..d : from[k] \in IsSpace
        /\ d < Len(from) => from[d + 1] \notin IsSpace
    BY <1>7, <2>1, <2>2, <2>3, <2>4
  <2>. QED
    BY <1>7, <2>4, <2>5, LeadIs DEF Blank
<1>9. ASSUME NEW sign PROVE SignAt(from, sign) <=> SignAt(t, sign)
  <2>1. Blank(from) < Len(from) <=> b < l
    BY <1>1, <1>2, <1>3, <1>7, <1>8
  <2>2. b < l => from[Blank(from) + 1] = t[b + 1]
    <3>1. SUFFICES ASSUME b < l PROVE from[(b - i) + 1] = t[b + 1]
      BY <1>8
    <3>2. (b - i) + 1 \in 1..l - i /\ ((b - i) + 1) + i = b + 1
      BY <1>1, <1>2, <1>3, <1>6, <3>1
    <3>. QED
      BY <1>7, <3>2
  <2>. QED
    BY <1>1, <1>3, <2>1, <2>2 DEF SignAt
<1>10. Body(from) = Body(t)
  <2>1. PICK j \in 0..Len(t) : j = Begin(t)
    BY BeginOf
  <2>2. Begin(from) = j - i /\ j >= i
    <3>1. Signed10(from) <=> Signed10(t)
      BY <1>9 DEF Signed10
    <3>2. CASE Signed10(t)
      <4>1. j = b + 1 /\ Begin(from) = (b - i) + 1
        BY <1>1, <1>8, <2>1, <3>1, <3>2 DEF Begin
      <4>. QED
        BY <1>1, <1>2, <1>6, <4>1
    <3>3. CASE ~Signed10(t)
      BY <1>1, <1>6, <1>8, <2>1, <3>1, <3>3 DEF Begin
    <3>. QED
      BY <3>2, <3>3
  <2>3. PICK e \in 0..Len(t) - i : e = j - i
    BY <1>2, <2>1, <2>2
  <2>4. i + e = j
    BY <1>2, <2>1, <2>3
  <2>5. Without(Without(t, i), e) = Without(t, i + e)
    BY <1>2, <2>3, WithoutTwice
  <2>. QED
    BY <1>2, <2>1, <2>2, <2>3, <2>4, <2>5 DEF Body
<1>. QED
  BY <1>1, <1>2, <1>6, <1>7, <1>9, <1>10

(* So does an unsigned one, but for the texts that are Mistaken.           *)
LEMMA UnsignedMeans ==
  ASSUME NEW type \in Unsigned, NEW t \in Seq(Letter), ~Mistaken(type, t)
  PROVE  IF ParseUnsigned(type, t).ok
         THEN IntRange(type) \cap Said(type, t) = {ParseUnsigned(type, t).value}
         ELSE IntRange(type) \cap Said(type, t) = {}
<1>1. PICK spaces : spaces = {" "}
  BY Zenon
<1>2. spaces \in SUBSET IsSpace
  BY <1>1, Zenon DEF IsSpace
<1>3. PICK from : from = Without(t, Lead(t, spaces))
  BY Zenon
<1> DEFINE base == Base(t)
           s == Scan(from, base)
           size == 2 ^ Wide
           r == strtou64(from, base)
           refused == t = <<>> \/ (from # <<>> /\ from[1] = "-") \/ r.errno \/ ~r.whole
                      \/ r.value \notin IntRange(type)
<1>4. /\ r.value = IF s.minus THEN (size - s.magnitude) % size ELSE s.magnitude
      /\ r.whole = s.whole /\ r.errno = (s.magnitude >= size)
  BY Zenon DEF strtou64
<1>5. ParseUnsigned(type, t) = IF refused THEN Failed(type) ELSE Parsed(r.value)
  BY <1>1, <1>3, Zenon DEF ParseUnsigned
<1>6. /\ t # <<>> => Lead(t, spaces) # Len(t)
      /\ ~(Lead(t, spaces) < Blank(t)
             /\ \E k \in 2..Len(t) : k = Blank(t) + 1 /\ t[k] = "-")
  BY <1>1, Zenon DEF Mistaken, Blank
<1>7. PICK i \in 0..Len(t) : i = Lead(t, spaces)
  BY LeadOf
<1>8. PICK b \in 0..Len(t) : b = Blank(t)
  BY BeginOf
<1>9. /\ from \in Seq(Letter) /\ i <= b
      /\ \A sign : SignAt(from, sign) <=> SignAt(t, sign)
      /\ Body(from) = Body(t)
  BY <1>2, <1>3, <1>7, <1>8, SkippedSpaces
<1>10. IntRange(type) \in SUBSET (0 .. size - 1) /\ size \in Nat
  BY Ranges
<1>11. ASSUME refused, Said(type, t) = {}
       PROVE  ~ParseUnsigned(type, t).ok /\ IntRange(type) \cap Said(type, t) = {}
  <2>1. ParseUnsigned(type, t) = Failed(type)
    BY <1>5, <1>11
  <2>. QED
    BY <1>11, <2>1, FailedIs
<1>12. CASE t = <<>>
  BY <1>11, <1>12, NothingSaid
<1>13. CASE t # <<>>
  <2>1. i < Len(t)
    BY <1>6, <1>7, <1>13
  <2>2. from # <<>> /\ from[1] = t[i + 1]
    <3>1. Len(from) = Len(t) - i /\ \A k \in 1..Len(t) - i : from[k] = t[k + i]
      BY <1>3, <1>7, WithoutOf
    <3>2. 1 \in 1..Len(t) - i /\ 1 + i = i + 1
      BY <2>1
    <3>3. Len(from) # 0
      BY <2>1, <3>1
    <3>. QED
      BY <1>9, <3>1, <3>2, <3>3, EmptyIs
  <2>3. CASE from[1] = "-"
    <3>1. t[i + 1] \notin IsSpace /\ \A k \in 1..i : t[k] \in IsSpace
      BY <1>2, <1>7, <2>2, <2>3, NoDigits, LeadOf
    <3>2. Blank(t) = i
      BY <3>1, LeadIs DEF Blank
    <3>3. SignAt(t, "-")
      BY <2>1, <2>2, <2>3, <3>2 DEF SignAt
    <3>4. base # 16
      BY <3>3, HexedText DEF Signed10
    <3>5. Said(type, t) = {}
      BY <3>3, <3>4 DEF Said, Decimals
    <3> HIDE DEF r, base
    <3>6. refused
      BY <2>2, <2>3
    <3>. QED
      BY <1>11, <3>5, <3>6
  <2>4. CASE from[1] # "-"
    <3>1. ~SignAt(t, "-")
      <4>1. SUFFICES ASSUME SignAt(t, "-") PROVE FALSE
        OBVIOUS
      <4>2. b < Len(t) /\ t[b + 1] = "-"
        BY <1>8, <4>1 DEF SignAt
      <4>3. i # b
        BY <2>2, <2>4, <4>2
      <4>4. i < b /\ b + 1 \in 2..Len(t)
        BY <1>7, <1>8, <1>9, <4>2, <4>3
      <4>. QED
        BY <1>6, <1>7, <1>8, <4>2, <4>4
    <3>2. ~s.minus /\ (s.whole => Said(type, t) = {s.magnitude}) /\ (~s.whole => Said(type, t) = {})
      <4>1. CASE base = 16
        <5>1. t[0 + 1] \notin spaces /\ 0 \in 0..Len(t) /\ \A k \in 1..0 : t[k] \in spaces
          BY <1>2, <4>1, HexedText, NoDigits
        <5>2. Lead(t, spaces) = 0
          BY <5>1, LeadIs
        <5>3. from = t
          BY <1>3, <5>2, WithoutNone
        <5>. QED
          BY <4>1, <5>3, ScanSixteen DEF Said, Hexadecimals
      <4>2. CASE base # 16
        <5>1. base = 10
          BY <4>2 DEF Base
        <5>. QED
          BY <1>9, <2>2, <3>1, <4>2, <5>1, ScanTen DEF Said, Decimals
      <4>. QED
        BY <4>1, <4>2
    <3> HIDE DEF s, base
    <3>3. r.value = s.magnitude
      BY <1>4, <3>2
    <3> HIDE DEF r
    <3>4. CASE ~s.whole
      BY <1>4, <1>11, <3>2, <3>4
    <3>5. CASE s.whole /\ s.magnitude \notin IntRange(type)
      <4>1. refused
        BY <3>3, <3>5
      <4>2. ParseUnsigned(type, t) = Failed(type)
        BY <1>5, <4>1
      <4>. QED
        BY <3>2, <3>5, <4>2, FailedIs
    <3>6. CASE s.whole /\ s.magnitude \in IntRange(type)
      <4>1. ~r.errno
        <5>1. ~(s.magnitude >= size)
          BY <1>10, <3>6
        <5>. QED
          BY <1>4, <5>1
      <4>2. ~refused
        BY <1>4, <1>13, <2>4, <3>3, <3>6, <4>1
      <4>3. ParseUnsigned(type, t) = Parsed(s.magnitude)
        BY <1>5, <3>3, <4>2
      <4>. QED
        BY <3>2, <3>6, <4>3, ParsedIs
    <3>. QED
      BY <3>4, <3>5, <3>6
  <2>. QED
    BY <2>3, <2>4
<1>. QED
  BY <1>12, <1>13

LEMMA ParseMeans ==
  ASSUME NEW type \in Signed \cup Unsigned, NEW t \in Seq(Letter), ~Mistaken(type, t)
  PROVE  IF ParseFrom(type, t).ok THEN Meanings(type, t) = {ParseFrom(type, t).value}
         ELSE Meanings(type, t) = {}
<1>1. Meanings(type, t) = IntRange(type) \cap Said(type, t)
  BY MeaningsAre
<1>2. CASE type \in Signed
  <2>1. ParseFrom(type, t) = ParseSigned(type, t)
    BY <1>2, ParseFromIs
  <2>2. IF ParseSigned(type, t).ok
        THEN IntRange(type) \cap Said(type, t) = {ParseSigned(type, t).value}
        ELSE IntRange(type) \cap Said(type, t) = {}
    BY <1>2, SignedMeans
  <2>. QED
    BY <1>1, <2>1, <2>2, Zenon
<1>3. CASE type \in Unsigned
  <2>1. ParseFrom(type, t) = ParseUnsigned(type, t)
    BY <1>3, ParseFromIs
  <2>2. IF ParseUnsigned(type, t).ok
        THEN IntRange(type) \cap Said(type, t) = {ParseUnsigned(type, t).value}
        ELSE IntRange(type) \cap Said(type, t) = {}
    BY <1>3, UnsignedMeans
  <2>. QED
    BY <1>1, <2>1, <2>2, Zenon
<1>. QED
  BY <1>2, <1>3

-----------------------------------------------------------------------------
(* What is printed is parsed: the number that digits stand for.            *)

Counts(f, s) ==
  f = [k \in 0..Len(s) |-> IF k = 0 THEN 0 ELSE f[k - 1] * 10 + DigitValue[s[k]]]

LEMMA CountsAt ==
  ASSUME NEW s, NEW f, Counts(f, s), NEW k \in 0..Len(s)
  PROVE  f[k] = IF k = 0 THEN 0 ELSE f[k - 1] * 10 + DigitValue[s[k]]
<1> DEFINE E(j) == IF j = 0 THEN 0 ELSE f[j - 1] * 10 + DigitValue[s[j]]
<1>1. f = [j \in 0..Len(s) |-> E(j)]
  BY DEF Counts
<1> HIDE DEF E
<1>2. f[k] = E(k)
  BY <1>1
<1>. QED
  BY <1>2 DEF E

LEMMA DigitNumbers ==
  ASSUME NEW s \in Seq(Digits(10)), NEW k \in 1..Len(s)
  PROVE  DigitValue[s[k]] \in Nat
<1>1. s[k] \in Digits(10)
  OBVIOUS
<1>2. s[k] \in DOMAIN DigitValue
  BY <1>1 DEF Digits
<1>. QED
  BY <1>2, DigitsAreLetters

LEMMA CountExists ==
  ASSUME NEW s \in Seq(Digits(10))
  PROVE  \E f \in [0..Len(s) -> Nat] : Counts(f, s)
<1>1. PICK n \in Nat : n = Len(s)
  OBVIOUS
<1>2. PICK v \in [1..n -> Nat] : \A k \in 1..n : v[k] = DigitValue[s[k]]
  <2> DEFINE w == [k \in 1..n |-> DigitValue[s[k]]]
  <2>1. w \in [1..n -> Nat]
    BY <1>1, DigitNumbers
  <2>2. \A k \in 1..n : w[k] = DigitValue[s[k]]
    OBVIOUS
  <2> HIDE DEF w
  <2>. QED
    BY <2>1, <2>2
<1> DEFINE G == [k \in 1..n |-> [x \in Nat |-> x * 10 + v[k]]]
<1>3. G \in [1..n -> [Nat -> Nat]]
  <2>1. \A k \in 1..n : \A x \in Nat : x * 10 + v[k] \in Nat
    OBVIOUS
  <2>. QED
    BY <2>1
<1>4. \A k \in 1..n : \A x \in Nat : G[k][x] = x * 10 + v[k]
  OBVIOUS
<1> HIDE DEF G
<1>5. PICK f \in [0..n -> Nat] : Follows(f, n, 0, G)
  BY <1>3, RecursionExists
<1>6. f[0] = 0 /\ \A k \in 1..n : f[k] = G[k][f[k - 1]]
  BY <1>5 DEF Follows
<1>7. ASSUME NEW k \in 1..n PROVE f[k] = f[k - 1] * 10 + DigitValue[s[k]]
  <2>1. k - 1 \in 0..n
    OBVIOUS
  <2>2. f[k - 1] \in Nat
    BY <2>1
  <2>3. f[k] = G[k][f[k - 1]]
    BY <1>6
  <2>4. G[k][f[k - 1]] = f[k - 1] * 10 + v[k]
    BY <1>4, <2>2
  <2>. QED
    BY <1>2, <2>3, <2>4
<1>8. \A k \in 0..n : f[k] = IF k = 0 THEN 0 ELSE f[k - 1] * 10 + DigitValue[s[k]]
  BY <1>6, <1>7
<1>9. Counts(f, s)
  BY <1>1, <1>8 DEF Counts
<1>. QED
  BY <1>1, <1>9

LEMMA CountsAgree ==
  ASSUME NEW s \in Seq(Digits(10)), NEW t \in Seq(Digits(10)), Len(s) <= Len(t),
         \A k \in 1..Len(s) : s[k] = t[k],
         NEW f, NEW g, Counts(f, s), Counts(g, t)
  PROVE  \A k \in 0..Len(s) : f[k] = g[k]
<1> DEFINE T == {k \in 0..Len(s) : f[k] = g[k]}
<1>1. ASSUME NEW k \in 0..Len(s), \A j \in 0..k - 1 : j \in T PROVE k \in T
  <2>1. k \in 0..Len(t)
    OBVIOUS
  <2>2. /\ f[k] = IF k = 0 THEN 0 ELSE f[k - 1] * 10 + DigitValue[s[k]]
        /\ g[k] = IF k = 0 THEN 0 ELSE g[k - 1] * 10 + DigitValue[t[k]]
    BY <2>1, CountsAt
  <2>3. CASE k = 0
    BY <2>2, <2>3
  <2>4. CASE k # 0
    <3>1. k - 1 \in 0..k - 1 /\ k \in 1..Len(s)
      BY <2>4
    <3>2. f[k - 1] = g[k - 1]
      BY <1>1, <3>1
    <3>. QED
      BY <2>2, <2>4, <3>1, <3>2
  <2>. QED
    BY <2>3, <2>4
<1>2. \A k \in 0..Len(s) : k \in T
  <2>1. Len(s) \in Nat
    OBVIOUS
  <2> HIDE DEF T
  <2>. QED
    BY <1>1, <2>1, StrongInduction
<1>. QED
  BY <1>2

LEMMA NumberIs ==
  ASSUME NEW s \in Seq(Digits(10)), NEW f, Counts(f, s)
  PROVE  Number(s, 10) = f[Len(s)]
<1> DEFINE h == CHOOSE x : Counts(x, s)
<1>1. Number(s, 10) = h[Len(s)]
  BY DEF Number, Counts
<1>2. Counts(h, s)
  BY CountExists
<1> HIDE DEF h
<1>3. Len(s) \in 0..Len(s)
  OBVIOUS
<1>. QED
  BY <1>1, <1>2, <1>3, CountsAgree

LEMMA NumberOfAppend ==
  ASSUME NEW s \in Seq(Digits(10)), NEW c \in Digits(10)
  PROVE  /\ Number(s, 10) \in Nat
         /\ Number(Append(s, c), 10) = Number(s, 10) * 10 + DigitValue[c]
         /\ Number(<<>>, 10) = 0
<1>1. PICK n \in Nat : n = Len(s)
  OBVIOUS
<1>2. PICK t \in Seq(Digits(10)) : t = Append(s, c)
  BY AppendProperties
<1>3. Len(t) = n + 1 /\ t[n + 1] = c /\ \A k \in 1..n : t[k] = s[k]
  BY <1>1, <1>2, AppendProperties
<1>4. PICK f \in [0..n -> Nat] : Counts(f, s)
  BY <1>1, CountExists
<1>5. PICK g : Counts(g, t)
  BY CountExists
<1>6. f[n] = g[n]
  <2>1. Len(s) <= Len(t) /\ n \in 0..Len(s)
    BY <1>1, <1>3
  <2>. QED
    BY <1>1, <1>3, <1>4, <1>5, <2>1, CountsAgree
<1>7. g[n + 1] = g[n] * 10 + DigitValue[c]
  <2>1. n + 1 \in 0..Len(t) /\ n + 1 # 0 /\ (n + 1) - 1 = n
    BY <1>3
  <2>2. g[n + 1] = IF n + 1 = 0 THEN 0 ELSE g[(n + 1) - 1] * 10 + DigitValue[t[n + 1]]
    BY <1>5, <2>1, CountsAt
  <2>. QED
    BY <1>3, <2>1, <2>2
<1>8. Number(s, 10) = f[n] /\ Number(t, 10) = g[n + 1]
  BY <1>1, <1>3, <1>4, <1>5, NumberIs
<1>9. Number(<<>>, 10) = 0
  <2>1. <<>> \in Seq(Digits(10)) /\ Len(<<>>) = 0
    OBVIOUS
  <2>2. PICK e : Counts(e, <<>>)
    BY <2>1, CountExists
  <2>3. 0 \in 0..Len(<<>>)
    BY <2>1
  <2>4. e[0] = 0
    BY <2>2, <2>3, CountsAt
  <2>. QED
    BY <2>1, <2>2, <2>4, NumberIs
<1>10. f[n] \in Nat
  BY <1>4
<1>. QED
  BY <1>2, <1>6, <1>7, <1>8, <1>9, <1>10

(* A number in decimal is the number.                                      *)
LEMMA NumberOfDecimal ==
  ASSUME NEW n \in Nat
  PROVE  Decimal(n) \in Seq(Digits(10)) /\ Decimal(n) # <<>> /\ Number(Decimal(n), 10) = n
<1> DEFINE T == {k \in 0..n : Number(Decimal(k), 10) = k}
<1>1. ASSUME NEW k \in 0..n, \A j \in 0..k - 1 : j \in T PROVE k \in T
  <2>0. k \in Nat
    OBVIOUS
  <2>1. CASE k < 10
    <3>1. k \in 0..9
      BY <2>0, <2>1
    <3>2. PICK c \in Digits(10) : c = DigitOf(k) /\ DigitValue[c] = k
      BY <3>1, DigitOfIs
    <3>3. Decimal(k) = <<c>>
      BY <2>0, <2>1, <3>2, DecimalIs
    <3>4. <<>> \in Seq(Digits(10)) /\ <<c>> = Append(<<>>, c)
      OBVIOUS
    <3>5. Number(<<c>>, 10) = 0 * 10 + DigitValue[c]
      BY <3>4, NumberOfAppend
    <3>. QED
      BY <2>0, <3>2, <3>3, <3>5
  <2>2. CASE k >= 10
    <3>1. PICK q \in 0..k - 1, r \in 0..9 : q = k \div 10 /\ r = k % 10 /\ k = 10 * q + r
      BY <2>0, <2>2, DivideByTen
    <3>2. PICK c \in Digits(10) : c = DigitOf(r) /\ DigitValue[c] = r
      BY DigitOfIs
    <3>3. q \in Nat /\ q \in T
      BY <1>1
    <3>4. Decimal(k) = Append(Decimal(q), c)
      BY <2>0, <2>2, <3>1, <3>2, DecimalIs
    <3>5. Decimal(q) \in Seq(Digits(10)) /\ Number(Decimal(q), 10) = q
      BY <3>3, DecimalIs
    <3>6. Number(Decimal(k), 10) = q * 10 + r
      BY <3>2, <3>4, <3>5, NumberOfAppend
    <3>7. q * 10 + r = k
      BY <3>1
    <3>. QED
      BY <3>6, <3>7
  <2>. QED
    BY <2>0, <2>1, <2>2
<1>2. \A k \in 0..n : k \in T
  <2> HIDE DEF T
  <2>. QED
    BY <1>1, StrongInduction
<1>3. Number(Decimal(n), 10) = n
  <2>1. n \in 0..n
    OBVIOUS
  <2>. QED
    BY <1>2, <2>1
<1>4. Decimal(n) # <<>>
  <2>1. CASE n < 10
    BY <2>1, DecimalIs
  <2>2. CASE n >= 10
    <3>1. n \div 10 \in Nat
      BY <2>2, DivideByTen
    <3>2. Decimal(n \div 10) \in Seq(Digits(10))
      BY <3>1, DecimalIs
    <3>3. PICK d \in Seq(Digits(10)) : d = Decimal(n \div 10)
      BY <3>2
    <3>4. Decimal(n) = Append(d, DigitOf(n % 10))
      BY <2>2, <3>3, DecimalIs
    <3>5. Append(d, DigitOf(n % 10)) # <<>>
      OBVIOUS
    <3>. QED
      BY <3>4, <3>5
  <2>. QED
    BY <2>1, <2>2
<1>. QED
  BY <1>3, <1>4, DecimalIs

(* Digits are taken for what they are.                                     *)
LEMMA DigitsAlone ==
  ASSUME NEW d \in Seq(Digits(10)), d # <<>>
  PROVE  /\ d \in Seq(Letter) /\ Numeral(d, 10) /\ Base(d) = 10
         /\ Blank(d) = 0 /\ ~Signed10(d) /\ Body(d) = d /\ d[1] \in Digits(10)
<1>1. d \in Seq(Letter)
  <2>1. Digits(10) \in SUBSET Letter
    BY FlagValueAssumption, DigitsAreLetters
  <2>. QED
    BY <2>1
<1>2. 1 \in 1..Len(d)
  BY EmptyIs
<1>3. \A i \in 1..Len(d) : d[i] \in Digits(10)
  OBVIOUS
<1>4. Numeral(d, 10)
  BY <1>1, <1>3, NumeralIs
<1>5. Base(d) = 10
  <2>1. ASSUME Len(d) >= 2 PROVE d[2] \notin Hexed
    <3>1. 2 \in 1..Len(d)
      BY <2>1
    <3>. QED
      BY <1>3, <3>1, NoDigits
  <2>. QED
    BY <2>1 DEF Base
<1>6. d[1] \notin IsSpace /\ d[1] # "-" /\ d[1] # "+"
  BY <1>2, <1>3, NoDigits
<1>7. Blank(d) = 0
  <2>1. 0 \in 0..Len(d) /\ (\A i \in 1..0 : d[i] \in IsSpace) /\ d[0 + 1] \notin IsSpace
    BY <1>6
  <2>. QED
    BY <1>1, <2>1, LeadIs DEF Blank
<1>8. ~Signed10(d)
  BY <1>6, <1>7 DEF Signed10, SignAt
<1>9. Body(d) = d
  BY <1>1, <1>7, <1>8, WithoutNone DEF Body, Begin
<1>. QED
  BY <1>1, <1>2, <1>3, <1>4, <1>5, <1>7, <1>8, <1>9

LEMMA BehindOne ==
  ASSUME NEW S, NEW c \in S, NEW d \in Seq(S)
  PROVE  /\ <<c>> \o d \in Seq(S) /\ Len(<<c>> \o d) = 1 + Len(d)
         /\ (<<c>> \o d)[1] = c /\ \A i \in 1..Len(d) : (<<c>> \o d)[i + 1] = d[i]
<1>0. <<c>> \in Seq(S) /\ Len(<<c>>) = 1 /\ <<c>>[1] = c
  <2>1. <<c>> \in Seq(S)
    OBVIOUS
  <2>2. Len(<<c>>) = 1 /\ <<c>>[1] = c
    OBVIOUS
  <2>. QED
    BY <2>1, <2>2
<1>1. PICK m \in Seq(S) : m = <<c>> /\ Len(m) = 1 /\ m[1] = c
  BY <1>0
<1>2. /\ m \o d \in Seq(S) /\ Len(m \o d) = Len(m) + Len(d)
      /\ \A k \in 1..Len(m) + Len(d) : (m \o d)[k] = IF k <= Len(m) THEN m[k] ELSE d[k - Len(m)]
  BY ConcatProperties
<1>3. (m \o d)[1] = c
  <2>1. 1 \in 1..1 + Len(d)
    OBVIOUS
  <2>. QED
    BY <1>1, <1>2, <2>1
<1>4. ASSUME NEW i \in 1..Len(d) PROVE (m \o d)[i + 1] = d[i]
  <2>1. i + 1 \in 1..1 + Len(d) /\ ~(i + 1 <= 1) /\ (i + 1) - 1 = i
    OBVIOUS
  <2>. QED
    BY <1>1, <1>2, <2>1
<1>. QED
  BY <1>1, <1>2, <1>3, <1>4

LEMMA MinusDigits ==
  ASSUME NEW d \in Seq(Digits(10)), d # <<>>, NEW t, t = <<"-">> \o d
  PROVE  /\ t \in Seq(Letter) /\ Base(t) = 10 /\ SignAt(t, "-") /\ Body(t) = d
         /\ Numeral(d, 10)
<1>1. d \in Seq(Letter) /\ Numeral(d, 10)
  BY DigitsAlone
<1>2. "-" \in Letter
  BY FlagValueAssumption
<1>6. t \in Seq(Letter) /\ Len(t) = 1 + Len(d) /\ t[1] = "-" /\ \A i \in 1..Len(d) : t[i + 1] = d[i]
  BY <1>1, <1>2, BehindOne
<1>7. "-" # "0" /\ "-" \notin IsSpace
  BY NoDigits
<1>8. Base(t) = 10
  BY <1>6, <1>7 DEF Base
<1>9. Len(t) > 0
  BY <1>6
<1>10. Blank(t) = 0
  <2>1. 0 \in 0..Len(t) /\ (\A i \in 1..0 : t[i] \in IsSpace) /\ t[0 + 1] \notin IsSpace
    BY <1>6, <1>7
  <2>. QED
    BY <1>6, <2>1, LeadIs DEF Blank
<1>11. SignAt(t, "-")
  BY <1>6, <1>9, <1>10 DEF SignAt
<1>12. Begin(t) = 1
  BY <1>10, <1>11 DEF Begin, Signed10
<1>a. 1 \in 0..Len(t)
  BY <1>6, <1>9
<1>13. PICK a \in Seq(Letter) : a = Without(t, 1)
  BY <1>6, <1>a, WithoutOf
<1>14. Len(a) = Len(d) /\ \A i \in 1..Len(d) : a[i] = d[i]
  <2>1. 1 \in 0..Len(t) /\ Len(t) - 1 = Len(d)
    BY <1>6, <1>9
  <2>2. PICK s \in Seq(Letter) : s = t
    BY <1>6
  <2>3. /\ Len(Without(s, 1)) = Len(s) - 1
        /\ \A i \in 1..Len(s) - 1 : Without(s, 1)[i] = s[i + 1]
    <3>1. 1 \in 0..Len(s)
      BY <2>1, <2>2
    <3>. QED
      BY <3>1, WithoutOf
  <2>4. Len(a) = Len(t) - 1 /\ \A i \in 1..Len(t) - 1 : a[i] = t[i + 1]
    BY <1>13, <2>2, <2>3
  <2>. QED
    BY <1>6, <2>1, <2>4
<1>15. a = d
  BY <1>1, <1>14, SameElements
<1>. QED
  BY <1>1, <1>6, <1>8, <1>11, <1>12, <1>13, <1>15 DEF Body

LEMMA PrintedNumber ==
  ASSUME NEW type \in Signed \cup Unsigned, NEW v \in IntRange(type),
         NEW t, t = ValueToString(type, v)
  PROVE  t \in Seq(Letter) /\ Said(type, t) = {v} /\ ~Mistaken(type, t)
<1>0. v \in Int /\ (type \in Unsigned => v >= 0)
  BY Ranges
<1>1. t = IF v < 0 THEN <<"-">> \o Decimal(-v) ELSE Decimal(v)
  BY Kinds DEF ValueToString
<1>2. CASE v >= 0
  <2>1. PICK d \in Seq(Digits(10)) : d = Decimal(v) /\ d # <<>> /\ Number(d, 10) = v
    BY <1>0, <1>2, NumberOfDecimal
  <2>2. t = d
    BY <1>0, <1>1, <1>2, <2>1
  <2>3. /\ d \in Seq(Letter) /\ Numeral(d, 10) /\ Base(d) = 10
        /\ Blank(d) = 0 /\ ~SignAt(d, "-") /\ Body(d) = d /\ d[1] \in Digits(10)
    BY <2>1, DigitsAlone DEF Signed10
  <2>4. Said(type, t) = {v}
    BY <2>1, <2>2, <2>3 DEF Said, Decimals
  <2>5. ~Mistaken(type, t)
    <3>1. PICK spaces : spaces = {" "}
      BY Zenon
    <3>2. spaces \in SUBSET IsSpace
      BY <3>1, Zenon DEF IsSpace
    <3>3. d[1] \notin spaces
      BY <2>3, <3>2, NoDigits
    <3>4. 1 \in 1..Len(d)
      BY <2>1, EmptyIs
    <3>5. Lead(d, spaces) = 0
      <4>1. 0 \in 0..Len(d) /\ (\A i \in 1..0 : d[i] \in spaces) /\ d[0 + 1] \notin spaces
        BY <3>3
      <4>. QED
        BY <2>3, <4>1, LeadIs
    <3>6. Lead(d, spaces) # Len(d) /\ ~(Lead(d, spaces) < Blank(d))
      BY <2>3, <3>4, <3>5
    <3>. QED
      BY <2>2, <3>1, <3>6, Zenon DEF Mistaken, Blank
  <2>. QED
    BY <2>2, <2>3, <2>4, <2>5
<1>3. CASE v < 0
  <2>1. -v \in Nat /\ -(-v) = v
    BY <1>0, <1>3
  <2>2. PICK d \in Seq(Digits(10)) : d = Decimal(-v) /\ d # <<>> /\ Number(d, 10) = -v
    BY <2>1, NumberOfDecimal
  <2>3. t = <<"-">> \o d
    BY <1>1, <1>3, <2>2
  <2>4. /\ t \in Seq(Letter) /\ Base(t) = 10 /\ SignAt(t, "-") /\ Body(t) = d
        /\ Numeral(d, 10)
    BY <2>2, <2>3, MinusDigits
  <2>5. type \notin Unsigned
    BY <1>0, <1>3
  <2>6. Said(type, t) = {v}
    BY <2>1, <2>2, <2>4, <2>5 DEF Said, Decimals
  <2>. QED
    BY <2>4, <2>5, <2>6 DEF Mistaken
<1>. QED
  BY <1>0, <1>2, <1>3

\* Every value of every type is printed as a text that is parsed into it, but
\* for the doubles the library does not take back (FlagValue::ToString and
\* FlagValue::ParseFrom, gflags.cc:292-399): what the line of a flag in a
\* string or a file rests on when it is read again.
THEOREM PrintedValuesParse ==
  ASSUME NEW type \in Type, NEW v, HasType(v, type),
         type = "double" => DoubleText[v] \in DOMAIN Strtod
  PROVE  LET r == ParseFrom(type, ValueToString(type, v))
         IN  r.ok /\ r.value = v
<1>1. CASE type = "bool"
  <2>1. v \in BOOLEAN
    BY <1>1, HasTypeMeans
  <2>2. ValueToString("bool", v) = IF v THEN <<"true">> ELSE <<"false">>
    BY DEF ValueToString, Signed, Unsigned
  <2>3. "true" \in kTrue /\ "false" \in kFalse /\ "false" \notin kTrue
    BY DEF kTrue, kFalse
  <2>4. \A t : ParseFrom("bool", t) =
            IF Len(t) = 1 /\ t[1] \in kTrue THEN Parsed(TRUE)
            ELSE IF Len(t) = 1 /\ t[1] \in kFalse THEN Parsed(FALSE)
            ELSE Failed("bool")
    BY DEF ParseFrom, Signed, Unsigned
  <2>5. \A c : Len(<<c>>) = 1 /\ <<c>>[1] = c
    OBVIOUS
  <2>6. ParseFrom("bool", <<"true">>) = Parsed(TRUE)
    BY <2>3, <2>4, <2>5
  <2>7. ParseFrom("bool", <<"false">>) = Parsed(FALSE)
    BY <2>3, <2>4, <2>5
  <2>8. CASE v = TRUE
    BY <1>1, <2>2, <2>6, <2>8, ParsedIs
  <2>9. CASE v = FALSE
    BY <1>1, <2>2, <2>7, <2>9, ParsedIs
  <2>. QED
    BY <2>1, <2>8, <2>9
<1>2. CASE type = "string"
  <2>1. ValueToString("string", v) = v
    BY DEF ValueToString, Signed, Unsigned
  <2>2. ParseFrom("string", v) = Parsed(v)
    BY ParseFromIs
  <2>. QED
    BY <1>2, <2>1, <2>2, ParsedIs
<1>3. CASE type = "double"
  <2>1. v \in Double
    BY <1>3, HasTypeMeans
  <2>2. ValueToString("double", v) = DoubleText[v]
    BY DEF ValueToString, Signed, Unsigned
  <2>3. DoubleText[v] \in DOMAIN Strtod /\ Strtod[DoubleText[v]] = v
    BY <1>3, <2>1, FlagValueAssumption
  <2>4. ParseFrom("double", DoubleText[v]) = Parsed(v)
    BY <2>3, ParseFromIs
  <2>. QED
    BY <1>3, <2>2, <2>4, ParsedIs
<1>4. CASE type \in Signed \cup Unsigned
  <2>1. v \in IntRange(type)
    BY <1>4, HasTypeMeans
  <2>2. PICK t : t = ValueToString(type, v)
    OBVIOUS
  <2>3. t \in Seq(Letter) /\ Said(type, t) = {v} /\ ~Mistaken(type, t)
    BY <1>4, <2>1, <2>2, PrintedNumber
  <2>4. Meanings(type, t) = {v}
    BY <1>4, <2>1, <2>3, MeaningsAre
  <2>5. IF ParseFrom(type, t).ok THEN Meanings(type, t) = {ParseFrom(type, t).value}
        ELSE Meanings(type, t) = {}
    BY <1>4, <2>3, ParseMeans
  <2>. QED
    BY <2>2, <2>4, <2>5
<1>. QED
  BY <1>1, <1>2, <1>3, <1>4, Kinds

-----------------------------------------------------------------------------
(* ParsesWhatItMeans.                                                      *)

\* The answer is what the text parses into.
Answered ==
    pc \in {"parsed", "refused"} => answer = ParseFrom(asked.type, asked.text)

LEMMA AnsweredStep == TypeOK /\ Answered /\ [Next]_vars => Answered'
<1> SUFFICES ASSUME TypeOK, Answered, Next \/ UNCHANGED vars PROVE Answered'
  OBVIOUS
<1>1. CASE GetFromEnv
  BY <1>1 DEF GetFromEnv, Answered
<1>2. ASSUME pc' \notin {"parsed", "refused"} PROVE Answered'
  BY <1>2 DEF Answered
<1>3. CASE CommandlineFlagsIntoString \/ AppendFlagsIntoFile \/ AppendFails
  BY <1>2, <1>3 DEF CommandlineFlagsIntoString, AppendFlagsIntoFile, AppendFails
<1>4. CASE SetFlags \/ ReadFlagsFromString \/ FinishReading
  BY <1>2, <1>4 DEF SetFlags, ReadFlagsFromString, FinishReading
<1>5. CASE ReadNothing \/ ReadFilenames \/ IgnoreFlagLine \/ ListEnds
  BY <1>2, <1>5 DEF ReadNothing, ReadFilenames, IgnoreFlagLine, ListEnds, Reading
<1>6. CASE ReadFlagLine \/ ReadFile \/ ReadVariable
  <2>1. pc' \in {pc, "exit"} /\ pc = "reading"
    BY <1>6, LineReads, FileReads, VariableReads DEF ReadFlagLine, ReadFile, ReadVariable, Reading
  <2>. QED
    BY <1>2, <2>1
<1>7. CASE HandleCommandLineHelpFlags \/ ReportDies
  BY <1>2, <1>7 DEF HandleCommandLineHelpFlags, ReportDies
<1>8. CASE Done \/ UNCHANGED vars
  BY <1>8 DEF Done, vars, Answered
<1>. QED
  BY <1>1, <1>3, <1>4, <1>5, <1>6, <1>7, <1>8 DEF Next, Step

\* A numeric text is accepted exactly when it is a number of the flag's type,
\* and as that number (FlagValue::ParseFrom, gflags.cc:292-370), whatever the
\* text and however many bits the types have.
THEOREM ParsesWhatItMeansHolds == Spec => []ParsesWhatItMeans
<1>1. Init => Answered
  BY DEF Init, Answered
<1>2. TypeOK /\ Answered => ParsesWhatItMeans
  <2>1. SUFFICES ASSUME TypeOK, Answered, pc \in {"parsed", "refused"},
                        asked.type \in Signed \cup Unsigned, ~Mistaken(asked.type, asked.text)
                 PROVE  IF answer.ok THEN Meanings(asked.type, asked.text) = {answer.value}
                        ELSE Meanings(asked.type, asked.text) = {}
    BY DEF ParsesWhatItMeans
  <2>2. asked.text \in EnvTexts \cup {<<>>}
    BY <2>1 DEF TypeOK
  <2>3. asked.text \in Seq(Letter)
    <3>1. \A s \in EnvTexts : s \in Seq(Letter)
      BY FlagsIntoStringAssumption
    <3>2. <<>> \in Seq(Letter)
      OBVIOUS
    <3>. QED
      BY <2>2, <3>1, <3>2, Zenon
  <2>. QED
    BY <2>1, <2>3, ParseMeans DEF Answered
<1>. QED
  BY <1>1, <1>2, AnsweredStep, TypeCorrect, PTL DEF Spec

-----------------------------------------------------------------------------
(* RoundTrip.  Where each of the sequences that are put behind each other  *)
(* stands.                                                                 *)

Joins(S, s) ==
  CHOOSE f \in [0..Len(s) -> Seq(S)] : Concatenates(f, s) /\ FlattenSeq(s) = f[Len(s)]

LEMMA JoinsAre ==
  ASSUME NEW S, NEW s \in Seq(Seq(S)), NEW f, f = Joins(S, s)
  PROVE  /\ f \in [0..Len(s) -> Seq(S)] /\ f[0] = <<>>
         /\ \A k \in 1..Len(s) : f[k] = f[k - 1] \o s[k]
         /\ FlattenSeq(s) = f[Len(s)]
<1>1. \E g \in [0..Len(s) -> Seq(S)] : Concatenates(g, s) /\ FlattenSeq(s) = g[Len(s)]
  BY FlattenIs
<1>2. f \in [0..Len(s) -> Seq(S)] /\ Concatenates(f, s) /\ FlattenSeq(s) = f[Len(s)]
  BY <1>1 DEF Joins
<1>. QED
  BY <1>2 DEF Concatenates

Begins(a, b) == Len(a) <= Len(b) /\ \A m \in 1..Len(a) : b[m] = a[m]

(* Each is the beginning of the next ones.                                 *)
LEMMA PrefixesGrow ==
  ASSUME NEW S, NEW s \in Seq(Seq(S)), NEW f, f = Joins(S, s),
         NEW i \in 0..Len(s), NEW j \in i..Len(s)
  PROVE  Begins(f[i], f[j])
<1>0. PICK n \in Nat : n = Len(s)
  OBVIOUS
<1>1. f \in [0..n -> Seq(S)] /\ \A k \in 1..n : f[k] = f[k - 1] \o s[k]
  BY <1>0, JoinsAre
<1>2. \A k \in 0..n : f[k] \in Seq(S) /\ Len(f[k]) \in Nat
  BY <1>1
<1>3. \A k \in 1..n : s[k] \in Seq(S)
  BY <1>0
<1> DEFINE T == {k \in 0..n : k >= i => Begins(f[i], f[k])}
<1>4. ASSUME NEW k \in 0..n, \A l \in 0..k - 1 : l \in T PROVE k \in T
  <2>1. CASE k < i
    BY <2>1
  <2>2. CASE k = i
    BY <1>2, <2>2 DEF Begins
  <2>3. CASE k > i
    <3>1. k - 1 \in 0..k - 1 /\ k - 1 \in 0..n /\ k \in 1..n /\ k - 1 >= i
      BY <2>3
    <3>2. Begins(f[i], f[k - 1])
      BY <1>4, <3>1
    <3>3. PICK a \in Seq(S), b \in Seq(S) : a = f[k - 1] /\ b = s[k]
      BY <1>2, <1>3, <3>1
    <3>4. f[k] = a \o b
      BY <1>1, <3>1, <3>3
    <3>5. /\ Len(a \o b) = Len(a) + Len(b)
          /\ \A m \in 1..Len(a) + Len(b) : (a \o b)[m] = IF m <= Len(a) THEN a[m] ELSE b[m - Len(a)]
      BY ConcatProperties
    <3>6. PICK c \in Nat : c = Len(f[i])
      BY <1>0, <1>2
    <3>7. c <= Len(a) /\ \A m \in 1..c : a[m] = f[i][m]
      BY <3>2, <3>3, <3>6 DEF Begins
    <3>8. Len(a) \in Nat /\ Len(b) \in Nat
      OBVIOUS
    <3>9. c <= Len(a \o b) /\ \A m \in 1..c : (a \o b)[m] = a[m]
      BY <3>5, <3>7, <3>8
    <3>10. Begins(f[i], f[k])
      BY <3>4, <3>6, <3>7, <3>9 DEF Begins
    <3>. QED
      BY <3>10
  <2>. QED
    BY <1>0, <2>1, <2>2, <2>3
<1>5. \A k \in 0..n : k \in T
  <2> HIDE DEF T
  <2>. QED
    BY <1>4, StrongInduction
<1>6. j \in 0..n /\ j >= i
  BY <1>0
<1>7. Begins(f[i], f[j])
  BY <1>5, <1>6
<1>. QED
  BY <1>7

(* Where the k-th one stands behind a header h.                            *)
StandsIn(t, p, q, s) ==
  p \in Nat /\ q = p + Len(s) /\ \A m \in 1..Len(s) : t[p + m] = s[m]

LEMMA PieceAt ==
  ASSUME NEW S, NEW s \in Seq(Seq(S)), NEW f, f = Joins(S, s), NEW h \in Seq(S),
         NEW k \in 1..Len(s),
         NEW p, p = Len(h) + Len(f[k - 1]), NEW q, q = Len(h) + Len(f[k])
  PROVE  StandsIn(h \o FlattenSeq(s), p, q, s[k])
<1>0. PICK n \in Nat : n = Len(s)
  OBVIOUS
<1>1. /\ f \in [0..n -> Seq(S)] /\ \A i \in 1..n : f[i] = f[i - 1] \o s[i]
      /\ FlattenSeq(s) = f[n]
  BY <1>0, JoinsAre
<1>2. k \in 1..n /\ k - 1 \in 0..n /\ k \in 0..n /\ n \in k..n /\ n \in 0..n
  BY <1>0
<1>3. PICK a \in Seq(S), b \in Seq(S), c \in Seq(S) : a = f[k - 1] /\ b = s[k] /\ c = f[n]
  <2>1. f[k - 1] \in Seq(S) /\ f[n] \in Seq(S)
    BY <1>1, <1>2
  <2>2. s[k] \in Seq(S)
    BY ElementOfSeq
  <2>. QED
    BY <2>1, <2>2
<1>4. f[k] = a \o b
  BY <1>1, <1>2, <1>3
<1>5. /\ Len(a \o b) = Len(a) + Len(b)
      /\ \A m \in 1..Len(a) + Len(b) : (a \o b)[m] = IF m <= Len(a) THEN a[m] ELSE b[m - Len(a)]
  BY ConcatProperties
<1>6. Len(a \o b) <= Len(c) /\ \A m \in 1..Len(a \o b) : c[m] = (a \o b)[m]
  <2>1. k \in 0..Len(s) /\ n \in k..Len(s)
    BY <1>0, <1>2
  <2>2. Begins(f[k], f[n])
    BY <2>1, PrefixesGrow
  <2>. QED
    BY <1>3, <1>4, <2>2 DEF Begins
<1>7. /\ Len(h \o c) = Len(h) + Len(c)
      /\ \A m \in 1..Len(h) + Len(c) : (h \o c)[m] = IF m <= Len(h) THEN h[m] ELSE c[m - Len(h)]
  BY ConcatProperties
<1>8. PICK lh \in Nat, la \in Nat, lb \in Nat, lc \in Nat :
         lh = Len(h) /\ la = Len(a) /\ lb = Len(b) /\ lc = Len(c)
  OBVIOUS
<1>9. ASSUME NEW m \in 1..lb PROVE (h \o c)[(lh + la) + m] = b[m]
  <2>1. la + lb <= lc
    BY <1>5, <1>6, <1>8
  <2>2. /\ (lh + la) + m \in 1..lh + lc /\ ~((lh + la) + m <= lh) /\ ((lh + la) + m) - lh = la + m
        /\ la + m \in 1..la + lb /\ ~(la + m <= la) /\ (la + m) - la = m
    BY <2>1
  <2>3. (h \o c)[(lh + la) + m] = c[la + m]
    BY <1>7, <1>8, <2>2
  <2>4. c[la + m] = (a \o b)[la + m]
    BY <1>5, <1>6, <1>8, <2>2
  <2>5. (a \o b)[la + m] = b[m]
    BY <1>5, <1>8, <2>2
  <2>. QED
    BY <2>3, <2>4, <2>5
<1>10. lh + la \in Nat /\ lh + (la + lb) = (lh + la) + lb /\ lh + (la + lb) <= lh + lc
  BY <1>5, <1>6, <1>8
<1>. QED
  BY <1>1, <1>3, <1>4, <1>5, <1>7, <1>8, <1>9, <1>10 DEF StandsIn

(* Where a line ends, if at a newline.                                     *)
LEMMA LineEndIsLeast ==
  ASSUME NEW s \in Seq(Letter)
  PROVE  /\ LineEnd(s) \in 1..Len(s) + 1
         /\ (\A i \in 1..Len(s) : s[i] # "\r") => \A i \in 1..Len(s) : s[i] = "\n" => LineEnd(s) <= i
         /\ (\A i \in 1..Len(s) : s[i] # "\r") => (LineEnd(s) <= Len(s) => s[LineEnd(s)] = "\n")
         /\ \A i \in 1..Len(s) : s[i] = "\r" => LineEnd(s) <= Len(s) /\ s[LineEnd(s)] = "\r"
<1> DEFINE at(c) == {k \in 1..Len(s) : s[k] = c}
           ends == IF at("\r") # {} THEN at("\r") ELSE at("\n")
<1>1. PICK cr, nl : cr = "\r" /\ nl = "\n"
  BY Zenon
<1>2. PICK m \in Nat : m = Len(s)
  OBVIOUS
<1>3. ends = IF at(cr) # {} THEN at(cr) ELSE at(nl)
  BY <1>1, Zenon
<1>4. LineEnd(s) = IF ends = {} THEN m + 1 ELSE Min(ends)
  BY <1>2, Zenon DEF LineEnd
<1> HIDE DEF ends
<1>5. \A c : at(c) \in SUBSET (1..m) /\ \A k \in 1..m : k \in at(c) <=> s[k] = c
  BY <1>2
<1> HIDE DEF at
<1>6. ends \in SUBSET (1..m) /\ ends \in SUBSET Nat
  BY <1>3, <1>5
<1>7. ends # {} => Min(ends) \in ends /\ \A k \in ends : Min(ends) <= k
  BY <1>6, LeastMember
<1>8. PICK e : e = LineEnd(s)
  OBVIOUS
<1>9. e \in 1..m + 1
  BY <1>2, <1>8, LineEndIs
<1>10. e <= m <=> ends # {}
  <2>1. CASE ends = {}
    BY <1>4, <1>8, <2>1
  <2>2. CASE ends # {}
    <3>1. e \in ends
      BY <1>4, <1>7, <1>8, <2>2
    <3>2. e \in 1..m
      BY <1>6, <3>1
    <3>. QED
      BY <2>2, <3>2
  <2>. QED
    BY <2>1, <2>2
<1>11. e <= m => e \in ends /\ \A k \in ends : e <= k
  BY <1>4, <1>7, <1>8, <1>10
<1>12. ASSUME \A i \in 1..m : s[i] # cr
       PROVE  (\A i \in 1..m : s[i] = nl => e <= i) /\ (e <= m => s[e] = nl)
  <2>1. at(cr) = {}
    BY <1>5, <1>12
  <2>2. ends = at(nl)
    BY <1>3, <2>1
  <2>3. ASSUME NEW i \in 1..m, s[i] = nl PROVE e <= i
    <3>1. i \in ends
      BY <1>5, <2>2, <2>3
    <3>. QED
      BY <1>10, <1>11, <3>1
  <2>4. e <= m => s[e] = nl
    BY <1>5, <1>6, <1>11, <2>2
  <2>. QED
    BY <2>3, <2>4
<1>13. ASSUME NEW i \in 1..m, s[i] = cr PROVE e <= m /\ s[e] = cr
  <2>1. i \in at(cr)
    BY <1>5, <1>13
  <2>2. ends = at(cr) /\ ends # {}
    BY <1>3, <2>1
  <2>. QED
    BY <1>5, <1>6, <1>10, <1>11, <2>2
<1>. QED
  BY <1>1, <1>2, <1>8, <1>9, <1>12, <1>13, Zenon

LEMMA LineEndAt ==
  ASSUME NEW s \in Seq(Letter), NEW e \in 1..Len(s), s[e] = "\n",
         \A i \in 1..e - 1 : s[i] # "\n", \A i \in 1..Len(s) : s[i] # "\r"
  PROVE  LineEnd(s) = e
<1>1. PICK d \in 1..Len(s) + 1 : d = LineEnd(s)
  BY LineEndIsLeast
<1>2. d <= e
  BY <1>1, LineEndIsLeast
<1>3. s[d] = "\n"
  BY <1>1, <1>2, LineEndIsLeast
<1>4. ~(d \in 1..e - 1)
  BY <1>3
<1>. QED
  BY <1>1, <1>2, <1>4

LEMMA LineEndWithin ==
  ASSUME NEW s \in Seq(Letter), NEW e \in 1..Len(s), s[e] = "\n",
         \A i \in e + 1..Len(s) : s[i] # "\r"
  PROVE  LineEnd(s) \in 1..e
<1>1. PICK d \in 1..Len(s) + 1 : d = LineEnd(s)
  BY LineEndIsLeast
<1>2. CASE \A i \in 1..Len(s) : s[i] # "\r"
  BY <1>1, <1>2, LineEndIsLeast
<1>3. ASSUME NEW i \in 1..Len(s), s[i] = "\r" PROVE d \in 1..e
  <2>1. d <= Len(s) /\ s[d] = "\r"
    BY <1>1, <1>3, LineEndIsLeast
  <2>2. ~(d \in e + 1..Len(s))
    BY <2>1
  <2>. QED
    BY <1>1, <2>1, <2>2
<1>. QED
  BY <1>1, <1>2, <1>3

-----------------------------------------------------------------------------
(* The line of a flag.                                                     *)

LineOf(n, v) == <<"-", "-", n, "=">> \o ValueToString(TypeOf[n], v) \o <<"\n">>

\* The line l of the flag n with the value's text w, letter by letter.
IsLine(l, n, w) ==
  /\ l \in Seq(Letter) /\ Len(l) = Len(w) + 5
  /\ l[1] = "-" /\ l[2] = "-" /\ l[3] = n /\ l[4] = "="
  /\ \A k \in 1..Len(w) : l[k + 4] = w[k]
  /\ l[Len(w) + 5] = "\n"

Breakless(w) == \A k \in 1..Len(w) : w[k] \notin LineBreaks

LEMMA DigitsBreakless ==
  ASSUME NEW d \in Seq(Digits(10))
  PROVE  Breakless(d) /\ Breakless(<<"-">> \o d)
<1>1. \A c \in Digits(10) : c \notin LineBreaks
  <2>1. LineBreaks \in SUBSET IsSpace
    BY Zenon DEF LineBreaks, IsSpace
  <2>. QED
    BY <2>1, NoDigits
<1>2. \A k \in 1..Len(d) : d[k] \in Digits(10)
  OBVIOUS
<1>3. Breakless(d)
  BY <1>1, <1>2 DEF Breakless
<1>4. "-" \notin LineBreaks
  BY DEF LineBreaks
<1>5. PICK S : S = Digits(10) \cup {"-"}
  OBVIOUS
<1>6. d \in Seq(S) /\ "-" \in S
  BY <1>5
<1>7. PICK t : t = <<"-">> \o d
  OBVIOUS
<1>8. t \in Seq(S)
  BY <1>6, <1>7, BehindOne
<1>9. \A c \in S : c \notin LineBreaks
  BY <1>1, <1>4, <1>5
<1>10. \A k \in 1..Len(t) : t[k] \in S
  BY <1>8
<1>11. Breakless(t)
  BY <1>9, <1>10 DEF Breakless
<1>. QED
  BY <1>3, <1>7, <1>11

LEMMA PrintedBreakless ==
  ASSUME NEW type \in Type, NEW v, HasType(v, type),
         type = "string" => Breakless(v)
  PROVE  Breakless(ValueToString(type, v))
<1>1. CASE type = "bool"
  <2>1. ValueToString(type, v) \in {<<"true">>, <<"false">>}
    BY <1>1 DEF ValueToString, Signed, Unsigned
  <2>2. "true" \notin LineBreaks /\ "false" \notin LineBreaks
    BY DEF LineBreaks
  <2>3. Breakless(<<"true">>) /\ Breakless(<<"false">>)
    BY <2>2 DEF Breakless
  <2>. QED
    BY <2>1, <2>3
<1>2. CASE type = "string"
  <2>1. ValueToString(type, v) = v
    BY <1>2 DEF ValueToString, Signed, Unsigned
  <2>. QED
    BY <1>2, <2>1
<1>3. CASE type = "double"
  <2>1. v \in Double
    BY <1>3, HasTypeMeans
  <2>2. ValueToString(type, v) = DoubleText[v]
    BY <1>3 DEF ValueToString, Signed, Unsigned
  <2>. QED
    BY <2>1, <2>2, TextAssumption DEF Breakless
<1>4. CASE type \in Signed \cup Unsigned
  <2>1. v \in Int
    BY <1>4, HasTypeMeans, Ranges
  <2>2. ValueToString(type, v) = IF v < 0 THEN <<"-">> \o Decimal(-v) ELSE Decimal(v)
    BY <1>4, Kinds DEF ValueToString
  <2>3. CASE v < 0
    <3>1. -v \in Nat
      BY <2>1, <2>3
    <3>. QED
      BY <2>2, <2>3, <3>1, DecimalIs, DigitsBreakless
  <2>4. CASE ~(v < 0)
    <3>1. v \in Nat
      BY <2>1, <2>4
    <3>. QED
      BY <2>2, <2>4, <3>1, DecimalIs, DigitsBreakless
  <2>. QED
    BY <2>3, <2>4
<1>. QED
  BY <1>1, <1>2, <1>3, <1>4, Kinds

LEMMA LineOfIs ==
  ASSUME NEW n \in Names, NEW v, HasType(v, TypeOf[n])
  PROVE  IsLine(LineOf(n, v), n, ValueToString(TypeOf[n], v))
         /\ ValueToString(TypeOf[n], v) \in Seq(Letter)
<1>1. PICK w \in Seq(Letter) : w = ValueToString(TypeOf[n], v)
  BY NamesAre, ValueToStringType
<1>2. {"-", "=", "\n", n} \in SUBSET Letter
  BY NamesAre, FlagValueAssumption, FlagsIntoStringAssumption
<1>3. PICK a \in Seq(Letter), z \in Seq(Letter) : a = <<"-", "-", n, "=">> /\ z = <<"\n">>
  <2>1. <<"-", "-", n, "=">> \in Seq(Letter)
    BY <1>2
  <2>2. <<"\n">> \in Seq(Letter)
    BY <1>2
  <2>. QED
    BY <2>1, <2>2
<1>4. Len(a) = 4 /\ a[1] = "-" /\ a[2] = "-" /\ a[3] = n /\ a[4] = "="
  BY <1>3
<1>5. Len(z) = 1 /\ z[1] = "\n"
  BY <1>3
<1>6. PICK b \in Seq(Letter) : b = a \o w
  BY ConcatProperties
<1>7. Len(b) = Len(a) + Len(w) /\ \A k \in 1..Len(a) + Len(w) : b[k] = IF k <= Len(a) THEN a[k] ELSE w[k - Len(a)]
  BY <1>6, ConcatProperties
<1>8. PICK l \in Seq(Letter) : l = b \o z
  BY ConcatProperties
<1>9. Len(l) = Len(b) + Len(z) /\ \A k \in 1..Len(b) + Len(z) : l[k] = IF k <= Len(b) THEN b[k] ELSE z[k - Len(b)]
  BY <1>8, ConcatProperties
<1>10. l = LineOf(n, v)
  BY <1>1, <1>3, <1>6, <1>8 DEF LineOf
<1>11. PICK m \in Nat : m = Len(w)
  OBVIOUS
<1>12. Len(b) = m + 4 /\ Len(l) = m + 5
  BY <1>4, <1>5, <1>7, <1>9, <1>11
<1>13. \A k \in 1..m + 4 : l[k] = b[k]
  BY <1>5, <1>9, <1>12
<1>14. \A k \in 1..4 : b[k] = a[k]
  BY <1>4, <1>7, <1>11
<1>15. ASSUME NEW k \in 1..m PROVE b[k + 4] = w[k]
  <2>1. k + 4 \in 1..4 + m /\ ~(k + 4 <= 4) /\ (k + 4) - 4 = k
    OBVIOUS
  <2>. QED
    BY <1>4, <1>7, <1>11, <2>1
<1>16. l[m + 5] = "\n"
  <2>1. m + 5 \in 1..(m + 4) + 1 /\ ~(m + 5 <= m + 4) /\ (m + 5) - (m + 4) = 1
    OBVIOUS
  <2>. QED
    BY <1>5, <1>9, <1>12, <2>1
<1>17. l[1] = "-" /\ l[2] = "-" /\ l[3] = n /\ l[4] = "="
  BY <1>4, <1>13, <1>14
<1>18. ASSUME NEW k \in 1..m PROVE l[k + 4] = w[k]
  <2>1. k + 4 \in 1..m + 4
    OBVIOUS
  <2>. QED
    BY <1>13, <1>15, <2>1
<1>19. IsLine(l, n, w)
  BY <1>11, <1>12, <1>16, <1>17, <1>18 DEF IsLine
<1>. QED
  BY <1>1, <1>10, <1>19

(* A line at the front of what is left is read as what it was written for. *)
ReadAs(c, l, n, w) ==
  LET line == SubSeq(c, 1, Len(l) - 1)
      a == Without(line, 2)
  IN  /\ Lead(c, IsSpace) = 0 /\ LineEnd(c) = Len(l) /\ Len(l) \in 1..Len(c)
      /\ line # <<>> /\ line[1] = "-" /\ Len(line) > 1 /\ line[2] = "-"
      /\ SplitArgumentLocked(a) = {[flag |-> n, value |-> w]}

(* The letter in front of the "=" names the flag.                          *)
LEMMA SplitIs ==
  ASSUME NEW a \in Seq(Letter), NEW n \in Names, NEW w, Len(a) >= 2, a[1] = n, a[2] = "=",
         Without(a, 2) = w
  PROVE  SplitArgumentLocked(a) = {[flag |-> n, value |-> w]}
<1>1. n \in Letter \ {"="}
  BY NamesAre, TextAssumption
<1>2. Lead(a, Letter \ {"="}) = 1
  <2>1. 1 \in 0..Len(a) /\ 1 + 1 = 2
    OBVIOUS
  <2>2. \A i \in 1..1 : a[i] \in Letter \ {"="}
    BY <1>1
  <2>. QED
    BY <2>1, <2>2, LeadIs
<1>3. PICK key : key = SubSeq(a, 1, 1)
  OBVIOUS
<1>4. Len(key) = 1 /\ key[1] = n
  <2>1. 1 \in 0..Len(a)
    OBVIOUS
  <2>. QED
    BY <1>3, <2>1, FrontOf
<1>5. FindFlagLocked(key) = {n}
  BY <1>4 DEF FindFlagLocked
<1>6. 1 < Len(a) /\ Without(a, 1 + 1) = w
  OBVIOUS
<1>7. SplitArgumentLocked(a) =
         { [flag |-> m, value |-> IF 1 < Len(a) THEN Without(a, 1 + 1) ELSE <<"1">>] :
              m \in { m \in {n} : 1 < Len(a) \/ TypeOf[m] = "bool" } }
         \cup { [flag |-> m, value |-> <<"0">>] : m \in { m \in {} : TypeOf[m] = "bool" } }
  BY <1>2, <1>3, <1>5 DEF SplitArgumentLocked
<1>. QED
  BY <1>6, <1>7

LEMMA LineInText ==
  ASSUME NEW c \in Seq(Letter), NEW n \in Names, NEW w \in Seq(Letter), NEW l, IsLine(l, n, w),
         Breakless(w), Len(l) <= Len(c), \A i \in 1..Len(l) : c[i] = l[i],
         \A i \in 1..Len(c) : c[i] # "\r"
  PROVE  ReadAs(c, l, n, w)
<1>1. PICK m \in Nat : m = Len(w)
  OBVIOUS
<1>2. /\ l \in Seq(Letter) /\ Len(l) = m + 5
      /\ l[1] = "-" /\ l[2] = "-" /\ l[3] = n /\ l[4] = "="
      /\ (\A k \in 1..m : l[k + 4] = w[k]) /\ l[m + 5] = "\n"
  BY <1>1 DEF IsLine
<1>3. m + 5 <= Len(c) /\ \A i \in 1..m + 5 : c[i] = l[i]
  BY <1>2
<1>4. n # "\n"
  BY TextAssumption DEF LineBreaks
<1>5. c[1] = "-" /\ c[2] = "-" /\ c[3] = n /\ c[4] = "=" /\ c[m + 5] = "\n"
  BY <1>2, <1>3
<1>6. \A k \in 1..m : c[k + 4] = w[k] /\ w[k] # "\n"
  <2>1. \A k \in 1..m : k + 4 \in 1..m + 5
    OBVIOUS
  <2>2. \A k \in 1..m : w[k] # "\n"
    BY <1>1 DEF Breakless, LineBreaks
  <2>. QED
    BY <1>2, <1>3, <2>1, <2>2
<1>7. Lead(c, IsSpace) = 0
  <2>1. 0 \in 0..Len(c) /\ (\A i \in 1..0 : c[i] \in IsSpace) /\ c[0 + 1] \notin IsSpace
    BY <1>5, NoDigits
  <2>. QED
    BY <2>1, LeadIs
<1>8. ASSUME NEW i \in 1..m + 4 PROVE c[i] # "\n"
  <2>1. CASE i <= 4
    BY <1>4, <1>5, <2>1
  <2>2. CASE i > 4
    <3>1. i - 4 \in 1..m /\ (i - 4) + 4 = i
      BY <2>2
    <3>. QED
      BY <1>6, <3>1
  <2>. QED
    BY <2>1, <2>2
<1>9. LineEnd(c) = m + 5
  <2>1. m + 5 \in 1..Len(c) /\ (m + 5) - 1 = m + 4
    BY <1>3
  <2>. QED
    BY <1>5, <1>8, <2>1, LineEndAt
<1>10. PICK line \in Seq(Letter) : line = SubSeq(c, 1, Len(l) - 1)
  <2>1. Len(l) - 1 \in 0..Len(c)
    BY <1>2, <1>3
  <2>. QED
    BY <2>1, FrontOf
<1>11. Len(line) = m + 4 /\ \A i \in 1..m + 4 : line[i] = c[i]
  <2>1. Len(l) - 1 = m + 4 /\ m + 4 \in 0..Len(c)
    BY <1>2, <1>3
  <2>. QED
    BY <1>10, <2>1, FrontOf
<1>12. line[1] = "-" /\ line[2] = "-" /\ line # <<>>
  BY <1>5, <1>11
<1>13. 2 \in 0..Len(line) /\ Len(line) - 2 = m + 2
  BY <1>11
<1>14. PICK a \in Seq(Letter) : a = Without(line, 2)
  BY <1>13, WithoutOf
<1>15. Len(a) = m + 2 /\ \A i \in 1..m + 2 : a[i] = line[i + 2]
  <2>1. Len(a) = Len(line) - 2 /\ \A i \in 1..Len(line) - 2 : a[i] = line[i + 2]
    BY <1>13, <1>14, WithoutOf
  <2>. QED
    BY <1>13, <2>1
<1>16. a[1] = n /\ a[2] = "="
  <2>1. 1 \in 1..m + 2 /\ 2 \in 1..m + 2 /\ 1 + 2 = 3 /\ 2 + 2 = 4 /\ 3 \in 1..m + 4 /\ 4 \in 1..m + 4
    OBVIOUS
  <2>. QED
    BY <1>5, <1>11, <1>15, <2>1
<1>17. 2 \in 0..Len(a) /\ Len(a) - 2 = m
  BY <1>15
<1>18. PICK v \in Seq(Letter) : v = Without(a, 2)
  BY <1>17, WithoutOf
<1>19. Len(v) = m /\ \A i \in 1..m : v[i] = a[i + 2]
  BY <1>17, <1>18, WithoutOf
<1>20. ASSUME NEW i \in 1..m PROVE v[i] = w[i]
  <2>1. i + 2 \in 1..m + 2 /\ (i + 2) + 2 = i + 4 /\ i + 4 \in 1..m + 4
    OBVIOUS
  <2>2. v[i] = line[i + 4]
    BY <1>15, <1>19, <2>1
  <2>. QED
    BY <1>6, <1>11, <2>1, <2>2
<1>21. v = w
  BY <1>1, <1>19, <1>20, SameElements
<1>22. Len(l) = m + 5 /\ Len(l) \in 1..Len(c) /\ Len(line) > 1 /\ Len(a) >= 2
  BY <1>2, <1>3, <1>11, <1>15
<1>23. SplitArgumentLocked(a) = {[flag |-> n, value |-> w]}
  <2>1. Without(a, 2) = w /\ Len(a) >= 2
    BY <1>18, <1>21, <1>22
  <2>. QED
    BY <1>16, <2>1, SplitIs, Zenon
<1>. QED
  BY <1>7, <1>9, <1>10, <1>12, <1>14, <1>22, <1>23 DEF ReadAs

-----------------------------------------------------------------------------
(* What was written, and where in the text.                                *)

LinesOf(names, values) ==
  [k \in DOMAIN Name |-> IF Name[k] \in names THEN LineOf(Name[k], values[Name[k]]) ELSE <<>>]

Header(before, named) == before \o (IF named THEN <<Prog, "\n">> ELSE <<>>)

MyLines == LinesOf(written.names, written.flags)
MyHeader == Header(written.before, written.named)
Place(k) == Len(MyHeader) + Len(Joins(Letter, MyLines)[k])

WrittenOK ==
  /\ written.how \in {"string", "file"} /\ written.names \in SUBSET Names
  /\ written.named \in BOOLEAN /\ written.before \in Seq(Letter) /\ Typed(written.flags)
  /\ written.how = "string" =>
        written.before = <<>> /\ ~written.named /\ written.names = Names
  /\ written.how = "file" => written.names = Names \ {"flagfile"}
  /\ text = MyHeader \o FlattenSeq(MyLines)

Good == Readable(written.flags) /\ Ours

LEMMA NameLength ==
  Len(Name) \in Nat /\ DOMAIN Name = 1..Len(Name) /\ \A k \in 1..Len(Name) : Name[k] \in Names
<1>1. Name \in Seq(Letter)
  BY FlagsIntoStringAssumption
<1>. QED
  BY <1>1, NamesAre

LEMMA LinesAre ==
  ASSUME WrittenOK
  PROVE  MyLines \in Seq(Seq(Letter)) /\ Len(MyLines) = Len(Name)
<1>1. PICK N \in Nat : N = Len(Name)
  BY NameLength
<1> DEFINE E(k) == IF Name[k] \in written.names THEN LineOf(Name[k], written.flags[Name[k]])
                   ELSE <<>>
<1>2. MyLines = [k \in 1..N |-> E(k)]
  BY <1>1, NameLength DEF MyLines, LinesOf
<1>3. ASSUME NEW k \in 1..N PROVE E(k) \in Seq(Letter)
  <2>1. CASE Name[k] \in written.names
    <3>1. Name[k] \in Names
      BY <1>1, NameLength
    <3>2. HasType(written.flags[Name[k]], TypeOf[Name[k]])
      BY <3>1 DEF WrittenOK, Typed
    <3>3. IsLine(E(k), Name[k], ValueToString(TypeOf[Name[k]], written.flags[Name[k]]))
      BY <2>1, <3>1, <3>2, LineOfIs
    <3>. QED
      BY <3>3 DEF IsLine
  <2>2. CASE Name[k] \notin written.names
    BY <2>2
  <2>. QED
    BY <2>1, <2>2
<1> HIDE DEF E
<1>. QED
  BY <1>1, <1>2, <1>3

LEMMA LineWritten ==
  ASSUME WrittenOK, Good, NEW k \in 1..Len(Name), Name[k] \in written.names,
         NEW w, w = ValueToString(TypeOf[Name[k]], written.flags[Name[k]])
  PROVE  /\ IsLine(MyLines[k], Name[k], w) /\ w \in Seq(Letter) /\ Breakless(w)
         /\ ParseFrom(TypeOf[Name[k]], w).ok
         /\ ParseFrom(TypeOf[Name[k]], w).value = written.flags[Name[k]]
<1>1. Name[k] \in Names /\ TypeOf[Name[k]] \in Type
  BY NameLength, NamesAre
<1>2. HasType(written.flags[Name[k]], TypeOf[Name[k]])
  BY <1>1 DEF WrittenOK, Typed
<1>3. MyLines[k] = LineOf(Name[k], written.flags[Name[k]])
  BY NameLength DEF MyLines, LinesOf
<1>4. /\ TypeOf[Name[k]] = "string" => Breakless(written.flags[Name[k]])
      /\ TypeOf[Name[k]] = "double" => DoubleText[written.flags[Name[k]]] \in DOMAIN Strtod
  BY <1>1 DEF Good, Readable, Breakless
<1>5. Breakless(w)
  BY <1>1, <1>2, <1>4, PrintedBreakless
<1>6. IsLine(MyLines[k], Name[k], w) /\ w \in Seq(Letter)
  BY <1>1, <1>2, <1>3, LineOfIs
<1>7. ParseFrom(TypeOf[Name[k]], w).ok /\ ParseFrom(TypeOf[Name[k]], w).value = written.flags[Name[k]]
  BY <1>1, <1>2, <1>4, PrintedValuesParse
<1>. QED
  BY <1>5, <1>6, <1>7

LEMMA HeaderIs ==
  ASSUME WrittenOK, Good
  PROVE  /\ MyHeader \in Seq(Letter)
         /\ written.named => /\ Len(MyHeader) = Len(written.before) + 2
                             /\ MyHeader[Len(written.before) + 1] = Prog
                             /\ MyHeader[Len(written.before) + 2] = "\n"
         /\ \A i \in 1..Len(written.before) : MyHeader[i] = written.before[i]
         /\ ~written.named => written.before = <<>> /\ Len(MyHeader) = 0
         /\ written.before # <<>> =>
               Len(written.before) > 0 /\ written.before[Len(written.before)] = "\n"
<1>1. PICK b \in Seq(Letter) : b = written.before
  BY DEF WrittenOK
<1>2. PICK l \in Nat : l = Len(b)
  OBVIOUS
<1>3. PICK z \in Seq(Letter) : z = <<Prog, "\n">>
  <2>1. Prog \in Letter /\ "\n" \in Letter
    BY FlagsIntoStringAssumption
  <2>2. <<Prog, "\n">> \in Seq(Letter)
    BY <2>1
  <2>. QED
    BY <2>2
<1>4. Len(z) = 2 /\ z[1] = Prog /\ z[2] = "\n"
  BY <1>3
<1>5. CASE written.named
  <2>1. MyHeader = b \o z
    BY <1>1, <1>3, <1>5 DEF MyHeader, Header
  <2>2. /\ b \o z \in Seq(Letter) /\ Len(b \o z) = Len(b) + Len(z)
        /\ \A k \in 1..Len(b) + Len(z) : (b \o z)[k] = IF k <= Len(b) THEN b[k] ELSE z[k - Len(b)]
    BY ConcatProperties
  <2>3. /\ l + 1 \in 1..l + 2 /\ l + 2 \in 1..l + 2 /\ ~(l + 1 <= l) /\ ~(l + 2 <= l)
        /\ (l + 1) - l = 1 /\ (l + 2) - l = 2
    OBVIOUS
  <2>4. Len(b \o z) = l + 2 /\ (b \o z)[l + 1] = Prog /\ (b \o z)[l + 2] = "\n"
    BY <1>2, <1>4, <2>2, <2>3
  <2>5. \A i \in 1..l : (b \o z)[i] = b[i]
    BY <1>2, <1>4, <2>2
  <2>6. b # <<>> => l > 0 /\ b[l] = "\n"
    <3>1. SUFFICES ASSUME b # <<>> PROVE l > 0 /\ b[l] = "\n"
      OBVIOUS
    <3>2. written.how # "string"
      BY <1>5 DEF WrittenOK
    <3>3. written.how = "file"
      BY <3>2 DEF WrittenOK
    <3>4. Last(b) = "\n"
      BY <1>1, <3>1, <3>3 DEF Good, Ours
    <3>5. l # 0
      BY <1>2, <3>1, EmptyIs
    <3>. QED
      BY <1>2, <3>4, <3>5 DEF Last
  <2>. QED
    BY <1>1, <1>2, <1>5, <2>1, <2>2, <2>4, <2>5, <2>6
<1>6. CASE ~written.named
  <2>1. b = <<>>
    <3>1. CASE written.how = "string"
      BY <1>1, <3>1 DEF WrittenOK
    <3>2. CASE written.how = "file"
      BY <1>1, <1>6, <3>2 DEF Good, Ours
    <3>. QED
      BY <3>1, <3>2 DEF WrittenOK
  <2>2. MyHeader = <<>>
    BY <1>1, <1>6, <2>1 DEF MyHeader, Header
  <2>3. Len(MyHeader) = 0 /\ MyHeader \in Seq(Letter) /\ ~(\E i \in 1..Len(b) : TRUE)
    BY <2>1, <2>2
  <2>. QED
    BY <1>1, <1>6, <2>1, <2>3
<1>. QED
  BY <1>5, <1>6 DEF WrittenOK

LEMMA TextIs ==
  ASSUME WrittenOK, Good
  PROVE  /\ text \in Seq(Letter) /\ FlattenSeq(MyLines) \in Seq(Letter)
         /\ Len(text) = Len(MyHeader) + Len(FlattenSeq(MyLines))
         /\ \A i \in 1..Len(MyHeader) : text[i] = MyHeader[i]
         /\ \A i \in 1..Len(FlattenSeq(MyLines)) :
               text[Len(MyHeader) + i] = FlattenSeq(MyLines)[i]
<1>1. PICK h \in Seq(Letter) : h = MyHeader
  BY HeaderIs
<1>2. PICK s \in Seq(Seq(Letter)) : s = MyLines
  BY LinesAre
<1>3. PICK t \in Seq(Letter) : t = FlattenSeq(s)
  <2>1. Len(s) \in 0..Len(s)
    OBVIOUS
  <2>. QED
    BY <2>1, FlattenIs
<1>4. text = h \o t
  BY <1>1, <1>2, <1>3 DEF WrittenOK
<1>5. /\ h \o t \in Seq(Letter) /\ Len(h \o t) = Len(h) + Len(t)
      /\ \A k \in 1..Len(h) + Len(t) : (h \o t)[k] = IF k <= Len(h) THEN h[k] ELSE t[k - Len(h)]
  BY ConcatProperties
<1>6. PICK a \in Nat, b \in Nat : a = Len(h) /\ b = Len(t)
  OBVIOUS
<1>7. \A i \in 1..a : (h \o t)[i] = h[i]
  BY <1>5, <1>6
<1>8. ASSUME NEW i \in 1..b PROVE (h \o t)[a + i] = t[i]
  <2>1. a + i \in 1..a + b /\ ~(a + i <= a) /\ (a + i) - a = i
    OBVIOUS
  <2>. QED
    BY <1>5, <1>6, <2>1
<1>. QED
  BY <1>1, <1>2, <1>3, <1>4, <1>5, <1>6, <1>7, <1>8

LEMMA PlacesAre ==
  ASSUME WrittenOK, Good
  PROVE  /\ Place(0) = Len(MyHeader) /\ Place(Len(Name)) = Len(text)
         /\ \A i, j \in 0..Len(Name) : i <= j => Place(i) <= Place(j)
         /\ \A k \in 0..Len(Name) : Place(k) \in 0..Len(text)
<1>1. PICK N \in Nat : N = Len(Name)
  BY NameLength
<1>2. PICK s \in Seq(Seq(Letter)) : s = MyLines /\ Len(s) = N
  BY <1>1, LinesAre
<1>3. PICK f : f = Joins(Letter, s)
  OBVIOUS
<1>4. f \in [0..N -> Seq(Letter)] /\ f[0] = <<>> /\ FlattenSeq(s) = f[N]
  BY <1>2, <1>3, JoinsAre
<1>5. PICK h \in Nat : h = Len(MyHeader)
  BY HeaderIs
<1>6. \A k \in 0..N : Len(f[k]) \in Nat /\ Place(k) = h + Len(f[k])
  <2>1. \A k \in 0..N : f[k] \in Seq(Letter)
    BY <1>4
  <2>2. \A k \in 0..N : Place(k) = h + Len(f[k])
    BY <1>2, <1>3, <1>5 DEF Place
  <2>. QED
    BY <2>1, <2>2
<1>7. Len(f[0]) = 0
  BY <1>4
<1>8. 0 \in 0..N /\ N \in 0..N
  OBVIOUS
<1>9. Place(N) = Len(text)
  BY <1>2, <1>4, <1>5, <1>6, <1>8, TextIs
<1>10. ASSUME NEW i \in 0..N, NEW j \in 0..N, i <= j PROVE Place(i) <= Place(j)
  <2>1. i \in 0..Len(s) /\ j \in i..Len(s)
    BY <1>2, <1>10
  <2>2. Begins(f[i], f[j])
    BY <1>3, <2>1, PrefixesGrow
  <2>3. Len(f[i]) <= Len(f[j])
    BY <2>2 DEF Begins
  <2>. QED
    BY <1>6, <2>3
<1>11. \A k \in 0..N : Place(k) \in Nat
  BY <1>6
<1>12. ASSUME NEW k \in 0..N PROVE Place(k) \in 0..Len(text)
  <2>1. Place(k) <= Place(N) /\ Place(k) \in Nat /\ Place(N) \in Nat
    BY <1>8, <1>10, <1>11
  <2>. QED
    BY <1>9, <2>1
<1>13. Place(0) = h
  <2>1. Place(0) = h + Len(f[0])
    BY <1>6, <1>8
  <2>. QED
    BY <1>7, <2>1
<1>. QED
  BY <1>1, <1>5, <1>9, <1>10, <1>12, <1>13

(* A flag that was not written takes no place, the line of another stands  *)
(* between its places.                                                     *)
LEMMA PlaceNext ==
  ASSUME WrittenOK, Good, NEW k \in 1..Len(Name)
  PROVE  /\ Place(k) = Place(k - 1) + Len(MyLines[k])
         /\ \A m \in 1..Len(MyLines[k]) : text[Place(k - 1) + m] = MyLines[k][m]
         /\ Name[k] \notin written.names => Place(k) = Place(k - 1)
<1>1. PICK s \in Seq(Seq(Letter)) : s = MyLines /\ Len(s) = Len(Name)
  BY LinesAre
<1>2. PICK h \in Seq(Letter) : h = MyHeader
  BY HeaderIs
<1>3. PICK f : f = Joins(Letter, s)
  OBVIOUS
<1>4. k \in 1..Len(s)
  BY <1>1
<1>5. PICK p, q : p = Len(h) + Len(f[k - 1]) /\ q = Len(h) + Len(f[k])
  OBVIOUS
<1>6. StandsIn(h \o FlattenSeq(s), p, q, s[k])
  BY <1>3, <1>4, <1>5, PieceAt
<1>7. /\ p \in Nat /\ q = p + Len(s[k])
      /\ \A m \in 1..Len(s[k]) : (h \o FlattenSeq(s))[p + m] = s[k][m]
  BY <1>6 DEF StandsIn
<1>8. p = Place(k - 1) /\ q = Place(k)
  BY <1>1, <1>2, <1>3, <1>5 DEF Place
<1>9. text = h \o FlattenSeq(s)
  BY <1>1, <1>2 DEF WrittenOK
<1>10. ASSUME Name[k] \notin written.names PROVE q = p
  <2>1. s[k] = <<>>
    BY <1>1, <1>10, NameLength DEF MyLines, LinesOf
  <2>2. Len(s[k]) = 0
    BY <2>1
  <2>. QED
    BY <1>7, <2>2
<1>. QED
  BY <1>1, <1>7, <1>8, <1>9, <1>10

(* A file's carriage returns stand before what was appended to it.         *)
LEMMA NoReturns ==
  ASSUME WrittenOK, Good
  PROVE  \A i \in Len(written.before) + 1..Len(text) : text[i] # "\r"
<1>1. PICK S : S = {c \in Letter : c # "\r"}
  OBVIOUS
<1>2. PICK N \in Nat : N = Len(Name)
  BY NameLength
<1>3. PICK s \in Seq(Seq(Letter)) : s = MyLines /\ Len(s) = N
  BY <1>2, LinesAre
<1>4. ASSUME NEW k \in 1..N PROVE s[k] \in Seq(S)
  <2>1. CASE Name[k] \notin written.names
    <3>1. s[k] = <<>>
      BY <1>2, <1>3, <2>1, NameLength DEF MyLines, LinesOf
    <3>. QED
      BY <3>1
  <2>2. CASE Name[k] \in written.names
    <3>1. PICK w \in Seq(Letter), l \in Seq(Letter) :
             /\ l = s[k] /\ IsLine(l, Name[k], w) /\ Breakless(w)
      <4>1. PICK w : w = ValueToString(TypeOf[Name[k]], written.flags[Name[k]])
        OBVIOUS
      <4>2. IsLine(MyLines[k], Name[k], w) /\ w \in Seq(Letter) /\ Breakless(w)
        BY <1>2, <2>2, <4>1, LineWritten
      <4>. QED
        BY <1>3, <4>2 DEF IsLine
    <3>2. PICK m \in Nat : m = Len(w)
      OBVIOUS
    <3>3. /\ Len(l) = m + 5
          /\ l[1] = "-" /\ l[2] = "-" /\ l[3] = Name[k] /\ l[4] = "="
          /\ (\A i \in 1..m : l[i + 4] = w[i]) /\ l[m + 5] = "\n"
      BY <3>1, <3>2 DEF IsLine
    <3>4. Name[k] # "\r"
      <4>1. Name[k] \in Names
        BY <1>2, NameLength
      <4>. QED
        BY <4>1, TextAssumption DEF LineBreaks
    <3>5. \A i \in 1..m : w[i] # "\r"
      BY <3>1, <3>2 DEF Breakless, LineBreaks
    <3>6. ASSUME NEW i \in 1..m + 5 PROVE l[i] # "\r"
      <4>1. CASE i <= 4
        BY <3>3, <3>4, <4>1
      <4>2. CASE i = m + 5
        BY <3>3, <4>2
      <4>3. CASE i > 4 /\ i # m + 5
        <5>1. i - 4 \in 1..m /\ (i - 4) + 4 = i
          BY <4>3
        <5>. QED
          BY <3>3, <3>5, <5>1
      <4>. QED
        BY <4>1, <4>2, <4>3
    <3>7. l \in Seq(S)
      BY <1>1, <3>3, <3>6
    <3>. QED
      BY <3>1, <3>7
  <2>. QED
    BY <2>1, <2>2
<1>5. s \in Seq(Seq(S))
  <2>1. PICK T : T = Seq(S)
    OBVIOUS
  <2>2. \A k \in 1..Len(s) : s[k] \in T
    BY <1>3, <1>4, <2>1
  <2>3. PICK U : s \in Seq(U)
    OBVIOUS
  <2>4. s \in Seq(T)
    BY ONLY <2>2, <2>3
  <2>. QED
    BY <2>1, <2>4
<1>6. PICK t \in Seq(S) : t = FlattenSeq(MyLines)
  <2>1. Len(s) \in 0..Len(s)
    BY <1>3
  <2>. QED
    BY <1>3, <1>5, <2>1, FlattenIs
<1>7. PICK b \in Nat, h \in Nat, n \in Nat : b = Len(written.before) /\ h = Len(MyHeader) /\ n = Len(t)
  <2>1. written.before \in Seq(Letter)
    BY DEF WrittenOK
  <2>. QED
    BY <2>1, HeaderIs
<1>8. Len(text) = h + n /\ \A i \in 1..n : text[h + i] = t[i]
  BY <1>6, <1>7, TextIs
<1>9. ASSUME NEW i \in b + 1..h + n PROVE text[i] # "\r"
  <2>1. CASE i > h
    <3>1. i - h \in 1..n /\ h + (i - h) = i
      BY <2>1
    <3>2. t[i - h] \in S
      BY <1>7, <3>1
    <3>. QED
      BY <1>1, <1>8, <3>1, <3>2
  <2>2. CASE i <= h
    <3>1. written.named
      BY <1>7, <2>2, HeaderIs
    <3>2. h = b + 2 /\ MyHeader[b + 1] = Prog /\ MyHeader[b + 2] = "\n"
      BY <1>7, <3>1, HeaderIs
    <3>3. Prog # "\r"
      BY TextAssumption DEF IsSpace
    <3>4. i \in 1..h /\ i \in {b + 1, b + 2}
      BY <2>2, <3>2
    <3>5. text[i] = MyHeader[i]
      BY <1>7, <3>4, TextIs
    <3>. QED
      BY <3>2, <3>3, <3>4, <3>5
  <2>. QED
    BY <2>1, <2>2
<1>. QED
  BY <1>7, <1>8, <1>9

(* Which line, if any, stands behind the k-th flag's place.                *)
LEMMA NextPlace ==
  ASSUME WrittenOK, Good, NEW k \in 0..Len(Name)
  PROVE  \/ /\ Place(k) = Len(text)
            /\ \A i \in k + 1..Len(Name) : Name[i] \notin written.names
         \/ \E j \in k + 1..Len(Name) :
               /\ Name[j] \in written.names /\ Place(j - 1) = Place(k)
               /\ \A i \in k + 1..j - 1 : Name[i] \notin written.names
<1>1. PICK N \in Nat : N = Len(Name)
  BY NameLength
<1>2. /\ \A i, j \in 0..N : i <= j => Place(i) <= Place(j)
      /\ \A i \in 0..N : Place(i) \in Nat
      /\ Place(N) = Len(text)
  <2>1. \A i \in 0..N : Place(i) \in 0..Len(text)
    BY <1>1, PlacesAre
  <2>2. Len(text) \in Nat
    BY TextIs
  <2>. QED
    BY <1>1, <2>1, <2>2, PlacesAre
<1>3. PICK T \in SUBSET (0..N) : T = {i \in 0..N : Place(i) = Place(k)}
  OBVIOUS
<1>4. k \in T /\ k \in 0..N
  BY <1>1, <1>3
<1>5. PICK g \in T : \A i \in T : g >= i
  BY <1>3, <1>4, GreatestMember
<1>6. g \in k..N /\ Place(g) = Place(k)
  BY <1>3, <1>4, <1>5
<1>7. ASSUME NEW i \in k + 1..g PROVE Name[i] \notin written.names
  <2>1. i \in 1..N /\ i - 1 \in 0..N /\ i \in 0..N /\ k <= i - 1 /\ i <= g /\ g \in 0..N
    BY <1>4, <1>6
  <2>2. Place(k) <= Place(i - 1) /\ Place(i) <= Place(g)
    BY <1>2, <1>4, <2>1
  <2>3. Place(i) = Place(i - 1) + Len(MyLines[i])
    BY <1>1, <2>1, PlaceNext
  <2>4. ASSUME Name[i] \in written.names PROVE FALSE
    <3>1. PICK w \in Seq(Letter) : IsLine(MyLines[i], Name[i], w)
      BY <1>1, <2>1, <2>4, LineWritten
    <3>2. PICK a \in Nat : a = Len(w)
      OBVIOUS
    <3>3. PICK l \in Nat : l = Len(MyLines[i]) /\ l = a + 5
      <4>1. Len(MyLines[i]) = a + 5
        BY <3>1, <3>2 DEF IsLine
      <4>. QED
        BY <4>1
    <3>4. PICK x \in Nat, y \in Nat, z \in Nat :
             x = Place(k) /\ y = Place(i - 1) /\ z = Place(i)
      BY <1>2, <1>4, <2>1
    <3>5. x <= y /\ z <= x /\ z = y + l
      BY <1>6, <2>2, <2>3, <3>3, <3>4
    <3>. QED
      BY <3>3, <3>5
  <2>. QED
    BY <2>4
<1>8. CASE g = N
  BY <1>1, <1>2, <1>6, <1>7, <1>8
<1>9. CASE g # N
  <2>1. PICK j \in k + 1..N : j = g + 1
    BY <1>4, <1>6, <1>9
  <2>2. j - 1 = g /\ j \in 1..N /\ j \in 0..N /\ j > g
    BY <1>4, <1>6, <2>1
  <2>3. Name[j] \in written.names
    <3>1. SUFFICES ASSUME Name[j] \notin written.names PROVE FALSE
      OBVIOUS
    <3>2. Place(j) = Place(g)
      BY <1>1, <2>2, <3>1, PlaceNext
    <3>3. j \in T
      BY <1>3, <1>6, <2>2, <3>2
    <3>. QED
      BY <1>4, <1>5, <1>6, <2>2, <3>3
  <2>4. Place(j - 1) = Place(k)
    BY <1>6, <2>2
  <2>5. \A i \in k + 1..j - 1 : Name[i] \notin written.names
    BY <1>7, <2>2
  <2>. QED
    BY <1>1, <2>1, <2>3, <2>4, <2>5
<1>. QED
  BY <1>8, <1>9

-----------------------------------------------------------------------------
(* The frames while a line is read.                                        *)

LEMMA OneFrame ==
  ASSUME frames \in Seq(AFrame), Len(frames) = 1, NEW c, c = Contents, NEW r, NEW i
  PROVE  /\ frames # <<>> /\ Last(frames) = frames[1]
         /\ Advance(r, i) = IF LineEnd(c) > Len(c) THEN <<>>
                            ELSE <<[kind |-> "lines", rest |-> Without(c, LineEnd(c)), relevant |-> r,
                                    inSection |-> i]>>
<1>1. frames # <<>>
  OBVIOUS
<1>2. Last(frames) = frames[1]
  BY DEF Last
<1>3. Front(frames) = <<>>
  <2>1. Front(frames) = SubSeq(frames, 1, 0)
    BY DEF Front
  <2>2. 0 \in 0..Len(frames)
    OBVIOUS
  <2>3. SubSeq(frames, 1, 0) \in Seq(AFrame) /\ Len(SubSeq(frames, 1, 0)) = 0
    BY <2>2, FrontOf
  <2>. QED
    BY <2>1, <2>3, EmptyIs
<1>4. \A x : Append(<<>>, x) = <<x>>
  OBVIOUS
<1>. QED
  BY <1>1, <1>2, <1>3, <1>4, Zenon DEF Advance

(* A text is interrupted by what is put on top of it, and is still there.  *)
LEMMA StillBelow ==
  ASSUME NEW fs \in Seq(AFrame), fs # <<>>, NEW gs, Pushed(fs, gs)
  PROVE  gs # <<>> /\ gs[1] = fs[1]
<1>1. Len(fs) \in Nat /\ Len(fs) # 0
  OBVIOUS
<1>2. ASSUME NEW x \in AFrame PROVE Append(fs, x) # <<>> /\ Append(fs, x)[1] = fs[1]
  <2>1. Append(fs, x) \in Seq(AFrame) /\ Len(Append(fs, x)) = Len(fs) + 1
    OBVIOUS
  <2>. QED
    BY <1>1, <2>1
<1>. QED
  BY <1>2 DEF Pushed

LEMMA BottomFrame ==
  ASSUME frames \in Seq(AFrame), Len(frames) > 1
  PROVE  /\ Front(frames) \in Seq(AFrame) /\ Front(frames) # <<>>
         /\ Front(frames)[1] = frames[1]
<1>1. PICK m \in Nat : m = Len(frames) /\ m > 1
  OBVIOUS
<1>2. PICK front \in Seq(AFrame) : front = Front(frames)
  BY <1>1, TopFrame
<1>3. Len(front) = m - 1 /\ front[1] = frames[1]
  <2>1. m - 1 \in 0..m /\ 1 \in 1..m - 1
    BY <1>1
  <2>2. front = SubSeq(frames, 1, m - 1)
    BY <1>1, <1>2 DEF Front
  <2>. QED
    BY <1>1, <2>1, <2>2, FrontOf
<1>4. front # <<>>
  BY <1>1, <1>3
<1>. QED
  BY <1>2, <1>3, <1>4

LEMMA AdvanceAbove ==
  ASSUME frames \in Seq(AFrame), Len(frames) > 1, NEW r \in BOOLEAN, NEW i \in BOOLEAN
  PROVE  /\ Advance(r, i) \in Seq(AFrame)
         /\ Advance(r, i) # <<>> /\ Advance(r, i)[1] = frames[1]
<1>1. frames # <<>>
  OBVIOUS
<1>2. PICK c \in Seq(Letter) : c = Contents
  BY <1>1, ContentsType
<1>3. PICK e \in 1..Len(c) + 1 : e = LineEnd(c)
  BY LineEndIs
<1>4. Pushed(Front(frames), Advance(r, i))
  <2>1. CASE e > Len(c)
    BY <1>2, <1>3, <2>1 DEF Advance, Pushed
  <2>2. CASE ~(e > Len(c))
    <3>1. e \in 0..Len(c)
      BY <2>2
    <3>2. [kind |-> "lines", rest |-> Without(c, e), relevant |-> r, inSection |-> i] \in AFrame
      BY <3>1, WithoutOf DEF AFrame
    <3>. QED
      BY <1>2, <1>3, <2>2, <3>2 DEF Advance, Pushed
  <2>. QED
    BY <2>1, <2>2
<1>. QED
  BY <1>1, <1>4, AdvanceType, BottomFrame, StillBelow

LEMMA EntryAbove ==
  ASSUME frames \in Seq(AFrame), Len(frames) > 1
  PROVE  /\ NextEntry \in Seq(AFrame)
         /\ NextEntry # <<>> /\ NextEntry[1] = frames[1]
<1>1. frames # <<>>
  OBVIOUS
<1>2. NextEntry \in Seq(AFrame) /\ Pushed(Front(frames), NextEntry)
  BY <1>1, NextEntryType DEF Pushed
<1>. QED
  BY <1>2, BottomFrame, StillBelow

(* Whatever is read on top of it, the text's frame stays as it is.         *)
LEMMA NestedStep ==
  ASSUME TypeOK, Len(frames) > 1,
         \/ ReadNothing \/ ReadFilenames \/ IgnoreFlagLine \/ ReadFlagLine
         \/ ListEnds \/ ReadFile \/ ReadVariable
  PROVE  frames' # <<>> /\ frames'[1] = frames[1]
<1>1. frames \in Seq(AFrame) /\ frames # <<>>
  BY DEF TypeOK, AFrame
<1>2. Last(frames).relevant \in BOOLEAN /\ Last(frames).inSection \in BOOLEAN
  BY <1>1, TopFrame
<1>3. CASE ReadNothing
  BY <1>1, <1>2, <1>3, AdvanceAbove DEF ReadNothing
<1>4. CASE ReadFilenames
  BY <1>1, <1>2, <1>4, AdvanceAbove DEF ReadFilenames, NamesUs
<1>5. CASE IgnoreFlagLine
  BY <1>1, <1>5, AdvanceAbove DEF IgnoreFlagLine
<1>6. CASE ReadFlagLine
  BY <1>1, <1>6, AdvanceAbove, LineReads, StillBelow
<1>7. CASE ListEnds
  BY <1>1, <1>7, BottomFrame DEF ListEnds
<1>8. CASE ReadFile
  BY <1>1, <1>8, EntryAbove, FileReads, StillBelow
<1>9. CASE ReadVariable
  BY <1>1, <1>9, EntryAbove, VariableReads, StillBelow
<1>. QED
  BY <1>3, <1>4, <1>5, <1>6, <1>7, <1>8, <1>9

-----------------------------------------------------------------------------
(* How far the text has been read: to a line that stood in the file, to    *)
(* one of a flag's places, or to the end.  Lists may interrupt it.         *)

InBefore(fs) ==
  /\ written.named /\ fs # <<>> /\ fs[1].kind = "lines"
  /\ \E q \in 0..Len(written.before) : fs[1].rest = Without(text, q)
  /\ written.before = <<>> => Len(fs) = 1

Restored(k, values) ==
  \A i \in 1..k : Name[i] \in written.names /\ ~Exposed(i) =>
                     values[Name[i]] = written.flags[Name[i]]

AtPlace(fs, k) ==
  /\ fs # <<>>
  /\ \E i \in BOOLEAN : fs[1] = [kind |-> "lines", rest |-> Without(text, Place(k)),
                                 relevant |-> TRUE, inSection |-> i]

Among(fs, values) ==
  \E k \in 0..Len(Name) : /\ AtPlace(fs, k) /\ Restored(k, values)
                          /\ Len(fs) = 1 \/ (k # 0 /\ ReadAgain(Name[k]))

AtEnd(fs, values) == fs = <<>> /\ Restored(Len(Name), values)

Untouched(values) == \A n \in Names \ written.names : values[n] = backup[n]

Progress(fs, values, refused) ==
  /\ InBefore(fs) \/ Among(fs, values) \/ AtEnd(fs, values)
  /\ written.before = <<>> /\ ~Exposed(1) => refused = {} /\ Untouched(values)

(* There is more than one frame, or there is not.                          *)
LEMMA MoreThanOne ==
  ASSUME NEW length \in Nat \ {0}
  PROVE  length > 1 <=> length # 1
OBVIOUS

(* While a list interrupts it, nothing else is said of the flags.          *)
LEMMA Interrupted ==
  ASSUME TypeOK, Progress(frames, flags, errors), Len(frames) > 1, NEW fs, fs # <<>>,
         fs[1] = frames[1], NEW values, NEW refused
  PROVE  Progress(fs, values, refused)
<1>0. frames \in Seq(AFrame)
  BY DEF TypeOK, AFrame
<1>1. frames # <<>>
  BY <1>0
<1>2. Len(frames) # 1
  <2>1. Len(frames) \in Nat \ {0}
    BY <1>0, <1>1
  <2>. QED
    BY <2>1, MoreThanOne
<1>3. CASE InBefore(frames)
  <2>1. written.before # <<>>
    BY <1>2, <1>3 DEF InBefore
  <2>2. InBefore(fs)
    BY <1>3, <2>1 DEF InBefore
  <2>. QED
    BY <2>1, <2>2 DEF Progress
<1>4. CASE Among(frames, flags)
  <2>1. PICK k \in 0..Len(Name) : AtPlace(frames, k) /\ k # 0 /\ ReadAgain(Name[k])
    BY <1>2, <1>4 DEF Among
  <2>2. Len(Name) \in Nat
    BY NameLength
  <2>3. ASSUME NEW i \in 1..k PROVE Exposed(i)
    <3>1. k \in i..Len(Name)
      BY <2>2
    <3>. QED
      BY <2>1, <3>1 DEF Exposed
  <2>4. Exposed(1)
    <3>1. 1 \in 1..k
      BY <2>1, <2>2
    <3>. QED
      BY <2>3, <3>1
  <2>5. Restored(k, values)
    BY <2>3 DEF Restored
  <2>6. Among(fs, values)
    BY <2>1, <2>5 DEF Among, AtPlace
  <2>. QED
    BY <2>4, <2>6 DEF Progress
<1>. QED
  BY <1>1, <1>3, <1>4 DEF Progress, AtEnd

(* Lists are read on top of the text only.                                 *)
LEMMA ListsAbove ==
  ASSUME TypeOK, Progress(frames, flags, errors), frames # <<>>,
         Last(frames).kind \in Recursive
  PROVE  Len(frames) > 1
<1>1. frames \in Seq(AFrame)
  BY DEF TypeOK, AFrame
<1>2. frames[1].kind = "lines"
  <2>1. CASE InBefore(frames)
    BY <2>1 DEF InBefore
  <2>2. CASE Among(frames, flags)
    BY <2>2 DEF Among, AtPlace
  <2>. QED
    BY <2>1, <2>2 DEF Progress, AtEnd
<1>3. Len(frames) = 1 => Last(frames) = frames[1]
  BY DEF Last
<1>4. "lines" \notin Recursive
  BY DEF Recursive
<1>5. Len(frames) # 1
  BY <1>2, <1>3, <1>4
<1>6. Len(frames) \in Nat \ {0}
  BY <1>1
<1>. QED
  BY <1>5, <1>6, MoreThanOne

(* A line of the file ends within it, or the header is read.               *)
LEMMA BeforeContents ==
  ASSUME WrittenOK, Good, written.named, NEW q \in 0..Len(written.before),
         NEW s, s = Without(text, q), NEW c, c = Without(s, Lead(s, IsSpace))
  PROVE  LET b == Len(written.before)
             e == LineEnd(c)
         IN  /\ c \in Seq(Letter) /\ e \in 1..Len(c)
             /\ \/ \E p \in 0..b : Without(c, e) = Without(text, p) /\ written.before # <<>>
                \/ SubSeq(c, 1, e - 1) = <<Prog>> /\ Without(c, e) = Without(text, Place(0))
<1>1. PICK b \in Nat, h \in Nat, n \in Nat, t \in Seq(Letter) :
         b = Len(written.before) /\ h = Len(MyHeader) /\ t = text /\ n = Len(t)
  <2>1. written.before \in Seq(Letter)
    BY DEF WrittenOK
  <2>. QED
    BY <2>1, HeaderIs, TextIs
<1>2. /\ h = b + 2 /\ h <= n /\ \A i \in 1..h : t[i] = MyHeader[i]
      /\ MyHeader[b + 1] = Prog /\ MyHeader[b + 2] = "\n"
      /\ \A i \in 1..b : MyHeader[i] = written.before[i]
  <2>1. FlattenSeq(MyLines) \in Seq(Letter) /\ n = h + Len(FlattenSeq(MyLines))
    BY <1>1, TextIs
  <2>2. h <= n
    BY <2>1
  <2>. QED
    BY <1>1, <2>2, HeaderIs, TextIs
<1>3. t[b + 1] = Prog /\ t[b + 2] = "\n" /\ \A i \in 1..b : t[i] = written.before[i]
  BY <1>2
<1>4. q \in 0..b /\ q \in 0..n
  BY <1>1, <1>2
<1>5. s \in Seq(Letter) /\ Len(s) = n - q /\ \A i \in 1..n - q : s[i] = t[i + q]
  BY <1>1, <1>4, WithoutOf
<1>6. PICK l \in 0..n - q : l = Lead(s, IsSpace) /\ \A i \in 1..l : s[i] \in IsSpace
  <2>1. PICK l : l = Lead(s, IsSpace)
    OBVIOUS
  <2>2. l \in 0..Len(s) /\ \A i \in 1..l : s[i] \in IsSpace
    BY <1>5, <2>1, LeadOf
  <2>. QED
    BY <1>5, <2>1, <2>2
<1>7. q + l \in 0..b
  <2>1. SUFFICES ASSUME q + l > b PROVE FALSE
    BY <1>4
  <2>2. (b - q) + 1 \in 1..l /\ (b - q) + 1 \in 1..n - q /\ ((b - q) + 1) + q = b + 1
    BY <1>2, <1>4, <2>1
  <2>3. s[(b - q) + 1] = Prog
    BY <1>3, <1>5, <2>2
  <2>. QED
    BY <1>6, <2>2, <2>3, TextAssumption
<1>8. PICK p \in 0..b : p = q + l
  BY <1>7
<1>9. c \in Seq(Letter) /\ c = Without(t, p)
  <2>1. l \in 0..Len(t) - q
    BY <1>1, <1>6
  <2>2. q \in 0..Len(t)
    BY <1>1, <1>4
  <2>3. Without(Without(t, q), l) = Without(t, q + l)
    BY <2>1, <2>2, WithoutTwice
  <2>4. p \in 0..Len(t)
    BY <1>1, <1>2
  <2>. QED
    BY <1>1, <1>6, <1>8, <2>3, <2>4, WithoutOf
<1>10. Len(c) = n - p /\ \A i \in 1..n - p : c[i] = t[i + p]
  <2>1. p \in 0..Len(t)
    BY <1>1, <1>2
  <2>. QED
    BY <1>1, <1>9, <2>1, WithoutOf
<1>11. \A i \in b + 1..n : t[i] # "\r"
  BY <1>1, NoReturns
<1>12. PICK e : e = LineEnd(c)
  OBVIOUS
<1>13. CASE p < b
  <2>1. b - p \in 1..n - p /\ (b - p) + p = b /\ b \in 1..b /\ b > 0
    BY <1>2, <1>13
  <2>2. written.before # <<>> /\ written.before[b] = "\n"
    <3>1. written.before # <<>>
      BY <1>1, <2>1
    <3>. QED
      BY <1>1, <3>1, HeaderIs
  <2>3. c[b - p] = "\n"
    BY <1>3, <1>10, <2>1, <2>2
  <2>4. ASSUME NEW i \in (b - p) + 1..n - p PROVE c[i] # "\r"
    <3>1. i \in 1..n - p /\ i + p \in b + 1..n
      BY <2>1
    <3>. QED
      BY <1>10, <1>11, <3>1
  <2>5. e \in 1..b - p
    <3>1. b - p \in 1..Len(c) /\ \A i \in (b - p) + 1..Len(c) : c[i] # "\r"
      BY <1>10, <2>1, <2>4
    <3>. QED
      BY <1>9, <1>12, <2>3, <3>1, LineEndWithin
  <2>6. e \in 1..Len(c) /\ p + e \in 0..b /\ e \in 0..Len(t) - p /\ p \in 0..Len(t)
    BY <1>1, <1>2, <1>10, <2>1, <2>5
  <2>7. Without(c, e) = Without(text, p + e)
    BY <1>1, <1>9, <2>6, WithoutTwice
  <2>. QED
    BY <1>1, <1>9, <1>12, <2>2, <2>6, <2>7
<1>14. CASE p = b
  <2>1. 1 \in 1..n - p /\ 2 \in 1..n - p /\ 1 + p = b + 1 /\ 2 + p = b + 2
    BY <1>2, <1>14
  <2>2. c[1] = Prog /\ c[2] = "\n"
    BY <1>3, <1>10, <2>1
  <2>3. ASSUME NEW i \in 1..n - p PROVE c[i] # "\r"
    <3>1. i + p \in b + 1..n
      BY <1>14
    <3>. QED
      BY <1>10, <1>11, <3>1
  <2>4. Prog # "\n"
    BY TextAssumption DEF IsSpace
  <2>5. e = 2
    <3>1. 2 \in 1..Len(c) /\ \A i \in 1..Len(c) : c[i] # "\r"
      BY <1>10, <2>1, <2>3
    <3>2. \A i \in 1..2 - 1 : c[i] # "\n"
      BY <2>2, <2>4
    <3>. QED
      BY <1>9, <1>12, <2>2, <3>1, <3>2, LineEndAt
  <2>6. SubSeq(c, 1, e - 1) = <<Prog>>
    <3>1. 1 \in 0..Len(c) /\ e - 1 = 1
      BY <1>10, <2>1, <2>5
    <3>2. PICK z : z = SubSeq(c, 1, 1)
      OBVIOUS
    <3>3. z \in Seq(Letter) /\ Len(z) = 1 /\ \A i \in 1..1 : z[i] = c[i]
      BY <1>9, <3>1, <3>2, FrontOf
    <3>4. PICK y \in Seq(Letter) : y = <<Prog>>
      <4>1. Prog \in Letter
        BY FlagsIntoStringAssumption
      <4>2. <<Prog>> \in Seq(Letter)
        BY <4>1
      <4>. QED
        BY <4>2
    <3>5. Len(z) = Len(y) /\ \A i \in 1..Len(z) : z[i] = y[i]
      BY <2>2, <3>3, <3>4
    <3>6. z = y
      BY <3>3, <3>5, SameElements
    <3>. QED
      BY <3>1, <3>2, <3>4, <3>6
  <2>7. e \in 1..Len(c) /\ p + e = h /\ e \in 0..Len(t) - p /\ p \in 0..Len(t)
    BY <1>1, <1>2, <1>10, <1>14, <2>1, <2>5
  <2>8. Without(c, e) = Without(text, Place(0))
    <3>1. Place(0) = h
      BY <1>1, PlacesAre
    <3>2. Without(c, e) = Without(text, p + e)
      BY <1>1, <1>9, <2>7, WithoutTwice
    <3>. QED
      BY <2>7, <3>1, <3>2
  <2>. QED
    BY <1>9, <1>12, <2>6, <2>7, <2>8
<1>. QED
  BY <1>13, <1>14

LEMMA BeforeStep ==
  ASSUME TypeOK, WrittenOK, Good, InBefore(frames)
  PROVE  \/ /\ written.before # <<>>
            /\ \A r, i \in BOOLEAN : InBefore(Advance(r, i))
         \/ /\ CurrentLine = <<Prog>> /\ frames # <<>>
            /\ \A r, i \in BOOLEAN :
                  Advance(r, i) = <<[kind |-> "lines", rest |-> Without(text, Place(0)), relevant |-> r,
                                     inSection |-> i]>>
<1>1. frames \in Seq(AFrame) /\ frames # <<>> /\ written.named
  BY DEF TypeOK, AFrame, InBefore
<1>2. PICK q \in 0..Len(written.before) : frames[1].rest = Without(text, q)
  BY DEF InBefore
<1>3. PICK m \in Nat : m = Len(frames) /\ m # 0
  BY <1>1
<1>4. CASE m > 1
  <2>1. written.before # <<>>
    BY <1>3, <1>4 DEF InBefore
  <2>2. ASSUME NEW r \in BOOLEAN, NEW i \in BOOLEAN PROVE InBefore(Advance(r, i))
    <3>1. Advance(r, i) # <<>> /\ Advance(r, i)[1] = frames[1]
      BY <1>1, <1>3, <1>4, AdvanceAbove
    <3>. QED
      BY <1>1, <1>2, <2>1, <3>1 DEF InBefore
  <2>. QED
    BY <2>1, <2>2
<1>5. CASE ~(m > 1)
  <2>1. Len(frames) = 1
    BY <1>3, <1>5
  <2>2. PICK s, c, e : s = Without(text, q) /\ c = Without(s, Lead(s, IsSpace)) /\ e = LineEnd(c)
    OBVIOUS
  <2>3. Last(frames) = frames[1]
    BY <1>1, <2>1, OneFrame
  <2>4. Contents = c
    BY <1>2, <2>2, <2>3 DEF Contents
  <2>5. /\ c \in Seq(Letter) /\ e \in 1..Len(c)
        /\ \/ \E p \in 0..Len(written.before) :
                 Without(c, e) = Without(text, p) /\ written.before # <<>>
           \/ SubSeq(c, 1, e - 1) = <<Prog>> /\ Without(c, e) = Without(text, Place(0))
    BY <1>1, <2>2, BeforeContents
  <2>6. ASSUME NEW r, NEW i
        PROVE  Advance(r, i) = <<[kind |-> "lines", rest |-> Without(c, e), relevant |-> r, inSection |-> i]>>
    <3>1. ~(e > Len(c))
      BY <2>5
    <3>. QED
      BY <1>1, <2>1, <2>2, <2>4, <3>1, OneFrame
  <2>7. ASSUME NEW p \in 0..Len(written.before), Without(c, e) = Without(text, p),
               written.before # <<>>, NEW r, NEW i
        PROVE  InBefore(Advance(r, i))
    <3>1. PICK x : x = [kind |-> "lines", rest |-> Without(c, e), relevant |-> r, inSection |-> i]
      OBVIOUS
    <3>2. x.rest = Without(text, p) /\ x.kind = "lines"
      BY <2>7, <3>1
    <3>3. Advance(r, i) = <<x>>
      BY <2>6, <3>1
    <3>4. <<x>> # <<>> /\ <<x>>[1] = x
      OBVIOUS
    <3>. QED
      BY <1>1, <2>7, <3>2, <3>3, <3>4 DEF InBefore
  <2>8. CurrentLine = SubSeq(c, 1, e - 1)
    BY <2>2, <2>4 DEF CurrentLine
  <2>9. CASE \E p \in 0..Len(written.before) :
                Without(c, e) = Without(text, p) /\ written.before # <<>>
    BY <2>7, <2>9
  <2>10. CASE SubSeq(c, 1, e - 1) = <<Prog>> /\ Without(c, e) = Without(text, Place(0))
    BY <1>1, <2>6, <2>8, <2>10
  <2>. QED
    BY <2>5, <2>9, <2>10
<1>. QED
  BY <1>4, <1>5

(* At a place stands the line of the next flag, or nothing.                *)
LEMMA AmongStep ==
  ASSUME TypeOK, WrittenOK, Good, Among(frames, flags), Len(frames) = 1
  PROVE  \/ /\ CurrentLine = <<>> /\ Restored(Len(Name), flags)
            /\ \A r, i \in BOOLEAN : Advance(r, i) = <<>>
         \/ \E j \in 1..Len(Name) :
               /\ Name[j] \in written.names /\ Restored(j - 1, flags)
               /\ LineStarts("-") /\ Last(frames).relevant
               /\ SplitArgumentLocked(Argument) =
                     {[flag |-> Name[j],
                       value |-> ValueToString(TypeOf[Name[j]], written.flags[Name[j]])]}
               /\ AtPlace(Advance(TRUE, FALSE), j) /\ Len(Advance(TRUE, FALSE)) = 1
<1>1. PICK N \in Nat : N = Len(Name)
  BY NameLength
<1>2. PICK k \in 0..N : AtPlace(frames, k) /\ Restored(k, flags)
  BY <1>1 DEF Among
<1>3. PICK t \in Seq(Letter), n \in Nat : t = text /\ n = Len(t)
  BY TextIs
<1>4. PICK p \in 0..n : p = Place(k)
  BY <1>1, <1>3, PlacesAre
<1>5. PICK s : s = Without(t, p)
  OBVIOUS
<1>6. s \in Seq(Letter) /\ Len(s) = n - p /\ \A i \in 1..n - p : s[i] = t[i + p]
  BY <1>3, <1>4, <1>5, WithoutOf
<1>7. PICK b \in BOOLEAN : frames[1] = [kind |-> "lines", rest |-> s, relevant |-> TRUE,
                                         inSection |-> b]
  BY <1>2, <1>3, <1>4, <1>5 DEF AtPlace
<1>8. frames \in Seq(AFrame) /\ Len(frames) = 1
  BY DEF TypeOK, AFrame
<1>9. Last(frames).rest = s /\ Last(frames).relevant
  <2>1. Last(frames) = frames[1]
    BY <1>8, OneFrame
  <2>2. frames[1].rest = s /\ frames[1].relevant = TRUE
    BY <1>7
  <2>. QED
    BY <2>1, <2>2, Zenon
<1>10. \/ p = n /\ \A i \in k + 1..N : Name[i] \notin written.names
       \/ \E j \in k + 1..N :
             /\ Name[j] \in written.names /\ Place(j - 1) = p
             /\ \A i \in k + 1..j - 1 : Name[i] \notin written.names
  BY <1>1, <1>2, <1>3, <1>4, NextPlace
<1>11. CASE p = n /\ \A i \in k + 1..N : Name[i] \notin written.names
  <2>1. Len(s) = 0
    BY <1>6, <1>11
  <2>2. Lead(s, IsSpace) = 0
    <3>1. Lead(s, IsSpace) \in 0..Len(s)
      BY <1>6, LeadOf
    <3>. QED
      BY <2>1, <3>1
  <2>3. Contents = s
    BY <1>6, <1>9, <2>2, WithoutNone DEF Contents
  <2>4. LineEnd(s) = 1
    <3>1. LineEnd(s) \in 1..Len(s) + 1
      BY <1>6, LineEndIs
    <3>. QED
      BY <2>1, <3>1
  <2>5. CurrentLine = <<>>
    <3>1. 0 \in 0..Len(s) /\ 1 - 1 = 0
      BY <2>1
    <3>2. SubSeq(s, 1, 0) \in Seq(Letter) /\ Len(SubSeq(s, 1, 0)) = 0
      BY <1>6, <3>1, FrontOf
    <3>3. SubSeq(s, 1, 0) = <<>>
      BY <3>2, EmptyIs
    <3>. QED
      BY <2>3, <2>4, <3>1, <3>3 DEF CurrentLine
  <2>6. \A r, i \in BOOLEAN : Advance(r, i) = <<>>
    <3>1. LineEnd(s) > Len(s)
      BY <2>1, <2>4
    <3>. QED
      BY <1>8, <2>3, <3>1, OneFrame
  <2>7. Restored(N, flags)
    <3>1. \A i \in 1..N : i \in 1..k \/ i \in k + 1..N
      OBVIOUS
    <3>. QED
      BY <1>2, <1>11, <3>1 DEF Restored
  <2>. QED
    BY <1>1, <2>5, <2>6, <2>7
<1>12. ASSUME NEW j \in k + 1..N, Name[j] \in written.names, Place(j - 1) = p,
              \A i \in k + 1..j - 1 : Name[i] \notin written.names
       PROVE  /\ Restored(j - 1, flags) /\ LineStarts("-") /\ Last(frames).relevant
              /\ SplitArgumentLocked(Argument) =
                    {[flag |-> Name[j],
                      value |-> ValueToString(TypeOf[Name[j]], written.flags[Name[j]])]}
              /\ AtPlace(Advance(TRUE, FALSE), j) /\ Len(Advance(TRUE, FALSE)) = 1
  <2>1. j \in 1..N /\ j \in 0..N
    OBVIOUS
  <2>2. PICK w : w = ValueToString(TypeOf[Name[j]], written.flags[Name[j]])
    OBVIOUS
  <2>3. IsLine(MyLines[j], Name[j], w) /\ w \in Seq(Letter) /\ Breakless(w)
    BY <1>1, <1>12, <2>1, <2>2, LineWritten
  <2>4. PICK l \in Seq(Letter) : l = MyLines[j]
    BY <2>3 DEF IsLine
  <2>5. PICK z \in Nat : z = Len(l)
    OBVIOUS
  <2>6. Place(j) = p + z /\ \A i \in 1..z : t[p + i] = l[i]
    BY <1>1, <1>3, <1>12, <2>1, <2>4, <2>5, PlaceNext
  <2>7. p + z \in 0..n /\ z <= n - p
    <3>1. Place(j) \in 0..n
      BY <1>1, <1>3, <2>1, PlacesAre
    <3>. QED
      BY <2>6, <3>1
  <2>8. \A i \in 1..z : s[i] = l[i]
    <3>1. TAKE i \in 1..z
    <3>2. i \in 1..n - p /\ i + p = p + i
      BY <2>7
    <3>. QED
      BY <1>6, <2>6, <3>2
  <2>9. \A i \in 1..n - p : s[i] # "\r"
    <3>1. TAKE i \in 1..n - p
    <3>2. PICK d \in Nat : d = Len(written.before)
      BY DEF WrittenOK
    <3>3. d <= p
      <4>1. PICK h \in Nat : h = Len(MyHeader)
        BY HeaderIs
      <4>2. Place(0) = h /\ Place(0) <= Place(k)
        BY <1>1, <4>1, PlacesAre
      <4>3. d <= h
        <5>1. CASE written.named
          <6>1. h = d + 2
            BY <3>2, <4>1, <5>1, HeaderIs
          <6>. QED
            BY <6>1
        <5>2. CASE ~written.named
          <6>1. written.before = <<>>
            BY <5>2, HeaderIs
          <6>2. d = 0
            BY <3>2, <6>1
          <6>. QED
            BY <6>2
        <5>. QED
          BY <5>1, <5>2
      <4>. QED
        BY <1>4, <4>2, <4>3
    <3>4. i + p \in d + 1..n
      BY <3>3
    <3>5. t[i + p] # "\r"
      BY <1>3, <3>2, <3>4, NoReturns
    <3>. QED
      BY <1>6, <3>5
  <2>10. Name[j] \in Names
    BY <1>1, <2>1, NameLength
  <2>11. PICK line, a : line = SubSeq(s, 1, z - 1) /\ a = Without(line, 2)
    OBVIOUS
  <2>12. /\ Lead(s, IsSpace) = 0 /\ LineEnd(s) = z /\ z \in 1..Len(s)
         /\ line # <<>> /\ line[1] = "-" /\ Len(line) > 1 /\ line[2] = "-"
         /\ SplitArgumentLocked(a) = {[flag |-> Name[j], value |-> w]}
    <3>1. z <= Len(s) /\ \A i \in 1..Len(s) : s[i] # "\r"
      BY <1>6, <2>7, <2>9
    <3>2. ReadAs(s, l, Name[j], w)
      BY <1>6, <2>3, <2>4, <2>5, <2>8, <2>10, <3>1, LineInText
    <3>. QED
      BY <2>5, <2>11, <3>2, Zenon DEF ReadAs
  <2>13. Contents = s
    BY <1>6, <1>9, <2>12, WithoutNone DEF Contents
  <2>14. CurrentLine = line
    BY <2>11, <2>12, <2>13 DEF CurrentLine
  <2>15. LineStarts("-") /\ Argument = a
    BY <2>11, <2>12, <2>14 DEF LineStarts, Argument
  <2>16. SplitArgumentLocked(Argument) = {[flag |-> Name[j], value |-> w]}
    BY <2>12, <2>15
  <2>17. AtPlace(Advance(TRUE, FALSE), j) /\ Len(Advance(TRUE, FALSE)) = 1
    <3>1. ~(LineEnd(s) > Len(s))
      BY <2>12
    <3>2. PICK x : x = [kind |-> "lines", rest |-> Without(s, LineEnd(s)), relevant |-> TRUE,
                        inSection |-> FALSE]
      OBVIOUS
    <3>4. Advance(TRUE, FALSE) = <<x>>
      BY <1>8, <2>13, <3>1, <3>2, OneFrame
    <3>3. Without(s, z) = Without(text, Place(j))
      <4>1. p \in 0..Len(t) /\ z \in 0..Len(t) - p
        BY <1>3, <2>7
      <4>. QED
        BY <1>3, <1>5, <2>6, <4>1, WithoutTwice
    <3>5. <<x>> # <<>> /\ <<x>>[1] = x /\ Len(<<x>>) = 1
      OBVIOUS
    <3>. QED
      BY <2>12, <3>2, <3>3, <3>4, <3>5 DEF AtPlace
  <2>18. Restored(j - 1, flags)
    <3>1. \A i \in 1..j - 1 : i \in 1..k \/ i \in k + 1..j - 1
      OBVIOUS
    <3>. QED
      BY <1>2, <1>12, <3>1 DEF Restored
  <2>. QED
    BY <1>9, <2>2, <2>15, <2>16, <2>17, <2>18
<1>13. ASSUME NEW j \in k + 1..N, Name[j] \in written.names, Place(j - 1) = p,
              \A i \in k + 1..j - 1 : Name[i] \notin written.names
       PROVE  j \in 1..Len(Name)
  BY <1>1
<1>. QED
  BY <1>10, <1>11, <1>12, <1>13

-----------------------------------------------------------------------------
(* What is read makes progress, line by line.                              *)

LEMMA ProgName ==
  /\ Prog # "#" /\ Prog # "-"
  /\ <<Prog>> # <<>> /\ <<Prog>>[1] = Prog
  /\ NamesUs(<<Prog>>)
<1>1. Prog # "#" /\ Prog # "-"
  BY TextAssumption
<1>2. <<Prog>> # <<>> /\ <<Prog>>[1] = Prog /\ Len(<<Prog>>) = 1
  OBVIOUS
<1>3. 1 \in 1..1
  OBVIOUS
<1>. QED
  BY <1>1, <1>2, <1>3, Zenon DEF NamesUs

LEMMA NothingProgress ==
  ASSUME TypeOK, WrittenOK, Good, Progress(frames, flags, errors), Len(frames) = 1,
         ReadNothing
  PROVE  Progress(frames', flags', errors')
<1>1. /\ frames \in Seq(AFrame) /\ frames # <<>> /\ flags' = flags /\ errors' = errors
      /\ frames' = Advance(Last(frames).relevant, Last(frames).inSection)
      /\ CurrentLine = <<>> \/ LineStarts("#")
  BY DEF TypeOK, AFrame, ReadNothing, Reading
<1>2. PICK r \in BOOLEAN, i \in BOOLEAN : frames' = Advance(r, i)
  BY <1>1, TopFrame
<1>3. ~LineStarts("-") /\ CurrentLine # <<Prog>>
  BY <1>1, ProgName DEF LineStarts
<1>4. CASE InBefore(frames)
  <2>1. InBefore(frames') /\ written.before # <<>>
    BY <1>2, <1>3, <1>4, BeforeStep
  <2>. QED
    BY <2>1 DEF Progress
<1>5. CASE Among(frames, flags)
  <2>1. frames' = <<>> /\ Restored(Len(Name), flags)
    BY <1>2, <1>3, <1>5, AmongStep
  <2>2. AtEnd(frames', flags')
    BY <1>1, <2>1 DEF AtEnd
  <2>3. written.before = <<>> /\ ~Exposed(1) => errors' = {} /\ Untouched(flags')
    BY <1>1 DEF Progress
  <2>. QED
    BY <2>2, <2>3 DEF Progress
<1>. QED
  BY <1>1, <1>4, <1>5 DEF Progress, AtEnd

LEMMA FilenamesProgress ==
  ASSUME TypeOK, WrittenOK, Good, Progress(frames, flags, errors), Len(frames) = 1,
         ReadFilenames
  PROVE  Progress(frames', flags', errors')
<1>1. /\ frames \in Seq(AFrame) /\ frames # <<>> /\ flags' = flags /\ errors' = errors
      /\ frames' = Advance((Last(frames).inSection /\ Last(frames).relevant)
                              \/ NamesUs(CurrentLine), TRUE)
      /\ CurrentLine # <<>> /\ ~LineStarts("-")
  BY DEF TypeOK, AFrame, ReadFilenames, Reading
<1>2. PICK r \in BOOLEAN : frames' = Advance(r, TRUE) /\ (NamesUs(CurrentLine) => r = TRUE)
  <2>1. PICK b \in BOOLEAN, n \in BOOLEAN :
           b = (Last(frames).inSection /\ Last(frames).relevant) /\ n = NamesUs(CurrentLine)
    BY Zenon DEF NamesUs
  <2>2. b \/ n \in BOOLEAN
    OBVIOUS
  <2>3. frames' = Advance(b \/ n, TRUE)
    BY <1>1, <2>1, Zenon
  <2>4. n => (b \/ n) = TRUE
    OBVIOUS
  <2>. QED
    BY <2>1, <2>2, <2>3, <2>4, Zenon
<1>3. written.before = <<>> /\ ~Exposed(1) => errors' = {} /\ Untouched(flags')
  BY <1>1 DEF Progress
<1>4. CASE InBefore(frames)
  <2>1. CASE written.before # <<>> /\ \A a, b \in BOOLEAN : InBefore(Advance(a, b))
    <3>1. InBefore(frames')
      BY <1>2, <2>1
    <3>. QED
      BY <1>3, <3>1 DEF Progress
  <2>2. CASE /\ CurrentLine = <<Prog>>
             /\ \A a, b \in BOOLEAN :
                   Advance(a, b) = <<[kind |-> "lines", rest |-> Without(text, Place(0)), relevant |-> a,
                                      inSection |-> b]>>
    <3>1. r = TRUE
      BY <1>2, <2>2, ProgName
    <3>2. AtPlace(frames', 0) /\ Len(frames') = 1
      <4>1. PICK x : x = [kind |-> "lines", rest |-> Without(text, Place(0)), relevant |-> TRUE,
                          inSection |-> TRUE]
        OBVIOUS
      <4>2. frames' = <<x>>
        BY <1>2, <2>2, <3>1, <4>1
      <4>3. <<x>> # <<>> /\ <<x>>[1] = x /\ Len(<<x>>) = 1
        OBVIOUS
      <4>. QED
        BY <4>1, <4>2, <4>3 DEF AtPlace
    <3>3. Restored(0, flags') /\ 0 \in 0..Len(Name)
      BY NameLength DEF Restored
    <3>4. Among(frames', flags')
      BY <3>2, <3>3 DEF Among
    <3>. QED
      BY <1>3, <3>4 DEF Progress
  <2>. QED
    BY <1>4, <2>1, <2>2, BeforeStep
<1>5. ~Among(frames, flags)
  BY <1>1, AmongStep
<1>. QED
  BY <1>1, <1>4, <1>5 DEF Progress, AtEnd

LEMMA IgnoreProgress ==
  ASSUME TypeOK, WrittenOK, Good, Progress(frames, flags, errors), Len(frames) = 1,
         IgnoreFlagLine
  PROVE  Progress(frames', flags', errors')
<1>1. /\ frames # <<>> /\ flags' = flags /\ errors' = errors
      /\ frames' = Advance(FALSE, FALSE) /\ LineStarts("-") /\ ~Last(frames).relevant
  BY DEF IgnoreFlagLine, Reading
<1>2. CurrentLine # <<Prog>> /\ CurrentLine # <<>>
  BY <1>1, ProgName DEF LineStarts
<1>3. CASE InBefore(frames)
  <2>1. InBefore(frames') /\ written.before # <<>>
    BY <1>1, <1>2, <1>3, BeforeStep
  <2>. QED
    BY <2>1 DEF Progress
<1>4. ~Among(frames, flags)
  BY <1>1, <1>2, AmongStep, Zenon
<1>. QED
  BY <1>1, <1>3, <1>4 DEF Progress, AtEnd

(* A list is read before the rest of the text.                             *)
LEMMA ListProgress ==
  ASSUME NEW fs \in Seq(AFrame), InBefore(fs), written.before # <<>>, NEW gs, Pushed(fs, gs)
  PROVE  InBefore(gs)
<1>1. gs # <<>> /\ gs[1] = fs[1]
  BY StillBelow DEF InBefore
<1>. QED
  BY <1>1 DEF InBefore

(* The line of a flag restores it, and what it names is read next.         *)
LEMMA FlagRestored ==
  ASSUME TypeOK, WrittenOK, Good, ReadFlagLine, NEW j \in 1..Len(Name),
         Name[j] \in written.names, NEW after, after = Advance(TRUE, FALSE),
         SplitArgumentLocked(Argument) =
            {[flag |-> Name[j],
              value |-> ValueToString(TypeOf[Name[j]], written.flags[Name[j]])]}
  PROVE  /\ flags' = [flags EXCEPT ![Name[j]] = written.flags[Name[j]]] /\ errors' = errors
         /\ frames' = after \/ (Pushed(after, frames') /\ ReadAgain(Name[j]))
<1>1. PICK n \in Names : n = Name[j]
  BY NameLength
<1>2. PICK w : w = ValueToString(TypeOf[n], written.flags[n])
  OBVIOUS
<1>3. PICK parsed : parsed = ParseFrom(TypeOf[n], w)
  OBVIOUS
<1>4. w \in Seq(Letter) /\ parsed.ok /\ parsed.value = written.flags[n]
  BY <1>1, <1>2, <1>3, LineWritten
<1>5. PICK s : s = [flag |-> n, value |-> w]
  OBVIOUS
<1>6. s.flag = n /\ s.value = w
  BY <1>5, Zenon
<1>7. SplitArgumentLocked(Argument) = {s}
  BY <1>1, <1>2, <1>5
<1>8. ProcessSingleOptionLocked(s.flag, s.value, after)
  BY <1>7 DEF ReadFlagLine
<1>9. ProcessSingleOptionLocked(n, w, after)
  BY <1>6, <1>8, Zenon
<1>10. /\ flags' = [flags EXCEPT ![n] = parsed.value] /\ errors' = errors
       /\ IF n \in Recursive THEN ProcessListLocked(n, w, after)
          ELSE frames' = after
  BY <1>3, <1>4, <1>9 DEF ProcessSingleOptionLocked
<1>11. ASSUME n \in Recursive PROVE frames' = after \/ (Pushed(after, frames') /\ ReadAgain(n))
  <2>1. ProcessListLocked(n, w, after)
    BY <1>10, <1>11
  <2>2. Pushed(after, frames') /\ (w = <<>> => frames' = after)
    BY <1>4, <1>11, <2>1, ListReads
  <2>3. TypeOf[n] = "string"
    BY <1>11, FlagsIntoStringAssumption
  <2>4. w = written.flags[n]
    BY <1>2, <2>3 DEF ValueToString, Signed, Unsigned
  <2>5. w # <<>> => ReadAgain(n)
    BY <1>1, <1>11, <2>4 DEF ReadAgain
  <2>. QED
    BY <2>2, <2>5
<1>. QED
  BY <1>1, <1>4, <1>10, <1>11

LEMMA FlagLineProgress ==
  ASSUME TypeOK, WrittenOK, Good, Progress(frames, flags, errors), Len(frames) = 1,
         ReadFlagLine
  PROVE  Progress(frames', flags', errors')
<1>1. frames \in Seq(AFrame) /\ frames # <<>> /\ LineStarts("-")
  BY DEF TypeOK, AFrame, ReadFlagLine, Reading
<1>2. CurrentLine # <<Prog>> /\ CurrentLine # <<>>
  BY <1>1, ProgName DEF LineStarts
<1>3. PICK after \in Seq(AFrame) : after = Advance(TRUE, FALSE)
  BY <1>1, AdvanceType
<1>4. CASE InBefore(frames)
  <2>1. InBefore(after) /\ written.before # <<>>
    BY <1>2, <1>3, <1>4, BeforeStep
  <2>2. Pushed(after, frames')
    BY <1>3, LineReads
  <2>3. InBefore(frames')
    BY <2>1, <2>2, ListProgress
  <2>. QED
    BY <2>1, <2>3 DEF Progress
<1>5. CASE Among(frames, flags)
  <2>1. PICK j \in 1..Len(Name) :
           /\ Name[j] \in written.names /\ Restored(j - 1, flags)
           /\ SplitArgumentLocked(Argument) =
                 {[flag |-> Name[j],
                   value |-> ValueToString(TypeOf[Name[j]], written.flags[Name[j]])]}
           /\ AtPlace(after, j) /\ Len(after) = 1
    BY <1>2, <1>3, <1>5, AmongStep
  <2>2. PICK n : n = Name[j]
    OBVIOUS
  <2>3. /\ flags' = [flags EXCEPT ![n] = written.flags[n]] /\ errors' = errors
        /\ frames' = after \/ (Pushed(after, frames') /\ ReadAgain(n))
    BY <1>3, <2>1, <2>2, FlagRestored
  <2>4. /\ n \in Names /\ flags'[n] = written.flags[n]
        /\ \A m \in Names \ {n} : flags'[m] = flags[m]
    <3>1. n \in Names
      BY <2>1, <2>2, NameLength
    <3>2. flags = [m \in Names |-> flags[m]]
      BY DEF TypeOK, Typed
    <3>. QED
      BY <2>3, <3>1, <3>2
  <2>5. Restored(j, flags')
    <3>1. ASSUME NEW i \in 1..j, Name[i] \in written.names, ~Exposed(i)
          PROVE  flags'[Name[i]] = written.flags[Name[i]]
      <4>1. CASE Name[i] = n
        BY <2>4, <4>1
      <4>2. CASE Name[i] # n
        <5>1. i # j
          BY <2>2, <4>2
        <5>2. i \in 1..j - 1
          BY <5>1
        <5>3. flags[Name[i]] = written.flags[Name[i]]
          BY <2>1, <3>1, <5>2 DEF Restored
        <5>4. Name[i] \in Names
          BY <3>1 DEF WrittenOK
        <5>. QED
          BY <2>4, <4>2, <5>3, <5>4
      <4>. QED
        BY <4>1, <4>2
    <3>. QED
      BY <3>1 DEF Restored
  <2>6. Among(frames', flags')
    <3>1. j \in 0..Len(Name) /\ j # 0
      BY NameLength
    <3>2. frames' # <<>> /\ frames'[1] = after[1]
      BY <2>1, <2>3, StillBelow DEF AtPlace
    <3>3. AtPlace(frames', j)
      BY <2>1, <3>2 DEF AtPlace
    <3>4. Len(frames') = 1 \/ ReadAgain(Name[j])
      BY <2>1, <2>2, <2>3
    <3>. QED
      BY <2>5, <3>1, <3>3, <3>4 DEF Among
  <2>7. written.before = <<>> /\ ~Exposed(1) => errors' = {} /\ Untouched(flags')
    <3>1. SUFFICES ASSUME written.before = <<>>, ~Exposed(1)
                   PROVE  errors' = {} /\ Untouched(flags')
      OBVIOUS
    <3>2. errors = {} /\ Untouched(flags)
      BY <3>1 DEF Progress
    <3>3. n \in written.names
      BY <2>1, <2>2
    <3>. QED
      BY <2>3, <2>4, <3>2, <3>3 DEF Untouched
  <2>. QED
    BY <2>6, <2>7 DEF Progress
<1>. QED
  BY <1>1, <1>4, <1>5 DEF Progress, AtEnd

(* Each step of the reading: of the text, or of what interrupts it.        *)
LEMMA ReadingProgress ==
  ASSUME TypeOK, WrittenOK, Good, Progress(frames, flags, errors),
         \/ ReadNothing \/ ReadFilenames \/ IgnoreFlagLine \/ ReadFlagLine
         \/ ListEnds \/ ReadFile \/ ReadVariable
  PROVE  Progress(frames', flags', errors')
<1>1. frames \in Seq(AFrame)
  BY DEF TypeOK, AFrame
<1>2. frames # <<>>
  BY DEF ReadNothing, ReadFilenames, IgnoreFlagLine, ReadFlagLine, ListEnds, ReadFile,
         ReadVariable, Reading
<1>3. Len(frames) = 1 \/ Len(frames) > 1
  BY <1>1, <1>2
<1>4. CASE Len(frames) > 1
  BY <1>4, NestedStep, Interrupted
<1>5. CASE Len(frames) = 1
  <2>1. Last(frames).kind \notin Recursive
    BY <1>2, <1>5, ListsAbove
  <2>2. {"flagfile"} \in SUBSET Recursive /\ {"fromenv", "tryfromenv"} \in SUBSET Recursive
    BY DEF Recursive
  <2>3. ~ListEnds /\ ~ReadFile /\ ~ReadVariable
    BY <2>1, <2>2 DEF ListEnds, ReadFile, ReadVariable, Reading
  <2>. QED
    BY <1>5, <2>3, NothingProgress, FilenamesProgress, IgnoreProgress, FlagLineProgress
<1>. QED
  BY <1>3, <1>4, <1>5

-----------------------------------------------------------------------------
(* What was written stays, and where it stands.                            *)

LEMMA WrittenStays ==
  ASSUME UNCHANGED writing
  PROVE  /\ WrittenOK' <=> WrittenOK
         /\ Good' <=> Good
         /\ InBefore(frames') => InBefore(frames)'
         /\ Among(frames', flags') => Among(frames, flags)'
         /\ AtEnd(frames', flags') => AtEnd(frames, flags)'
         /\ \A i : Exposed(i)' <=> Exposed(i)
<1>1. written' = written /\ text' = text
  BY DEF writing
<1>2. MyLines' = MyLines /\ MyHeader' = MyHeader
  BY <1>1 DEF MyLines, MyHeader
<1>3. \A k : Place(k)' = Place(k)
  BY <1>2 DEF Place
<1>4. WrittenOK' <=> WrittenOK
  BY <1>1, <1>2 DEF WrittenOK
<1>5. Good' <=> Good
  BY <1>1, Zenon DEF Good, Ours
<1>6. InBefore(frames') => InBefore(frames)'
  BY <1>1 DEF InBefore
<1>9. \A i : (Exposed(i)' <=> Exposed(i)) /\ (ReadAgain(i)' <=> ReadAgain(i))
  BY <1>1 DEF Exposed, ReadAgain
<1>7. \A k : Restored(k, flags') => Restored(k, flags)'
  BY <1>1, <1>9 DEF Restored
<1>8. \A k : AtPlace(frames', k) => AtPlace(frames, k)'
  BY <1>1, <1>3 DEF AtPlace
<1>. QED
  BY <1>4, <1>5, <1>6, <1>7, <1>8, <1>9 DEF Among, AtEnd

LEMMA ProgressStays ==
  ASSUME UNCHANGED <<writing, backup>>, Progress(frames', flags', errors')
  PROVE  Progress(frames, flags, errors)'
<1>1. InBefore(frames)' \/ Among(frames, flags)' \/ AtEnd(frames, flags)'
  BY WrittenStays DEF Progress
<1>2. (written.before = <<>> /\ ~Exposed(1) => errors = {} /\ Untouched(flags))'
  BY WrittenStays DEF Progress, Untouched, writing
<1>. QED
  BY <1>1, <1>2 DEF Progress

LEMMA LinesWritten ==
  ASSUME NEW names
  PROVE  TheseCommandlineFlagsIntoString(names) = FlattenSeq(LinesOf(names, flags))
BY DEF TheseCommandlineFlagsIntoString, LinesOf, LineOf, Line

LEMMA StringWritten ==
  ASSUME TypeOK, CommandlineFlagsIntoString
  PROVE  WrittenOK'
<1>1. PICK r : r = [how |-> "string", names |-> Names, flags |-> flags,
                    named |-> FALSE, before |-> <<>>]
  OBVIOUS
<1>2. /\ r.how = "string" /\ r.names = Names /\ r.flags = flags /\ r.named = FALSE
      /\ r.before = <<>>
  BY <1>1, Zenon
<1>3. written' = r /\ text' = TheseCommandlineFlagsIntoString(Names)
  BY <1>1 DEF CommandlineFlagsIntoString
<1>4. text' = FlattenSeq(LinesOf(Names, flags))
  BY <1>3, LinesWritten
<1>5. FlattenSeq(LinesOf(Names, flags)) \in Seq(Letter) /\ Typed(flags)
  <2>1. Typed(flags)
    BY DEF TypeOK
  <2>2. TheseCommandlineFlagsIntoString(Names) \in Seq(Letter)
    BY <2>1, WrittenType
  <2>. QED
    BY <1>3, <1>4, <2>1, <2>2
<1>6. Header(<<>>, FALSE) = <<>>
  BY DEF Header
<1>7. \A t \in Seq(Letter) : <<>> \o t = t
  OBVIOUS
<1>8. text' = Header(<<>>, FALSE) \o FlattenSeq(LinesOf(Names, flags))
  BY <1>4, <1>5, <1>6, <1>7
<1>9. MyHeader' = Header(<<>>, FALSE) /\ MyLines' = LinesOf(Names, flags)
  <2>1. r.named = FALSE /\ r.before = <<>> /\ r.names = Names /\ r.flags = flags
    BY <1>2
  <2>. QED
    BY <1>3, <2>1, Zenon DEF MyHeader, MyLines
<1>10. <<>> \in Seq(Letter)
  OBVIOUS
<1>. QED
  BY <1>2, <1>3, <1>5, <1>8, <1>9, <1>10, Zenon DEF WrittenOK

LEMMA FileWritten ==
  ASSUME TypeOK, AppendFlagsIntoFile
  PROVE  WrittenOK'
<1>1. PICK N : N = Names \ {"flagfile"}
  OBVIOUS
<1>2. PICK named \in BOOLEAN :
         /\ text' = text \o (IF named THEN <<Prog, "\n">> ELSE <<>>)
                         \o TheseCommandlineFlagsIntoString(N)
         /\ written' = [how |-> "file", names |-> N, flags |-> flags, named |-> named,
                        before |-> text]
  BY <1>1 DEF AppendFlagsIntoFile
<1>3. PICK r : r = [how |-> "file", names |-> N, flags |-> flags, named |-> named,
                    before |-> text]
  OBVIOUS
<1>4. /\ r.how = "file" /\ r.names = N /\ r.flags = flags /\ r.named = named
      /\ r.before = text
  BY <1>3, Zenon
<1>5. text' = Header(text, named) \o FlattenSeq(LinesOf(N, flags))
  BY <1>2, LinesWritten DEF Header
<1>6. Typed(flags) /\ text \in Seq(Letter) /\ N \in SUBSET Names
  BY <1>1 DEF TypeOK
<1>7. MyHeader' = Header(text, named) /\ MyLines' = LinesOf(N, flags)
  BY <1>2, <1>3, <1>4, Zenon DEF MyHeader, MyLines
<1>8. written' = r
  BY <1>2, <1>3
<1>9. r.how # "string"
  BY <1>4
<1>. QED
  BY <1>1, <1>4, <1>5, <1>6, <1>7, <1>8, <1>9, Zenon DEF WrittenOK

LEMMA ReadingStarts ==
  ASSUME TypeOK, WrittenOK, Good, frames' = <<Frame(text)>>
  PROVE  InBefore(frames') \/ Among(frames', flags')
<1>1. text \in Seq(Letter) /\ Without(text, 0) = text
  BY WithoutNone DEF TypeOK
<1>2. PICK x : x = Frame(text)
  OBVIOUS
<1>3. x = [kind |-> "lines", rest |-> text, relevant |-> TRUE, inSection |-> FALSE]
  BY <1>2 DEF Frame
<1>4. x.rest = text
  BY <1>3
<1>5. frames' # <<>> /\ frames'[1] = x /\ Len(frames') = 1 /\ x.kind = "lines"
  BY <1>2, <1>3
<1>6. CASE written.named
  <2>1. 0 \in 0..Len(written.before)
    BY DEF WrittenOK
  <2>2. frames'[1].rest = Without(text, 0)
    BY <1>1, <1>4, <1>5
  <2>. QED
    BY <1>5, <1>6, <2>1, <2>2 DEF InBefore
<1>7. CASE ~written.named
  <2>1. Place(0) = 0
    BY <1>7, HeaderIs, PlacesAre
  <2>2. AtPlace(frames', 0)
    BY <1>1, <1>3, <1>5, <2>1 DEF AtPlace
  <2>3. Restored(0, flags') /\ 0 \in 0..Len(Name)
    BY NameLength DEF Restored
  <2>. QED
    BY <1>5, <2>2, <2>3 DEF Among
<1>. QED
  BY <1>6, <1>7

(* RoundTrip: what was written is there, and what of it was read restored. *)
Transferred ==
  /\ pc \in {"written", "changed", "reading", "reporting", "read"} => WrittenOK
  /\ pc \in {"running", "written", "changed"} => errors = {}
  /\ pc \in {"reading", "reporting"} /\ Good => Progress(frames, flags, errors)
  /\ pc = "reporting" => frames = <<>>
  /\ RoundTrip

(* At the end of the text everything is restored that is not read again.   *)
LEMMA EndRestores ==
  ASSUME Progress(frames, flags, errors), frames = <<>>
  PROVE  Restored(Len(Name), flags)
<1>1. ~InBefore(frames)
  BY DEF InBefore
<1>2. ~Among(frames, flags)
  BY DEF Among, AtPlace
<1>. QED
  BY <1>1, <1>2 DEF Progress, AtEnd

LEMMA TransferredStep == TypeOK /\ Transferred /\ [Next]_vars => Transferred'
<1> SUFFICES ASSUME TypeOK, Transferred, Next \/ UNCHANGED vars PROVE Transferred'
  OBVIOUS
<1>1. CASE GetFromEnv
  <2>1. pc' \in {"parsed", "refused"}
    BY <1>1 DEF GetFromEnv
  <2>. QED
    BY <2>1 DEF Transferred, RoundTrip
<1>2. CASE CommandlineFlagsIntoString \/ AppendFlagsIntoFile
  <2>1. WrittenOK'
    BY <1>2, StringWritten, FileWritten
  <2>2. pc = "running" /\ pc' = "written" /\ errors' = errors
    BY <1>2 DEF CommandlineFlagsIntoString, AppendFlagsIntoFile, reading
  <2>. QED
    BY <2>1, <2>2 DEF Transferred, RoundTrip
<1>3. CASE AppendFails
  <2>1. pc' = "exit"
    BY <1>3 DEF AppendFails
  <2>. QED
    BY <2>1 DEF Transferred, RoundTrip
<1>4. CASE SetFlags
  <2>1. pc = "written" /\ pc' = "changed" /\ errors' = errors /\ UNCHANGED writing
    BY <1>4 DEF SetFlags, reading
  <2>2. WrittenOK'
    BY <2>1, WrittenStays DEF Transferred
  <2>. QED
    BY <2>1, <2>2 DEF Transferred, RoundTrip
<1>5. CASE ReadFlagsFromString
  <2>1. /\ pc = "changed" /\ pc' = "reading" /\ UNCHANGED writing
        /\ errors' = errors /\ backup' = flags /\ flags' = flags
        /\ frames' = <<Frame(text)>>
    BY <1>5 DEF ReadFlagsFromString
  <2>2. WrittenOK /\ WrittenOK' /\ errors' = {}
    BY <2>1, WrittenStays DEF Transferred
  <2>3. ASSUME Good' PROVE Progress(frames, flags, errors)'
    <3>1. Good
      BY <2>1, <2>3, WrittenStays
    <3>2. InBefore(frames)' \/ Among(frames, flags)'
      BY <2>1, <2>2, <3>1, ReadingStarts, WrittenStays
    <3>3. errors' = {} /\ Untouched(flags)'
      BY <2>1, <2>2 DEF Untouched
    <3>. QED
      BY <3>2, <3>3 DEF Progress
  <2>. QED
    BY <2>1, <2>2, <2>3 DEF Transferred, RoundTrip
<1>6. CASE \/ ReadNothing \/ ReadFilenames \/ IgnoreFlagLine \/ ReadFlagLine
           \/ ListEnds \/ ReadFile \/ ReadVariable
  <2>1. pc = "reading" /\ UNCHANGED <<writing, backup>>
    BY <1>6 DEF ReadNothing, ReadFilenames, IgnoreFlagLine, ReadFlagLine, ListEnds, ReadFile,
       ReadVariable, Reading
  <2>2. pc' \in {"reading", "exit"}
    <3>1. CASE ReadNothing \/ ReadFilenames \/ IgnoreFlagLine \/ ListEnds
      BY <2>1, <3>1 DEF ReadNothing, ReadFilenames, IgnoreFlagLine, ListEnds
    <3>2. CASE ReadFlagLine \/ ReadFile \/ ReadVariable
      BY <2>1, <3>2, LineReads, FileReads, VariableReads
    <3>. QED
      BY <1>6, <3>1, <3>2
  <2>3. WrittenOK /\ WrittenOK'
    BY <2>1, WrittenStays DEF Transferred
  <2>4. ASSUME Good', pc' = "reading" PROVE Progress(frames, flags, errors)'
    <3>1. Good /\ Progress(frames, flags, errors)
      BY <2>1, <2>4, WrittenStays DEF Transferred
    <3>2. Progress(frames', flags', errors')
      BY <1>6, <2>3, <3>1, ReadingProgress
    <3>. QED
      BY <2>1, <3>2, ProgressStays
  <2>. QED
    BY <2>2, <2>3, <2>4 DEF Transferred, RoundTrip
<1>7. CASE HandleCommandLineHelpFlags
  <2>1. /\ pc = "reading" /\ frames = <<>> /\ pc' \in {"exit", "reporting"}
        /\ UNCHANGED <<flags, writing, backup, errors, frames>>
    BY <1>7 DEF HandleCommandLineHelpFlags, reading
  <2>2. WrittenOK'
    BY <2>1, WrittenStays DEF Transferred
  <2>3. ASSUME Good' PROVE Progress(frames, flags, errors)'
    <3>1. Progress(frames', flags', errors')
      BY <2>1, <2>3, WrittenStays DEF Transferred
    <3>. QED
      BY <2>1, <3>1, ProgressStays
  <2>. QED
    BY <2>1, <2>2, <2>3 DEF Transferred, RoundTrip
<1>8. CASE FinishReading \/ ReportDies
  <2>1. CASE pc' = "exit"
    BY <2>1 DEF Transferred, RoundTrip
  <2>2. CASE pc' # "exit"
    <3>1. /\ pc = "reporting" /\ pc' = "read" /\ UNCHANGED <<writing, backup>>
          /\ errors' \in SUBSET errors /\ returned' = (errors' = {})
          /\ errors' = {} => flags' = flags
      BY <1>8, <2>2 DEF FinishReading, ReportDies
    <3>2. WrittenOK'
      BY <3>1, WrittenStays DEF Transferred
    <3>3. ASSUME Good
          PROVE  /\ returned' =>
                       \A i \in DOMAIN Name : Name[i] \in written.names /\ ~Exposed(i) =>
                          flags'[Name[i]] = written.flags[Name[i]]
                 /\ written.before = <<>> /\ ~Exposed(1) =>
                       returned' /\ \A n \in Names \ written.names : flags'[n] = backup[n]
      <4>1. Progress(frames, flags, errors) /\ Restored(Len(Name), flags)
        BY <3>1, <3>3, EndRestores DEF Transferred
      <4>2. returned' => \A i \in DOMAIN Name : Name[i] \in written.names /\ ~Exposed(i) =>
                            flags'[Name[i]] = written.flags[Name[i]]
        <5>1. SUFFICES ASSUME returned', NEW i \in DOMAIN Name,
                              Name[i] \in written.names, ~Exposed(i)
                       PROVE  flags'[Name[i]] = written.flags[Name[i]]
          OBVIOUS
        <5>2. flags' = flags
          BY <3>1, <5>1
        <5>3. i \in 1..Len(Name)
          BY NameLength
        <5>. QED
          BY <4>1, <5>1, <5>2, <5>3 DEF Restored
      <4>3. ASSUME written.before = <<>>, ~Exposed(1)
            PROVE  returned' /\ \A n \in Names \ written.names : flags'[n] = backup[n]
        <5>1. errors = {} /\ Untouched(flags)
          BY <4>1, <4>3 DEF Progress
        <5>2. returned' /\ flags' = flags
          BY <3>1, <5>1
        <5>. QED
          BY <5>1, <5>2 DEF Untouched
      <4>. QED
        BY <4>2, <4>3
    <3>4. RoundTrip'
      <4>1. SUFFICES ASSUME Readable(written.flags)', Ours'
            PROVE  (/\ returned =>
                          \A i \in DOMAIN Name : Name[i] \in written.names /\ ~Exposed(i) =>
                             flags[Name[i]] = written.flags[Name[i]]
                    /\ written.before = <<>> /\ ~Exposed(1) =>
                          returned /\ \A n \in Names \ written.names : flags[n] = backup[n])'
        BY DEF RoundTrip
      <4>2. Good'
        BY <4>1 DEF Good
      <4>3. Good /\ (\A i : Exposed(i)' <=> Exposed(i)) /\ written' = written /\ backup' = backup
        BY <3>1, <4>2, WrittenStays DEF writing
      <4>. QED
        BY <3>3, <4>3
    <3>. QED
      BY <3>1, <3>2, <3>4 DEF Transferred
  <2>. QED
    BY <2>1, <2>2
<1>9. CASE Done \/ UNCHANGED vars
  <2>1. UNCHANGED vars
    BY <1>9 DEF Done
  <2>2. /\ pc' = pc /\ errors' = errors /\ flags' = flags /\ backup' = backup
        /\ returned' = returned /\ frames' = frames /\ UNCHANGED writing
        /\ written' = written
    BY <2>1 DEF vars, writing
  <2>3. RoundTrip'
    <3>1. RoundTrip
      BY DEF Transferred
    <3>2. Readable(written.flags)' /\ Ours' => Good
      BY <2>2, WrittenStays DEF Good
    <3>3. \A i : Exposed(i)' <=> Exposed(i)
      BY <2>2, WrittenStays
    <3>. QED
      BY <2>2, <3>1, <3>2, <3>3 DEF RoundTrip, Good
  <2>4. (pc \in {"reading", "reporting"} /\ Good => Progress(frames, flags, errors))'
    <3>1. SUFFICES ASSUME pc \in {"reading", "reporting"}, Good'
                   PROVE  Progress(frames, flags, errors)'
      BY <2>2
    <3>2. Progress(frames', flags', errors')
      BY <2>2, <3>1, WrittenStays DEF Transferred
    <3>. QED
      BY <2>2, <3>2, ProgressStays
  <2>5. WrittenOK' <=> WrittenOK
    BY <2>2, WrittenStays
  <2>. QED
    BY <2>2, <2>3, <2>4, <2>5 DEF Transferred
<1>. QED
  BY <1>1, <1>2, <1>3, <1>4, <1>5, <1>6, <1>7, <1>8, <1>9 DEF Next, Step

(* Flags written into a string or a file and read back have the values     *)
(* they had (gflags.cc:1739-1833), however many there are, whatever their  *)
(* types, and whatever the file held before and names: all of them that no *)
(* --flagfile, --fromenv or --tryfromenv that names something is written   *)
(* behind.                                                                 *)
THEOREM RoundTripHolds == Spec => []RoundTrip
<1>1. Init => Transferred
  BY DEF Init, Transferred, RoundTrip
<1>2. Transferred => RoundTrip
  BY DEF Transferred
<1>. QED
  BY <1>1, <1>2, TransferredStep, TypeCorrect, PTL DEF Spec
=============================================================================
