------------------------------- MODULE JNumeral --------------------------------
(***************************************************************************)
(* What texts mean: the value of a JSON number as a decimal, read off the  *)
(* whole text at once, and what jobject.h promises of the conversions.     *)
(***************************************************************************)
EXTENDS JNumber, SequencesExt

IsDigit(c) == c \in 0..9

Value(s) == FoldLeft(LAMBDA n, c : 10 * n + c, 0, SelectSeq(s, IsDigit))

(* The parts of a text before and after the first c. *)
Before(s, c) == SubSeq(s, 1, SelectInSeq(s \o <<c>>, LAMBDA x : x = c) - 1)
After(s, c) == SubSeq(s, Len(Before(s, c)) + 2, Len(s))

Mantissa(s) == Before(s, E)
Sized(s) == IF s # <<>> /\ Head(s) = Minus THEN Tail(s) ELSE s
WholePart(s) == Sized(Before(Mantissa(s), Point))
Fraction(s) == After(Mantissa(s), Point)
Exponent(s) ==
  LET e == After(s, E)
  IN IF e # <<>> /\ Head(e) = Minus THEN -Value(e) ELSE Value(e)

(* A fraction without the zeros at its end. *)
Significant(s) ==
  LET f == Fraction(s)
  IN SubSeq(f, 1, SelectLastInSeq(f, LAMBDA c : c # 0))

DigitsOnly(s) == s # <<>> /\ \A i \in DOMAIN s : IsDigit(s[i])

(* The grammar of json.org. *)
IsJSON(s) ==
  LET e == After(s, E)
  IN /\ DigitsOnly(WholePart(s))
     /\ Len(WholePart(s)) > 1 => Head(WholePart(s)) # 0
     /\ Point \in Range(Mantissa(s)) => DigitsOnly(Fraction(s))
     /\ E \in Range(s) => DigitsOnly(IF e # <<>> /\ Head(e) \in {Minus, PlusSign} THEN Tail(e) ELSE e)

(* The grammar the code has, as far as it reads. *)
IsTaken(s) ==
  LET e == After(s, E)
      Run(t) == t = <<>> \/ DigitsOnly(t)
  IN /\ s # <<>>
     /\ Run(WholePart(s))
     /\ Head(s) # Minus => WholePart(s) # <<>> /\ (Len(WholePart(s)) > 1 => Head(WholePart(s)) # 0)
     /\ Run(Fraction(s))
     /\ Point \in Range(Mantissa(s)) /\ Fraction(s) = <<>> => E \in Range(s)
     /\ E \in Range(s) =>
          IF e # <<>> /\ Head(e) \in {Minus, PlusSign} THEN Run(Tail(e)) ELSE DigitsOnly(e)

Meant(s) ==
  LET size == Value(Mantissa(s))
  IN Decimal(IF Head(s) = Minus THEN -size ELSE size, Exponent(s) - Len(Fraction(s)))

(* Every part of the text fits into a word. *)
Fits(s) ==
  /\ Value(WholePart(s)) <= Max64
  /\ Value(Significant(s)) <= Max64
  /\ Size(Exponent(s)) <= Max64

(* What the double loses: the sign of a number whose integer part is zero. *)
Signless(s) == Head(s) = Minus /\ Value(WholePart(s)) = 0

Text == kind = "raw" /\ IsJSON(value)

--------------------------------------------------------------------------------

Low == Decimal(Min64, 0)
High == Decimal(Max64, 0)

TypeOK ==
  /\ kind \in {"raw", "int", "float"}
  /\ kind = "raw" => value \in Seq(Characters) /\ Len(value) <= MaxLength
  /\ scan.at \in {"start", "zero", "integer", "point", "decimal", "skip", "sign", "beyond",
                  "exponent", "settled", "rejected"}
  /\ {scan.whole, scan.exponent, scan.fraction} \subseteq Min64..Max64
  /\ scan.factor \in 0..MaxLength /\ scan.zeros \in 0..MaxLength
  /\ scan.flags \subseteq Flags

(* A text is a number for the code when it is one for JSON, and otherwise
   only in the ways listed by IsTaken: after a minus sign the integer part may
   be missing or begin with a zero, before an exponent the fraction may be
   missing, and after the sign of an exponent its digits; when an exponent
   exceeds a word, after which the text is no longer looked at; or when the
   text ends after an e, and what lies behind it in memory is looked at
   (parseJSONNumber). *)
AcceptsNumbers ==
  kind = "raw" =>
    /\ IsJSON(value) => "not a number" \notin GetI64(number).flags
    /\ scan.at \notin {"settled", "beyond"} => ("not a number" \notin GetI64(number).flags <=> IsTaken(value))

(* Read as a 64-bit integer, a number whose parts fit into words is exact when
   there is no flag, and there is none for an integer written without a
   fraction; an overflow means that it is out of range, on that side, and
   gives the end of the range (jnumber_get_i64). *)
IntegersExact ==
  Text /\ Fits(value) =>
    LET got == GetI64(number)
        meant == Meant(value)
    IN /\ got.flags = {} => Decimal(got.value, 0) = meant
       /\ Significant(value) = <<>> /\ Integral(meant) =>
            \/ Order(meant, High) > 0 /\ got = [value |-> Max64, flags |-> {"positive overflow"}]
            \/ Order(meant, Low) < 0 /\ got = [value |-> Min64, flags |-> {"negative overflow"}]
            \/ got.flags = {}
       /\ "positive overflow" \in got.flags => Order(meant, High) > 0
       /\ "negative overflow" \in got.flags => Order(meant, Low) < 0

(* Read as a double, a number whose parts fit into words is exact and
   unflagged, unless it is out of the doubles' range or loses its sign
   (jnumber_get_f64). *)
DoublesExact ==
  Text /\ Fits(value) /\ ~Signless(value) =>
    LET got == GetF64(number)
        within == Size(Exponent(value)) + Len(Fraction(value)) <= MaxDouble
    IN /\ within => got = [value |-> Meant(value), flags |-> {}]
       /\ Infinite(got.value) => got.flags # {}

(* A number made of a text, an integer or a double compares with an integer
   as what it means does, from either side (jnumber_compare). *)
ComparesExactly ==
  LET meant == CASE kind = "raw" -> Meant(value)
                 [] kind = "int" -> Decimal(value, 0)
                 [] kind = "float" -> value
      plain == Size(Exponent(value)) + Len(Fraction(value)) <= MaxDouble
  IN (kind = "raw" => Text /\ Fits(value) /\ ~Signless(value) /\ plain) =>
       \A n \in Integer64 :
         /\ Compare(number, Whole(n)) = Order(meant, Decimal(n, 0))
         /\ Compare(Whole(n), number) = -Compare(number, Whole(n))

(* The accessors agree: what one of them returns without a flag the wider
   ones return too, whatever text the number was made of (jnumber_get_i32,
   jnumber_get_i64, jnumber_get_f64). *)
AccessorsAgree ==
  LET narrow == GetI32(number)
      wide == GetI64(number)
      double == GetF64(number)
  IN /\ narrow.flags = {} => wide = narrow
     /\ wide.flags = {} /\ double.flags = {} => double.value = Decimal(wide.value, 0)
     /\ narrow.flags = {} => double.flags = {}
     /\ kind # "raw" => narrow.value \in Min32..Max32
================================================================================
