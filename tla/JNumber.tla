------------------------------- MODULE JNumber ---------------------------------
(***************************************************************************)
(* Numbers as values (jobject.c) and their conversions (num_conversion.c): *)
(* the client makes a number out of a text, an integer or a double, and    *)
(* reads it back as a 32-bit or 64-bit integer or as a double.             *)
(*                                                                         *)
(* parseJSONNumber goes over a text once, from its first character on, so  *)
(* the model reads each character as the text is written; what the code    *)
(* answers at the end of the text is a function of the scan.  A word has   *)
(* Width bits; since its greatest value ends in 7 as that of 64 bits does, *)
(* eight bits meet the same boundaries.  Signed arithmetic that overflows  *)
(* wraps, or the compiler has removed the test that would have seen it.    *)
(* A double is the exact decimal, infinite or zero out of its range; the   *)
(* rounding of its arithmetic is left out.                                 *)
(***************************************************************************)
EXTENDS Integers, Sequences, JDecimal

CONSTANTS
  Width,        (* bits of an int64_t                                       *)
  NarrowWidth,  (* bits of an int32_t                                       *)
  MaxDouble,    (* the scale up to which doubles go                         *)
  MaxExact,     (* PJSON_MAX_INT_IN_DBL                                     *)
  Digits,       (* digits that texts are written with                       *)
  Point, E, Minus, PlusSign, (* the other characters                     *)
  Integer64,    (* integers a client makes numbers of                       *)
  Doubles,      (* doubles a client makes numbers of                        *)
  MaxLength,    (* bound: characters of a text                              *)
  Unset         (* a result the call did not write                          *)

ASSUME NumberConstants ==
  /\ Width \in Nat /\ NarrowWidth \in Nat /\ NarrowWidth < Width
  /\ MaxLength < 2^(Width - 1)
  /\ Digits \subseteq 0..9

VARIABLES
  kind,  (* "raw", "int" or "float": NUM_RAW, NUM_INT, NUM_FLOAT            *)
  value, (* the text so far, the integer or the double                      *)
  scan   (* the variables of parseJSONNumber after that text                *)

vars == <<kind, value, scan>>

Max64 == 2^(Width - 1) - 1
Min64 == -(2^(Width - 1))
Max32 == 2^(NarrowWidth - 1) - 1
Min32 == -(2^(NarrowWidth - 1))

Characters == Digits \cup {Point, E, Minus, PlusSign}

(* Flags of a ConversionResult; CONV_OK is the empty set.
   CONV_POSITIVE_INFINITY is an overflow and an infinity. *)
Flags == {"positive overflow", "negative overflow", "infinity", "precision loss", "not a number"}

(* A result of arithmetic in a word. *)
Word(n) == ((n - Min64) % 2^Width) + Min64

(* Where a scan starts. *)
Blank ==
  [at |-> "start", negative |-> FALSE, whole |-> 0, exponent |-> 0, shrinking |-> FALSE,
   fraction |-> 0, factor |-> 0, zeros |-> 0, flags |-> {}]

(* integerMultiplier and exponentMultiplier *)
Multiplier(flag) == IF flag THEN -1 ELSE 1

(* A scanner goes on with a mark that is not a digit.  The character after an
   e is read whether or not the text has one: "beyond", when the byte that
   lies behind the text in memory would do for an exponent. *)
Marks(c, at) ==
  CASE c = Point -> {[scan EXCEPT !.at = IF at = "integer" THEN "point" ELSE "rejected"]}
    [] c = E -> {[scan EXCEPT !.at = "sign"], [scan EXCEPT !.at = "beyond"]}
    [] OTHER -> {[scan EXCEPT !.at = "rejected"]}

(* Variant of Joined: the result is not cut to a word. *)
JoinedWide(n, sign, c, blind) == [value |-> n * 10 + sign * c, seen |-> FALSE]

(* A digit joins a number that is not negative, or the other way round;
   "seen" when the code sees that the word is exceeded.  Blind: the
   compiler relied on there being no overflow. *)
Joined(n, sign, c, blind) ==
  LET sum == n * 10 + sign * c
      wrapped == Word(sum)
      overflow == sum # wrapped \/ Word(wrapped * sign) # wrapped * sign
  IN [value |-> wrapped, seen |-> Word(wrapped * sign) < 0 /\ ~(blind /\ overflow)]

(* The digit of an integer part too long for a word is dropped, and the
   exponent grows by one for it and for each digit after it. *)
IntegerDigit(c, blind) ==
  LET full == \/ scan.exponent # 0
              \/ ~scan.negative /\ scan.whole > Quotient(Max64, 10)
              \/ scan.negative /\ scan.whole < Quotient(Min64, 10)
      next == Joined(scan.whole, Multiplier(scan.negative), c, blind)
  IN [scan EXCEPT
        !.at = "integer",
        !.whole = IF full \/ next.seen THEN @ ELSE next.value,
        !.exponent = IF full \/ next.seen THEN @ + 1 ELSE @]

(* The zeros that were put off are multiplied in, one by one, until the
   fraction exceeds the word. *)
Multiplied(blind) ==
  LET after[n \in 0..scan.zeros] ==
        IF n = 0 THEN [value |-> scan.fraction, steps |-> 0, seen |-> FALSE]
        ELSE LET before == after[n - 1]
                 next == Joined(before.value, 1, 0, blind)
             IN IF before.seen \/ next.seen THEN [before EXCEPT !.seen = TRUE]
                ELSE [before EXCEPT !.value = next.value, !.steps = @ + 1]
  IN after[scan.zeros]

(* Variant of DecimalDigit: the zeros put off are not counted. *)
DecimalDigitShort(c, blind) ==
  IF c = 0 THEN [scan EXCEPT !.at = "decimal", !.zeros = @ + 1]
  ELSE [scan EXCEPT !.at = "decimal", !.zeros = 0, !.factor = @ + 1,
                    !.fraction = Joined(Multiplied(blind).value, 1, c, blind).value]

(* A zero waits for a digit that makes it matter.  A fraction that exceeds
   the word, or has reached its greatest value, takes no more digits. *)
DecimalDigit(c, blind) ==
  LET ready == Multiplied(blind)
      next == Joined(ready.value, 1, c, blind)
      skip == [scan EXCEPT !.at = "skip", !.fraction = ready.value,
                           !.factor = @ + ready.steps, !.flags = @ \cup {"precision loss"}]
      kept == [scan EXCEPT !.at = "decimal", !.zeros = 0, !.factor = @ + ready.steps + 1]
  IN CASE c = 0 -> [scan EXCEPT !.at = "decimal", !.zeros = @ + 1]
       [] c # 0 /\ ready.seen -> skip
       [] c # 0 /\ ~ready.seen /\ ready.value = Max64 -> [kept EXCEPT !.fraction = Max64]
       [] OTHER -> IF next.seen THEN skip ELSE [kept EXCEPT !.fraction = next.value]

(* exponent_overflow: the rest of the text is not read. *)
Overflown ==
  IF scan.shrinking
  THEN [scan EXCEPT !.at = "settled", !.whole = 0, !.exponent = Min64,
                    !.flags = @ \cup {"precision loss"}]
  ELSE [scan EXCEPT !.at = "settled", !.whole = IF scan.negative THEN Min64 ELSE Max64,
                    !.exponent = Max64,
                    !.flags = @ \cup {"infinity", IF scan.negative THEN "negative overflow"
                                                                   ELSE "positive overflow"}]

ExponentDigit(c, blind) ==
  LET full == \/ ~scan.shrinking /\ scan.exponent > Quotient(Max64, 10)
              \/ scan.shrinking /\ scan.exponent < Quotient(Min64, 10)
      next == Joined(scan.exponent, Multiplier(scan.shrinking), c, blind)
  IN IF full \/ next.seen THEN Overflown
     ELSE [scan EXCEPT !.at = "exponent", !.exponent = next.value]

Write(c) ==
  /\ kind = "raw" /\ Len(value) < MaxLength
  /\ value' = Append(value, c)
  /\ UNCHANGED kind

First(c) ==
  /\ scan.at = "start"
  /\ Write(c)
  /\ scan' = CASE c = Minus -> [scan EXCEPT !.at = "integer", !.negative = TRUE]
               [] c = 0 -> [scan EXCEPT !.at = "zero"]
               [] c \in 1..9 -> IntegerDigit(c, FALSE)
               [] OTHER -> [scan EXCEPT !.at = "rejected"]

(* A zero in front is followed by a point or an exponent. *)
AfterZero(c) ==
  /\ scan.at = "zero"
  /\ Write(c)
  /\ \/ c \in 0..9 /\ scan' = [scan EXCEPT !.at = "rejected"]
     \/ c \notin 0..9 /\ scan' \in Marks(c, "integer")

ReadInteger(c) ==
  /\ scan.at = "integer"
  /\ Write(c)
  /\ \/ c \in 0..9 /\ \E blind \in BOOLEAN : scan' = IntegerDigit(c, blind)
     \/ c \notin 0..9 /\ scan' \in Marks(c, "integer")

(* "point": no digit was read after the point. *)
ReadDecimal(c) ==
  /\ scan.at \in {"point", "decimal"}
  /\ Write(c)
  /\ \/ c \in 0..9 /\ \E blind \in BOOLEAN : scan' = DecimalDigit(c, blind)
     \/ c \notin 0..9 /\ scan' \in Marks(c, "decimal")

SkipDecimal(c) ==
  /\ scan.at = "skip"
  /\ Write(c)
  /\ \/ c \in 0..9 /\ UNCHANGED scan
     \/ c \notin 0..9 /\ scan' \in Marks(c, "decimal")

(* After a sign the exponent may be empty. *)
ReadSign(c) ==
  /\ scan.at \in {"sign", "beyond"}
  /\ Write(c)
  /\ \/ c = Minus /\ scan' = [scan EXCEPT !.at = "exponent", !.shrinking = TRUE]
     \/ c = PlusSign /\ scan' = [scan EXCEPT !.at = "exponent"]
     \/ c \in 0..9 /\ \E blind \in BOOLEAN : scan' = ExponentDigit(c, blind)
     \/ c \in {Point, E} /\ scan' = [scan EXCEPT !.at = "rejected"]

ReadExponent(c) ==
  /\ scan.at = "exponent"
  /\ Write(c)
  /\ \/ c \in 0..9 /\ \E blind \in BOOLEAN : scan' = ExponentDigit(c, blind)
     \/ c \notin 0..9 /\ scan' = [scan EXCEPT !.at = "rejected"]

(* The number is settled, whatever comes.  A text that is refused is refused
   whatever comes, and is not written further. *)
Ignore(c) ==
  /\ scan.at = "settled"
  /\ Write(c)
  /\ UNCHANGED scan

(* Variant of Refused: the end of the text after an e is taken. *)
RefusedLate(s) == s.at \in {"start", "rejected", "point"}

(* not_a_number, where the end of the text is an unexpected character too.  A
   text that ends after an e is a number without an exponent when what lies
   behind it is a sign or a digit. *)
Refused(s) == s.at \in {"start", "rejected", "point", "sign"}

(* An integer part grows by an exponent until it exceeds the word. *)
Raise[n \in Int, x \in Nat] ==
  IF x = 0 THEN [value |-> n, flags |-> {}]
  ELSE IF n > Quotient(Max64, 10) THEN [value |-> Max64, flags |-> {"positive overflow"}]
  ELSE IF n < Quotient(Min64, 10) THEN [value |-> Min64, flags |-> {"negative overflow"}]
  ELSE Raise[n * 10, x - 1]

(* lost_precision: the loop stops at once for a negative number. *)
Shrink[n \in Int, x \in Nat] == IF x = 0 \/ n <= 0 THEN n ELSE Shrink[n \div 10, x - 1]

Lower[n \in Int, x \in Nat] ==
  IF x = 0 THEN [value |-> n, flags |-> {}]
  ELSE IF n % 10 # 0 THEN [value |-> Shrink[n, x], flags |-> {"precision loss"}]
  ELSE Lower[Quotient(n, 10), x - 1]

(* Variant of StrToI64: a fraction is lost unnoticed. *)
StrToI64Silent(s) ==
  LET exponent == IF s.whole = 0 THEN 0 ELSE s.exponent
  IN IF Refused(s) THEN [value |-> s.whole, flags |-> {"not a number"}]
     ELSE IF exponent >= 0 THEN Raise[s.whole, exponent] ELSE Lower[s.whole, -exponent]

(* jstr_to_i64: a fraction is lost before the exponent is applied. *)
StrToI64(s) ==
  LET exponent == IF s.whole = 0 THEN 0 ELSE s.exponent
      scaled == IF exponent >= 0 THEN Raise[s.whole, exponent] ELSE Lower[s.whole, -exponent]
      flags == s.flags \cup scaled.flags \cup (IF s.fraction # 0 THEN {"precision loss"} ELSE {})
  IN IF Refused(s) THEN [value |-> s.whole, flags |-> {"not a number"}]
     ELSE [flags |-> flags,
           value |-> CASE "positive overflow" \in flags -> Max64
                       [] "positive overflow" \notin flags /\ "negative overflow" \in flags -> Min64
                       [] OTHER -> scaled.value]

ExpBase10(n, x) ==
  CASE n = 0 \/ x < -MaxDouble -> Zero
    [] n # 0 /\ x > MaxDouble -> (IF n > 0 THEN Positive ELSE Negative)
    [] OTHER -> Decimal(n, x)

(* jstr_to_double: the fraction has the sign of the integer part.  The test
   for a positive infinity is true of a negative one. *)
StrToDouble(s) ==
  LET exponent == IF s.whole = 0 /\ s.fraction = 0 THEN 0 ELSE s.exponent
      sign == Multiplier(s.whole < 0)
      sum == Plus(ExpBase10(s.whole, exponent),
                  ExpBase10(sign * s.fraction, Word(exponent - s.factor)))
      lost == CASE Infinite(sum) -> {"positive overflow"}
                [] sum = Zero /\ s.fraction # 0 -> {"precision loss"}
                [] OTHER -> {}
  IN CASE Refused(s) -> [value |-> Decimal(s.whole, 0), flags |-> {"not a number"}]
       [] ~Refused(s) /\ "infinity" \in s.flags -> [value |-> Positive, flags |-> s.flags]
       [] OTHER -> [value |-> sum, flags |-> s.flags \cup lost]

I64ToI32(n) ==
  CASE n > Max32 -> [value |-> Max32, flags |-> {"positive overflow"}]
    [] n < Min32 -> [value |-> Min32, flags |-> {"negative overflow"}]
    [] OTHER -> [value |-> n, flags |-> {}]

(* Variant of StrToI32: the first conversion's flags are not looked at. *)
StrToI32Unchecked(s) == I64ToI32(StrToI64(s).value)

(* jstr_to_i32 writes nothing unless the text is exactly a 64-bit integer. *)
StrToI32(s) ==
  LET big == StrToI64(s)
  IN IF big.flags = {} THEN I64ToI32(big.value) ELSE [value |-> Unset, flags |-> big.flags]

I64ToDouble(n) ==
  [value |-> Decimal(n, 0), flags |-> IF Size(n) > MaxExact THEN {"precision loss"} ELSE {}]

(* jdouble_to_i32 and jdouble_to_i64, between low and high.  The greatest
   integer has no double of its own when high is above exact: the one the
   code compares with is its successor, which the cast does not define. *)
DoubleToInt(d, low, high, exact) ==
  LET top == Decimal(IF high > exact THEN high + 1 ELSE high, 0)
      large == Order(d, Decimal(exact, 0)) > 0 \/ Order(d, Decimal(-exact, 0)) < 0
      cut == IF d = top /\ high > exact THEN Unset ELSE Truncated(d)
  IN CASE Order(d, top) > 0 ->
            [value |-> high, flags |-> {"positive overflow"} \cup
                                       (IF Infinite(d) THEN {"infinity"} ELSE {})]
       [] Order(d, Decimal(low, 0)) < 0 ->
            [value |-> low, flags |-> {"negative overflow"} \cup
                                      (IF Infinite(d) THEN {"infinity"} ELSE {})]
       [] OTHER -> [value |-> cut,
                    flags |-> IF large \/ ~Integral(d) THEN {"precision loss"} ELSE {}]

DoubleToI32(d) == DoubleToInt(d, Min32, Max32, Max64)

DoubleToI64(d) == DoubleToInt(d, Min64, Max64, MaxExact)

(* A number is its kind and what it holds; one that holds an integer. *)
Whole(n) == [kind |-> "int", held |-> n]

GetI32(num) ==
  CASE num.kind = "float" -> DoubleToI32(num.held)
    [] num.kind = "int" -> I64ToI32(num.held)
    [] num.kind = "raw" -> StrToI32(num.held)

GetI64(num) ==
  CASE num.kind = "float" -> DoubleToI64(num.held)
    [] num.kind = "int" -> [value |-> num.held, flags |-> {}]
    [] num.kind = "raw" -> StrToI64(num.held)

GetF64(num) ==
  CASE num.kind = "float" -> [value |-> num.held, flags |-> {}]
    [] num.kind = "int" -> I64ToDouble(num.held)
    [] num.kind = "raw" -> StrToDouble(num.held)

(* Variant of Compared: a text is compared as an integer whatever the flags. *)
ComparedWhole(num) ==
  CASE num.kind = "float" -> num.held
    [] num.kind = "int" -> Decimal(num.held, 0)
    [] num.kind = "raw" -> Decimal(StrToI64(num.held).value, 0)

(* What a comparison takes a number for: a text is an integer when it
   converts to one exactly, and whatever double it converts to otherwise. *)
Compared(num) ==
  CASE num.kind = "float" -> num.held
    [] num.kind = "int" -> Decimal(num.held, 0)
    [] num.kind = "raw" ->
         LET big == StrToI64(num.held)
         IN IF big.flags = {} THEN Decimal(big.value, 0) ELSE StrToDouble(num.held).value

(* jnumber_compare, jnumber_compare_i64, jnumber_compare_f64 *)
Compare(num, other) == Order(Compared(num), Compared(other))

(* The number the client has. *)
number == [kind |-> kind, held |-> IF kind = "raw" THEN scan ELSE value]

Init ==
  /\ scan = Blank
  /\ \/ kind = "raw" /\ value = <<>>
     \/ kind = "int" /\ value \in Integer64
     \/ kind = "float" /\ value \in Doubles

Next ==
  \E c \in Characters :
    \/ First(c)
    \/ AfterZero(c)
    \/ ReadInteger(c)
    \/ ReadDecimal(c)
    \/ SkipDecimal(c)
    \/ ReadSign(c)
    \/ ReadExponent(c)
    \/ Ignore(c)

Spec == Init /\ [][Next]_vars
================================================================================
