------------------------------- MODULE JDecimal --------------------------------
(***************************************************************************)
(* Decimal numbers digits * 10^scale, zero and the two infinities.  A      *)
(* finite one is kept without trailing zeros, so equal numbers are equal   *)
(* records.                                                                *)
(***************************************************************************)
EXTENDS Integers

Positive == [digits |-> 1, scale |-> 1000000]
Negative == [digits |-> -1, scale |-> 1000000]
Zero == [digits |-> 0, scale |-> 0]

Infinite(d) == d \in {Positive, Negative}

Sign(n) == IF n < 0 THEN -1 ELSE IF n = 0 THEN 0 ELSE 1

Size(n) == IF n < 0 THEN -n ELSE n

(* Quotients as C has them, rounded towards zero. *)
Quotient(n, m) == Sign(n) * (Size(n) \div m)

Decimal(n, scale) ==
  IF n = 0 THEN Zero
  ELSE LET zeros == CHOOSE k \in 0..8 : n % 10^k = 0 /\ n % 10^(k + 1) # 0
       IN [digits |-> Quotient(n, 10^zeros), scale |-> scale + zeros]

Integral(d) == ~Infinite(d) /\ d.scale >= 0

(* The number of digits before the point, negative for a small number. *)
Magnitude(d) ==
  d.scale + CHOOSE k \in 1..9 : Size(d.digits) < 10^k /\ Size(d.digits) >= 10^(k - 1)

(* -1, 0 or 1 as a is less than, equal to or greater than b. *)
Order(a, b) ==
  LET low == IF a.scale < b.scale THEN a.scale ELSE b.scale
  IN CASE Sign(a.digits) # Sign(b.digits) -> Sign(a.digits - b.digits)
       [] a = b -> 0
       [] a # b /\ Magnitude(a) # Magnitude(b) ->
            Sign(a.digits) * Sign(Magnitude(a) - Magnitude(b))
       [] OTHER -> Sign(a.digits * 10^(a.scale - low) - b.digits * 10^(b.scale - low))

(* The sum of two numbers of which neither is the opposite infinity. *)
Plus(a, b) ==
  LET low == IF a.scale < b.scale THEN a.scale ELSE b.scale
  IN CASE Infinite(a) \/ b = Zero -> a
       [] ~Infinite(a) /\ (Infinite(b) \/ a = Zero) -> b
       [] OTHER -> Decimal(a.digits * 10^(a.scale - low) + b.digits * 10^(b.scale - low), low)

(* The integer part of a finite number below 10^9. *)
Truncated(d) ==
  CASE d.scale >= 0 -> d.digits * 10^d.scale
    [] d.scale < 0 /\ d.scale >= -9 -> Quotient(d.digits, 10^(-d.scale))
    [] OTHER -> 0
================================================================================
