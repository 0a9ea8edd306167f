------------------------------ MODULE MCJNumeral -------------------------------
(* A small instance of JNumeral for TLC: words of eight bits. *)
EXTENDS JNumeral

MCIntegers == {-128, -127, -17, -16, -1, 0, 1, 12, 15, 16, 31, 32, 127}

MCDoubles ==
  {Decimal(n, 0) : n \in {-129, -128, -33, -32, -17, -16, 0, 1, 15, 16, 31, 32, 127, 128, 129}}
    \cup {Decimal(5, -1), Decimal(-5, -1), Decimal(155, -1), Decimal(-165, -1), Decimal(1275, -1),
          Decimal(1, 20), Positive, Negative}
================================================================================
