----------------------------- MODULE MCJGenerator ------------------------------
(* A small instance of JGenerator for TLC. *)
EXTENDS JGenerator

CONSTANTS a, one

Scalar(x) == [kind |-> "scalar", is |-> x]
Array(s) == [kind |-> "array", items |-> s]
Member(k, v) == [key |-> k, value |-> v]
Object(s) == [kind |-> "object", members |-> s]

Flat ==
  {Scalar(one), Array(<<>>), Object(<<>>), Array(<<Scalar(a), Scalar(one)>>),
   Object(<<Member(a, Scalar(one)), Member(a, Scalar(a))>>)}

(* Containers in containers, followed by a value or not. *)
Nested(S) ==
  {Array(<<v>>) : v \in S} \cup {Object(<<Member(a, v), Member(a, Scalar(one))>>) : v \in S}

(* Up to one level more than there is room for. *)
MCLayers ==
  <<{Scalar(a), Scalar(one)}, Flat \ {Scalar(one)}, Nested(Flat) \cup {Array(<<v, v>>) : v \in Flat},
    Nested(Nested(Flat))>>
================================================================================
