------------------------------- MODULE MCJHandle -------------------------------
(* A small instance of JHandle for TLC. *)
EXTENDS JHandle

(* Values are allocated anywhere; iterators are alike, and handles but one. *)
HandleSymmetry == Permutations(Addresses) \cup Permutations(Handles \ {Dom}) \cup Permutations(Walks)

EmptyObject == <<[kind |-> "object", text |-> Null, items |-> <<>>]>>
AString     == <<[kind |-> "string", text |-> "b", items |-> <<>>]>>

(* {"a": []} *)
Nested ==
  <<[kind |-> "object", text |-> Null, items |-> <<<<2, 3>>>>],
    [kind |-> "string", text |-> "a", items |-> <<>>],
    [kind |-> "array", text |-> Null, items |-> <<>>]>>

MCDocuments == {EmptyObject, AString, Nested}
================================================================================
