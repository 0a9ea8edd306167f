----------------------------- MODULE MCJSchemaStore -----------------------------
(* Small instances of JSchemaStore for TLC. *)
EXTENDS JSchemaStore

Plain == [id |-> 1]
Reference == [ref |-> "r"]
Nested == [inner |-> [ref |-> "r"], extends |-> [id |-> 2]]
Derived == [extends |-> [extends |-> [ref |-> "r"], id |-> 3]]

MCTexts == {Plain, Reference, Nested, Derived}
MCNodes == MCTexts \cup {Nested.inner, Nested.extends, Derived.extends}
================================================================================
