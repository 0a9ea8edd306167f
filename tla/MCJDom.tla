-------------------------------- MODULE MCJDom ---------------------------------
(* Small instances of JDom for TLC. *)
EXTENDS JDom

CONSTANTS a, b, s, one

(* A default that is an array, and one that is an object. *)
MCDefaults == (a :> [kind |-> "array", members |-> <<one, s, one>>])
                @@ (b :> [kind |-> "object", members |-> (a :> one)])

(* Where DocumentSpec is claimed. *)
ASSUME DefaultsSymmetric

(* Clients without error callbacks, one that takes on schema errors, one that
   takes on all the others, and one that takes on all. *)
MCClients == {{}, {"m_schema"}, {"m_parser", "m_unknown"},
              {"m_parser", "m_schema", "m_unknown"}}
================================================================================
