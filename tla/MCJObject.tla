------------------------------- MODULE MCJObject -------------------------------
(* Small instances of JObject for TLC. *)
EXTENDS JObject, TLC

CONSTANTS k1, k2, k3, k4, b1, b2, v1, v2

(* k1, k2 and k3 collide, so a chain has up to three tables; k4 has a bucket
   to itself. *)
MCHash == (k1 :> b1) @@ (k2 :> b1) @@ (k3 :> b1) @@ (k4 :> b2)

(* One collision. *)
MCHashPair == (k1 :> b1) @@ (k2 :> b1) @@ (k3 :> b2)

(* Values are only stored, compared and counted, never told apart. *)
ValueSymmetry == Permutations(Values)
================================================================================
