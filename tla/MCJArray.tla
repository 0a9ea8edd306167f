------------------------------- MODULE MCJArray -------------------------------
(* Small instances of JArray for TLC. *)
EXTENDS JArray, TLC

(* Values are stored, compared and counted, and arrays are all alike. *)
ArraySymmetry == Permutations(Values) \cup Permutations(Arrays)
================================================================================
