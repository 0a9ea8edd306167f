------------------------------- MODULE MCJCompare ------------------------------
(* A small instance of JCompare for TLC. *)
EXTENDS JCompare, MCJHandle
================================================================================
