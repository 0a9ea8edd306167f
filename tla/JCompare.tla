-------------------------------- MODULE JCompare --------------------------------
(***************************************************************************)
(* JValue::operator== (JValue.cpp): how two handles compare, and what that *)
(* does to the references of their values.                                 *)
(***************************************************************************)
EXTENDS JHandle

(* JValue::operator==, its result and what it does to the counts: the values
   inside two containers are made temporary JValues that own them, although
   their containers do, and are released with these.  Of an object only the
   first pair is looked at, and containers that are not the same are never
   equal. *)
RECURSIVE Compared(_, _, _)
Compared(h, p, q) ==
  LET Differ == [same |-> FALSE, heap |-> h]
      Owned(r, a, b) ==
        LET t == Compared(r.heap, a, b)
        IN  IF r.same THEN [t EXCEPT !.heap = Released(Released(@, a), b)] ELSE r
      mine == h[p].items
      its  == h[q].items
  IN  IF p = q THEN [Differ EXCEPT !.same = TRUE]
      ELSE IF Kind(h, p) # Kind(h, q) THEN Differ
      ELSE CASE Kind(h, p) = "string" -> [Differ EXCEPT !.same = Text(h, p) = Text(h, q)]
             [] Kind(h, p) = "object" ->
                  LET at == IF mine = <<>> THEN {} ELSE Named(h, q, Text(h, mine[1][1]))
                  IN  IF at = {} THEN Differ
                      ELSE [Owned([Differ EXCEPT !.same = TRUE],
                                  mine[1][2], its[CHOOSE i \in at : TRUE][2])
                            EXCEPT !.same = FALSE]
             [] Kind(h, p) = "array" ->
                  IF Len(mine) # Len(its) THEN Differ
                  ELSE [FoldLeft(LAMBDA r, i : Owned(r, mine[i][1], its[i][1]),
                                 [Differ EXCEPT !.same = TRUE],
                                 Reverse([i \in 1 .. Len(mine) |-> i]))
                        EXCEPT !.same = FALSE]
             [] OTHER -> Differ

(* x == y *)
Compare(x, y) ==
  /\ heap' = Compared(heap, hand[x], hand[y]).heap
  /\ UNCHANGED <<hand, walk, lost>>

(* With clients that compare values as well *)
CompareSpec ==
  Init /\ [][Next \/ \E x, y \in Handles \ {Dom} : Compare(x, y)]_vars
================================================================================
