--------------------------------- MODULE JList ---------------------------------
(***************************************************************************)
(* What JSON arrays promise their client: sequences that grow when an      *)
(* element is put beyond their end, and that can take elements from one    *)
(* another (jobject.h, "JSON Array operations").  Indices start at 0, as   *)
(* in the C API.  JArray implements it with partly filled buckets.         *)
(***************************************************************************)
EXTENDS Integers, SequencesExt

CONSTANTS
  Arrays,    (* the arrays of a client                                      *)
  Elements,  (* JSON values, JNull among them                               *)
  Indices,   (* the indices a client uses                                   *)
  JNull      (* the JSON null, which fills the gap below a put              *)

VARIABLE lists  (* the elements of each array *)

Len0(x) == Len(lists[x])

Init == lists = [x \in Arrays |-> <<>>]

(* jarray_put and jarray_set: overwrite, or grow up to index i. *)
Put(x, i, v) ==
  lists' = [lists EXCEPT ![x] =
    [n \in 1 .. (IF i < Len(@) THEN Len(@) ELSE i + 1) |->
       IF n = i + 1 THEN v ELSE IF n <= Len(@) THEN @[n] ELSE JNull]]

(* jarray_insert: "arr[index] now contains val, with all elements shifted". *)
Insert(x, i, v) ==
  /\ i <= Len0(x)
  /\ lists' = [lists EXCEPT ![x] = InsertAt(@, i + 1, v)]

(* jarray_remove: "elements at position above index have their positions
   decremented by 1". *)
RemoveIndex(x, i) ==
  /\ i < Len0(x)
  /\ lists' = [lists EXCEPT ![x] = RemoveAt(@, i + 1)]

(* jarray_splice: r elements of x make place for elements b .. e-1 of y, which
   leaves y without them if their ownership is transferred. *)
Splice(x, i, r, y, b, e, transfer) ==
  lists' = [lists EXCEPT
    ![x] = SubSeq(@, 1, i) \o SubSeq(lists[y], b + 1, e) \o SubSeq(@, i + r + 1, Len(@)),
    ![y] = IF transfer THEN SubSeq(@, 1, b) \o SubSeq(@, e + 1, Len(@)) ELSE @]

(* jarray_splice_append: "Append all the contents of array2 to array1". *)
SpliceAppend(x, y, transfer) == Splice(x, Len0(x), 0, y, 0, Len0(y), transfer)

(* The last reference to an array is released. *)
Clear(x) == lists' = [lists EXCEPT ![x] = <<>>]

Next ==
  \E x \in Arrays :
    \/ \E i \in Indices, v \in Elements : Put(x, i, v) \/ Insert(x, i, v)
    \/ \E i \in Indices : RemoveIndex(x, i)
    \/ \E y \in Arrays \ {x}, i \in 0 .. Len0(x), t \in BOOLEAN :
         \E r \in 0 .. Len0(x) - i, e \in 1 .. Len0(y) : \E b \in 0 .. e - 1 :
           Splice(x, i, r, y, b, e, t)
    \/ \E y \in Arrays \ {x}, t \in BOOLEAN : SpliceAppend(x, y, t)
    \/ Clear(x)

Spec == Init /\ [][Next]_lists
================================================================================
