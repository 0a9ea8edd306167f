--------------------------------- MODULE JArray ---------------------------------
(***************************************************************************)
(* JSON arrays (jobject.c, "JSON ARRAY API"): m_size elements in cells     *)
(* that are grown on demand, moved between arrays by jarray_splice, and    *)
(* released one by one.  A cell that was never assigned holds NULL and     *)
(* reads as the JSON null.                                                 *)
(*                                                                         *)
(* The module models the Release build.  The small and the big bucket are  *)
(* one row of cells: which of them an index addresses makes no difference, *)
(* but how many cells exist (m_capacity) and what growing leaves in them   *)
(* does.  JSON values are model values; the JSON null is a static object   *)
(* nobody counts references to.  Calls whose argument checks fail change   *)
(* nothing and are left out, and so is SPLICE_NOCHANGE, by which the client *)
(* takes the counting of references on itself.                             *)
(***************************************************************************)
EXTENDS Integers, SequencesExt

CONSTANTS
  Arrays,   (* the arrays of a client                                       *)
  Values,   (* JSON values other than null                                  *)
  JNull,    (* the JSON null                                                *)
  NULL,     (* the C null pointer                                           *)
  Junk,     (* what a cell that was never allocated holds                   *)
  Bucket,   (* ARRAY_BUCKET_SIZE, the cells of an array that never grew     *)
  MaxCells, (* realloc fails for more cells than this                       *)
  MaxIndex, (* bound: the largest index a client uses                       *)
  MaxLost   (* bound: references to a value that may get lost               *)

ASSUME ArrayConstants ==
  /\ IsFiniteSet(Arrays)
  /\ Bucket \in Nat \ {0}
  /\ MaxCells \in Nat /\ Bucket <= MaxCells
  /\ MaxIndex \in Nat /\ MaxLost \in Nat
  /\ JNull \notin Values
  /\ NULL \notin Values \cup {JNull}
  /\ Junk \notin Values \cup {JNull, NULL}

VARIABLES
  ar,        (* every array: size (m_size), cap (m_capacity) and its cells  *)
  refs,      (* references to each value that the arrays own                *)
  (* History, read by no action: *)
  lost,      (* references whose last pointer was overwritten or freed      *)
  exhausted, (* jarray_set or jarray_insert met a realloc that failed       *)
  split      (* elements were transferred from the middle of an array       *)

vars == <<ar, refs, lost, exhausted, split>>

Elements == Values \cup {JNull}
Cells    == 0 .. MaxCells - 1
Indices  == 0 .. MaxIndex
Modes    == {"TRANSFER", "COPY"}

-------------------------------------------------------------------------------
(* The steps of a call, on states [ar, refs, lost, exhausted]. *)

Now == [ar |-> ar, refs |-> refs, lost |-> lost, exhausted |-> exhausted]

Become(s) ==
  /\ \A v \in Values : s.lost[v] <= MaxLost
  /\ ar' = s.ar /\ refs' = s.refs /\ lost' = s.lost /\ exhausted' = s.exhausted

(* n more owned (or lost) references to v; null values are not counted. *)
Counted(f, v, n) == [x \in Values |-> IF x = v THEN f[x] + n ELSE f[x]]
Gain(s, v) == [s EXCEPT !.refs = Counted(@, v, 1)]
Drop(s, v) == [s EXCEPT !.refs = Counted(@, v, -1)]
Lose(s, v) == [s EXCEPT !.lost = Counted(@, v, 1)]

At(s, x, i) == s.ar[x].cell[i]
Size(s, x)  == s.ar[x].size

(* Variant of Expand: the cells realloc adds are not cleared. *)
ExpandUncleared(r, n) ==
  IF n > r.cap /\ n <= MaxCells THEN [r EXCEPT !.cap = n] ELSE r

(* jarray_expand_capacity_unsafe, and whether it returns true. *)
Expand(r, n) ==
  IF n > r.cap /\ n <= MaxCells
  THEN [r EXCEPT !.cap = n,
                 !.cell = [i \in Cells |-> IF r.cap <= i /\ i < n THEN NULL ELSE @[i]]]
  ELSE r

Fits(r, n) == n <= r.cap \/ n <= MaxCells

(* jarray_create_hint, or jarray_create for a hint of 0. *)
New(hint) ==
  Expand([size |-> 0, cap |-> Bucket,
          cell |-> [i \in Cells |-> IF i < Bucket THEN NULL ELSE Junk]], hint)

(* The array x of s with its fields after a store of v in cell i. *)
Stored(r, i, v) ==
  [r EXCEPT !.cell = [@ EXCEPT ![i] = v], !.size = IF i >= @ THEN i + 1 ELSE @]

(* Variant of PutUnsafe: the old element is not released. *)
PutUnreleased(s, x, i, v) ==
  LET r == Expand(s.ar[x], i + 1)
  IN  Gain([s EXCEPT !.ar[x] = Stored(r, i, v)], v)

(* jarray_put_unsafe, when there is room for cell i: what the cell held is
   released, even beyond the end of the array. *)
PutUnsafe(s, x, i, v) ==
  LET r == Expand(s.ar[x], i + 1)
  IN  Gain(Drop([s EXCEPT !.ar[x] = Stored(r, i, v)], r.cell[i]), v)

(* Variants of RemoveUnsafe: the last cell keeps its pointer, and the first
   element is not moved down. *)
RemoveUncleared(s, x, i) ==
  LET r == s.ar[x]
  IN  [Drop(s, r.cell[i]) EXCEPT !.ar[x] =
         [r EXCEPT !.size = @ - 1,
                   !.cell = [j \in Cells |-> IF i <= j /\ j < r.size - 1
                                             THEN @[j + 1] ELSE @[j]]]]

RemoveShiftsLate(s, x, i) ==
  LET r == s.ar[x]
  IN  [Drop(s, r.cell[i]) EXCEPT !.ar[x] =
         [r EXCEPT !.size = @ - 1,
                   !.cell = [j \in Cells |-> IF j = r.size - 1 THEN NULL
                                             ELSE IF i < j /\ j < r.size - 1
                                             THEN @[j + 1] ELSE @[j]]]]

(* jarray_remove_unsafe: the element is released, the ones above it move down
   and the last cell is cleared. *)
RemoveUnsafe(s, x, i) ==
  LET r == s.ar[x]
  IN  [Drop(s, r.cell[i]) EXCEPT !.ar[x] =
         [r EXCEPT !.size = @ - 1,
                   !.cell = [j \in Cells |-> IF j = r.size - 1 THEN NULL
                                             ELSE IF i <= j /\ j < r.size - 1
                                             THEN @[j + 1] ELSE @[j]]]]

(* The array r with the elements at .. last - 1 moved up by one and v below. *)
Raised(r, at, last, v) ==
  [r EXCEPT !.cell = [j \in Cells |-> IF at < j /\ j <= last THEN @[j - 1]
                                      ELSE IF j = at THEN v ELSE @[j]]]

(* jarray_insert.  It puts a null at the end, ignoring whether that failed, and
   moves the elements above i up into the last cell: without room, over the
   last element. *)
InsertAbove(s, x, i, v) ==
  LET p == IF Fits(s.ar[x], Size(s, x) + 1)
           THEN PutUnsafe(s, x, Size(s, x), JNull)
           ELSE [Lose(s, At(s, x, Size(s, x) - 1)) EXCEPT !.exhausted = TRUE]
      last == Size(p, x) - 1
      at   == IF i < last THEN i ELSE last
  IN  Gain([p EXCEPT !.ar[x] = Raised(@, at, last, v)], v)

(* The array r without the element in cell j, which leaves a hole. *)
Taken(r, j) == [r EXCEPT !.cell = [@ EXCEPT ![j] = NULL], !.size = @ - 1]

(* The source of a splice gives up, or keeps and shares, its element j. *)
Give(s, y, j, mode) ==
  IF mode = "TRANSFER"
  THEN [Drop(s, At(s, y, j)) EXCEPT !.ar[y] = Taken(@, j)]
  ELSE s

(* An iteration of a loop of jarray_splice.  In the call c, element b + d of y
   overwrites an element of x or is inserted into it, or an element of x that
   was not overwritten is removed. *)
Iteration(loop, c, s, d) ==
  LET v     == At(s, c.y, c.b + d)
      given == Give(s, c.y, c.b + d, c.mode)
  IN  CASE loop = "overwrite" -> PutUnsafe(given, c.x, c.i + d, v)
        [] loop = "insert"    -> InsertAbove(given, c.x, c.i + d, v)
        [] loop = "remove"    -> RemoveUnsafe(s, c.x, c.i + c.k)

(* The iterations from the one for lo to the one before hi. *)
Loop(loop, c, s, lo, hi) ==
  LET after[d \in lo .. hi] ==
        IF d = lo THEN s ELSE Iteration(loop, c, after[d - 1], d - 1)
  IN  after[hi]

(* jarray_splice: elements b .. e-1 of y first overwrite the r elements of x
   from i on; what is left of those is removed, or what is left of the source
   is inserted. *)
Spliced(s, x, i, r, y, b, e, mode) ==
  LET n    == e - b
      k    == IF r < n THEN r ELSE n
      c    == [x |-> x, i |-> i, k |-> k, y |-> y, b |-> b, mode |-> mode]
      over == Loop("overwrite", c, s, 0, k)
      room == [over EXCEPT !.ar[x] = Expand(@, Size(over, x) + (n - k))]
  IN  IF r > n THEN Loop("remove", c, over, n, r)
      ELSE IF k < n THEN Loop("insert", c, room, k, n)
      ELSE over

(* Variant of Destroyed: element 0 is never reached. *)
DestroyedToOne(s, x) ==
  LET kept == {i \in Cells : i < s.ar[x].cap /\ (i >= Size(s, x) \/ i = 0)}
      rel  == {i \in Cells : 0 < i /\ i < Size(s, x)}
      Held(v, C) == Cardinality({i \in C : At(s, x, i) = v})
  IN  [s EXCEPT !.refs = [v \in Values |-> @[v] - Held(v, rel)],
                !.lost = [v \in Values |-> @[v] + Held(v, kept)]]

(* j_destroy_array: the elements are released and the cells freed, with
   whatever the ones beyond the end hold. *)
Destroyed(s, x) ==
  LET inside  == {i \in Cells : i < Size(s, x)}
      outside == {i \in Cells : Size(s, x) <= i /\ i < s.ar[x].cap}
      Held(v, C) == Cardinality({i \in C : At(s, x, i) = v})
  IN  [s EXCEPT !.refs = [v \in Values |-> @[v] - Held(v, inside)],
                !.lost = [v \in Values |-> @[v] + Held(v, outside)]]

-------------------------------------------------------------------------------
(* The API. *)

Init ==
  /\ \E hint \in [Arrays -> 0 .. MaxCells] : ar = [x \in Arrays |-> New(hint[x])]
  /\ refs = [v \in Values |-> 0]
  /\ lost = [v \in Values |-> 0]
  /\ exhausted = FALSE
  /\ split = FALSE

(* jarray_put, jarray_set and, at the end, jarray_append. *)
Put(x, i, v) ==
  /\ Fits(ar[x], i + 1)
  /\ Become(PutUnsafe(Now, x, i, v))
  /\ UNCHANGED split

(* jarray_set without room: its copy of the value is lost.  (jarray_put and
   jarray_append return false and leave the value with the caller.) *)
SetFails(x, i, v) ==
  /\ ~Fits(ar[x], i + 1)
  /\ Become([Lose(Gain(Now, v), v) EXCEPT !.exhausted = TRUE])
  /\ UNCHANGED split

Insert(x, i, v) == Become(InsertAbove(Now, x, i, v)) /\ UNCHANGED split

RemoveIndex(x, i) ==
  /\ i < ar[x].size
  /\ Become(RemoveUnsafe(Now, x, i))
  /\ UNCHANGED split

Splice(x, i, r, y, b, e, mode) ==
  /\ r = 0 \/ i + r <= ar[x].size
  /\ 0 <= b /\ b < e /\ e <= ar[y].size
  /\ Become(Spliced(Now, x, i, r, y, b, e, mode))
  /\ split' = (split \/ (mode = "TRANSFER" /\ e < ar[y].size))

(* jarray_splice_append: a splice at m_size - 1, before the last element, or at
   0 into an empty array. *)
SpliceAppend(x, y, mode) ==
  Splice(x, IF ar[x].size = 0 THEN 0 ELSE ar[x].size - 1, 0, y, 0, ar[y].size, mode)

(* The last j_release, and jarray_create for the next array. *)
Renew(x) ==
  /\ Become([Destroyed(Now, x) EXCEPT !.ar[x] = New(0)])
  /\ UNCHANGED split

(* Calls by which the code keeps what jobject.h promises: there is room for an
   insertion, within the array, a transfer takes the source's last elements,
   and only an empty array has another appended to it (jarray_splice_append
   inserts before the last element of any other). *)
ListNext ==
  \E x \in Arrays :
    \/ \E i \in Indices, v \in Elements :
         \/ Put(x, i, v)
         \/ i <= ar[x].size /\ ar[x].size < MaxCells /\ Insert(x, i, v)
    \/ \E i \in Indices : RemoveIndex(x, i)
    \/ \E y \in Arrays \ {x}, i \in 0 .. ar[x].size, mode \in Modes :
         \E r \in 0 .. ar[x].size - i, e \in 1 .. ar[y].size : \E b \in 0 .. e - 1 :
           /\ ar[x].size - r + (e - b) <= MaxCells
           /\ mode = "TRANSFER" => e = ar[y].size
           /\ Splice(x, i, r, y, b, e, mode)
    \/ \E y \in Arrays \ {x}, mode \in Modes :
         ar[x].size = 0 /\ SpliceAppend(x, y, mode)
    \/ Renew(x)

(* Every call. *)
Next ==
  \E x \in Arrays :
    \/ \E i \in Indices, v \in Elements : Put(x, i, v) \/ SetFails(x, i, v) \/ Insert(x, i, v)
    \/ \E i \in Indices : RemoveIndex(x, i)
    \/ \E y \in Arrays \ {x}, i \in Indices, mode \in Modes :
         \E r \in 0 .. ar[x].size, e \in 1 .. ar[y].size : \E b \in 0 .. e - 1 :
           Splice(x, i, r, y, b, e, mode)
    \/ \E y \in Arrays \ {x}, mode \in Modes : SpliceAppend(x, y, mode)
    \/ Renew(x)

ListSpec == Init /\ [][ListNext]_vars
Spec     == Init /\ [][Next]_vars
-------------------------------------------------------------------------------
(* Sizes and capacities are in range, and every allocated cell, and no other,
   holds an element or NULL. *)
TypeOK ==
  /\ \A x \in Arrays :
       LET r == ar[x]
       IN  /\ r.size \in 0 .. r.cap /\ r.cap \in Bucket .. MaxCells
           /\ \A i \in Cells : IF i < r.cap THEN r.cell[i] \in Elements \cup {NULL}
                                            ELSE r.cell[i] = Junk
  /\ refs \in [Values -> Nat] /\ lost \in [Values -> Nat]
  /\ exhausted \in BOOLEAN /\ split \in BOOLEAN

(* The cells beyond an array's end are NULL, as an assertion of j_destroy_array
   has it (jobject.c, DEBUG_FREED_POINTERS), unless a transfer took elements
   from the middle of an array. *)
OutsideEmpty ==
  ~split => \A x \in Arrays : \A i \in ar[x].size .. ar[x].cap - 1 : ar[x].cell[i] = NULL

(* The cells that hold v. *)
HeldIn(v) == {c \in Arrays \X Cells : ar[c[1]].cell[c[2]] = v}

(* Every reference the arrays own is in one cell, or lost. *)
Ownership == \A v \in Values : refs[v] = Cardinality(HeldIn(v)) + lost[v]

(* jarray_insert, jarray_splice and jarray_remove move elements from cell to
   cell and array to array without losing any, as long as memory suffices and
   no transfer takes elements from the middle of an array. *)
NothingLost == ~exhausted /\ ~split => \A v \in Values : lost[v] = 0

(* jarray_get for every index below jarray_size. *)
Contents(x) ==
  [n \in 1 .. ar[x].size |-> IF ar[x].cell[n - 1] = NULL THEN JNull ELSE ar[x].cell[n - 1]]

List == INSTANCE JList WITH lists <- [x \in Arrays |-> Contents(x)]

(* A call of the API that does to the elements what jobject.h says of this very
   call: the same function, arrays, indices and value. *)
DocumentedCall ==
  \E x \in Arrays :
    \/ \E i \in Indices, v \in Elements :
         \/ List!Put(x, i, v) /\ Put(x, i, v)
         \/ List!Insert(x, i, v) /\ Insert(x, i, v)
    \/ \E i \in Indices : List!RemoveIndex(x, i) /\ RemoveIndex(x, i)
    \/ \E y \in Arrays \ {x}, i \in 0 .. ar[x].size, mode \in Modes :
         \E r \in 0 .. ar[x].size - i, e \in 1 .. ar[y].size : \E b \in 0 .. e - 1 :
           /\ List!Splice(x, i, r, y, b, e, mode = "TRANSFER")
           /\ Splice(x, i, r, y, b, e, mode)
    \/ \E y \in Arrays \ {x}, mode \in Modes :
         List!SpliceAppend(x, y, mode = "TRANSFER") /\ SpliceAppend(x, y, mode)
    \/ List!Clear(x) /\ Renew(x)

(* Every call of ListNext does what it is documented to do to the elements that
   jarray_get returns. *)
Lists == List!Init /\ [][DocumentedCall]_vars
================================================================================
