----------------------------- MODULE JArray_proofs -----------------------------
(***************************************************************************)
(* Proofs about JArray for every call of the API, those that fail or that  *)
(* lose elements included, for any finite number of arrays, any values,    *)
(* bucket size and limit of memory.                                        *)
(*                                                                         *)
(* References are counted by the cells that hold them.  Every step of a    *)
(* call rotates some cells of one array and overwrites one (TurnCount), so *)
(* that only what that cell held and holds changes the count.              *)
(***************************************************************************)
EXTENDS JArray, FiniteSetTheorems, FunctionTheorems, SeqLemmas, TLAPS

-------------------------------------------------------------------------------
(* Counting cells. *)

Held == Elements \cup {NULL, Junk}

(* The cells of the arrays a that hold v. *)
Places(a, v) == {c \in Arrays \X Cells : a[c[1]].cell[c[2]] = v}

(* 1 if e is v, and 0 otherwise. *)
Is(e, v) == IF e = v THEN 1 ELSE 0

LEMMA Constants ==
  /\ Bucket \in Nat /\ Bucket >= 1 /\ MaxCells \in Nat /\ Bucket <= MaxCells
  /\ Cells \subseteq Nat
  /\ \A i \in Nat : i \in Cells <=> i < MaxCells
  /\ \A v \in Values : v # NULL /\ v # Junk /\ v # JNull /\ v \in Elements
  /\ Junk # NULL /\ Junk \notin Elements /\ NULL \notin Elements /\ JNull \in Elements
BY ArrayConstants DEF Cells, Elements

LEMMA PlacesFinite ==
  ASSUME NEW a, NEW v
  PROVE  IsFiniteSet(Places(a, v)) /\ Cardinality(Places(a, v)) \in Nat
<1>1. IsFiniteSet(Arrays) /\ IsFiniteSet(Cells)
  BY FS_Interval, ArrayConstants DEF Cells
<1>2. IsFiniteSet(Arrays \X Cells)
  BY <1>1, FS_Product
<1>3. Places(a, v) \in SUBSET (Arrays \X Cells)
  BY DEF Places
<1>. QED
  BY <1>2, <1>3, FS_Subset, FS_CardinalityType

(* The arrays z are the arrays a with the cells lo .. hi of x turned down by one:
   the cell lo is overwritten by its neighbour, and the cell hi has any value. *)
Turned(a, z, x, lo, hi) ==
  /\ \A y \in Arrays, j \in Cells :
       y # x \/ j < lo \/ hi < j => z[y].cell[j] = a[y].cell[j]
  /\ \A j \in Cells : lo < j /\ j <= hi => z[x].cell[j - 1] = a[x].cell[j]

LEMMA TurnCount ==
  ASSUME NEW a, NEW z, NEW v, NEW x \in Arrays, NEW lo \in Cells, NEW hi \in Cells,
         lo <= hi, Turned(a, z, x, lo, hi)
  PROVE  Cardinality(Places(z, v)) + Is(a[x].cell[lo], v)
           = Cardinality(Places(a, v)) + Is(z[x].cell[hi], v)
<1>. DEFINE S == Places(a, v) \ {<<x, lo>>}
            T == Places(z, v) \ {<<x, hi>>}
            down(c) == c[1] = x /\ lo < c[2] /\ c[2] <= hi
            f == [c \in S |-> IF down(c) THEN <<x, c[2] - 1>> ELSE c]
<1>1. lo \in Nat /\ hi \in Nat /\ \A j \in Cells : j \in Nat
  BY Constants
<1>2. \A c \in Arrays \X Cells : c = <<c[1], c[2]>> /\ c[1] \in Arrays /\ c[2] \in Cells
  OBVIOUS
<1>3. ASSUME NEW c \in S
      PROVE  f[c] \in T
  <2>1. c \in Arrays \X Cells /\ a[c[1]].cell[c[2]] = v /\ c # <<x, lo>>
    BY DEF Places
  <2>2. /\ c = <<c[1], c[2]>> /\ c[1] \in Arrays /\ c[2] \in Cells /\ c[2] \in Nat
        /\ a[c[1]].cell[c[2]] = v /\ c # <<x, lo>>
    BY <1>1, <1>2, <2>1
  <2>3. CASE down(c)
    <3>1. c[2] - 1 \in Cells /\ c[2] - 1 # hi
      BY <1>1, <2>2, <2>3, Constants
    <3>2. z[x].cell[c[2] - 1] = v
      BY <1>2, <2>2, <2>3, SMTT(40) DEF Turned
    <3>. QED
      BY <2>3, <3>1, <3>2 DEF Places
  <2>4. CASE ~down(c)
    <3>1. c[1] # x \/ c[2] < lo \/ hi < c[2]
      BY <1>1, <2>2, <2>4
    <3>2. z[c[1]].cell[c[2]] = v /\ c # <<x, hi>>
      BY <1>1, <1>2, <2>2, <3>1 DEF Turned
    <3>. QED
      BY <2>1, <2>4, <3>2 DEF Places
  <2>. QED
    BY <2>3, <2>4
<1>4. ASSUME NEW c \in S, NEW e \in S, f[c] = f[e]
      PROVE  c = e
  <2>1. c \in Arrays \X Cells /\ c # <<x, lo>> /\ e \in Arrays \X Cells /\ e # <<x, lo>>
    BY DEF Places
  <2>2. c[2] \in Nat /\ e[2] \in Nat /\ c = <<c[1], c[2]>> /\ e = <<e[1], e[2]>>
    BY <1>1, <1>2, <2>1
  <2>3. CASE down(c) /\ down(e)
    BY <1>4, <2>2, <2>3
  <2>4. CASE down(c) /\ ~down(e)
    <3>1. e = <<x, c[2] - 1>>
      BY <1>4, <2>4
    <3>. QED
      BY <1>1, <2>1, <2>2, <2>4, <3>1
  <2>5. CASE ~down(c) /\ down(e)
    <3>1. c = <<x, e[2] - 1>>
      BY <1>4, <2>5
    <3>. QED
      BY <1>1, <2>1, <2>2, <2>5, <3>1
  <2>6. CASE ~down(c) /\ ~down(e)
    BY <1>4, <2>6
  <2>. QED
    BY <2>3, <2>4, <2>5, <2>6
<1>5. ASSUME NEW e \in T
      PROVE  \E c \in S : f[c] = e
  <2>1. e \in Arrays \X Cells /\ z[e[1]].cell[e[2]] = v /\ e # <<x, hi>>
    BY DEF Places
  <2>2. e[2] \in Nat /\ e = <<e[1], e[2]>> /\ e[1] \in Arrays /\ e[2] \in Cells
    BY <1>1, <1>2, <2>1
  <2>3. CASE e[1] = x /\ lo <= e[2] /\ e[2] < hi
    <3>. DEFINE c == <<x, e[2] + 1>>
    <3>1. e[2] + 1 \in Cells /\ lo < e[2] + 1 /\ e[2] + 1 <= hi /\ (e[2] + 1) - 1 = e[2]
      BY <1>1, <2>2, <2>3, Constants
    <3>2. a[x].cell[e[2] + 1] = v
      BY <2>1, <2>3, <3>1 DEF Turned
    <3>3. c \in S
      BY <1>1, <3>1, <3>2 DEF Places
    <3>4. f[c] = e
      BY <2>2, <2>3, <3>1, <3>3
    <3>. QED
      BY <3>3, <3>4
  <2>4. CASE ~(e[1] = x /\ lo <= e[2] /\ e[2] < hi)
    <3>1. e[1] # x \/ e[2] < lo \/ hi < e[2]
      BY <1>1, <2>1, <2>2, <2>4
    <3>2. a[e[1]].cell[e[2]] = v /\ e # <<x, lo>> /\ ~down(e)
      BY <1>1, <2>1, <2>2, <3>1 DEF Turned
    <3>3. e \in S
      BY <2>1, <3>2 DEF Places
    <3>. QED
      BY <3>2, <3>3
  <2>. QED
    BY <2>3, <2>4
<1>6. ExistsBijection(S, T)
  <2>1. f \in [S -> T]
    BY <1>3
  <2>. HIDE DEF f, S, T
  <2>2. f \in Bijection(S, T)
    BY <1>4, <1>5, <2>1, Fun_IsBij
  <2>. QED
    BY <2>2 DEF ExistsBijection
<1>7. /\ IsFiniteSet(Places(a, v)) /\ Cardinality(Places(a, v)) \in Nat
      /\ IsFiniteSet(Places(z, v)) /\ Cardinality(Places(z, v)) \in Nat
  BY PlacesFinite
<1>8. IsFiniteSet(S) /\ Cardinality(S) = Cardinality(Places(a, v)) - Is(a[x].cell[lo], v)
  <2>1. <<x, lo>> \in Places(a, v) <=> a[x].cell[lo] = v
    BY DEF Places
  <2>. QED
    BY <1>7, <2>1, FS_RemoveElement DEF Is
<1>9. Cardinality(T) = Cardinality(Places(z, v)) - Is(z[x].cell[hi], v)
  <2>1. <<x, hi>> \in Places(z, v) <=> z[x].cell[hi] = v
    BY DEF Places
  <2>2. Cardinality(T) = IF <<x, hi>> \in Places(z, v) THEN Cardinality(Places(z, v)) - 1
                         ELSE Cardinality(Places(z, v))
    BY <1>7, FS_RemoveElement
  <2>. QED
    BY <1>7, <2>1, <2>2 DEF Is
<1>10. Cardinality(T) = Cardinality(S)
  BY <1>6, <1>8, FS_Bijection
<1>. HIDE DEF S, T
<1>. QED
  BY <1>7, <1>8, <1>9, <1>10 DEF Is

-------------------------------------------------------------------------------
(* Arrays and the states of a call. *)

Rows == [size : Nat, cap : Nat, cell : [Cells -> Held]]

States == [ar : [Arrays -> Rows], refs : [Values -> Int], lost : [Values -> Int],
           exhausted : BOOLEAN]

(* The cells below the capacity are allocated. *)
RowOK(r) ==
  /\ r \in Rows /\ r.size <= r.cap /\ Bucket <= r.cap /\ r.cap <= MaxCells
  /\ \A i \in Cells : IF i < r.cap THEN r.cell[i] \in Elements \cup {NULL}
                      ELSE r.cell[i] = Junk

(* The cells beyond the end are NULL. *)
Clean(r) == \A i \in Cells : r.size <= i /\ i < r.cap => r.cell[i] = NULL

Owned(s) ==
  \A v \in Values : s.refs[v] = Cardinality(Places(s.ar, v)) + s.lost[v]

Typed(s) ==
  /\ s \in States
  /\ \A x \in Arrays : RowOK(s.ar[x])
  /\ \A v \in Values : s.lost[v] >= 0

Sound(s) == Typed(s) /\ Owned(s)

(* One cell of x changes, after others have moved over it. *)
LEMMA TurnOwned ==
  ASSUME NEW s, NEW t, Sound(s), Typed(t),
         NEW x \in Arrays, NEW lo \in Cells, NEW hi \in Cells, lo <= hi,
         Turned(s.ar, t.ar, x, lo, hi),
         \A v \in Values : t.refs[v] - t.lost[v]
           = s.refs[v] - s.lost[v] - Is(s.ar[x].cell[lo], v) + Is(t.ar[x].cell[hi], v)
  PROVE  Sound(t)
<1>1. ASSUME NEW v \in Values
      PROVE  t.refs[v] = Cardinality(Places(t.ar, v)) + t.lost[v]
  <2>1. /\ Cardinality(Places(t.ar, v)) + Is(s.ar[x].cell[lo], v)
             = Cardinality(Places(s.ar, v)) + Is(t.ar[x].cell[hi], v)
        /\ Cardinality(Places(t.ar, v)) \in Nat /\ Cardinality(Places(s.ar, v)) \in Nat
    BY TurnCount, PlacesFinite
  <2>2. /\ t.refs[v] - t.lost[v]
             = s.refs[v] - s.lost[v] - Is(s.ar[x].cell[lo], v) + Is(t.ar[x].cell[hi], v)
        /\ s.refs[v] = Cardinality(Places(s.ar, v)) + s.lost[v]
    BY DEF Sound, Owned
  <2>3. t.refs[v] \in Int /\ t.lost[v] \in Int /\ s.refs[v] \in Int /\ s.lost[v] \in Int
    BY DEF Sound, Typed, States
  <2>4. Is(s.ar[x].cell[lo], v) \in Int /\ Is(t.ar[x].cell[hi], v) \in Int
    BY DEF Is
  <2>. QED
    BY <2>1, <2>2, <2>3, <2>4
<1>. QED
  BY <1>1 DEF Sound, Owned

(* The same when the others have moved up. *)
LEMMA RiseOwned ==
  ASSUME NEW s, NEW t, Sound(s), Typed(t),
         NEW x \in Arrays, NEW lo \in Cells, NEW hi \in Cells, lo <= hi,
         Turned(t.ar, s.ar, x, lo, hi),
         \A v \in Values : t.refs[v] - t.lost[v]
           = s.refs[v] - s.lost[v] - Is(s.ar[x].cell[hi], v) + Is(t.ar[x].cell[lo], v)
  PROVE  Sound(t)
<1>1. ASSUME NEW v \in Values
      PROVE  t.refs[v] = Cardinality(Places(t.ar, v)) + t.lost[v]
  <2>1. /\ Cardinality(Places(s.ar, v)) + Is(t.ar[x].cell[lo], v)
             = Cardinality(Places(t.ar, v)) + Is(s.ar[x].cell[hi], v)
        /\ Cardinality(Places(t.ar, v)) \in Nat /\ Cardinality(Places(s.ar, v)) \in Nat
    BY TurnCount, PlacesFinite
  <2>2. /\ t.refs[v] - t.lost[v]
             = s.refs[v] - s.lost[v] - Is(s.ar[x].cell[hi], v) + Is(t.ar[x].cell[lo], v)
        /\ s.refs[v] = Cardinality(Places(s.ar, v)) + s.lost[v]
    BY DEF Sound, Owned
  <2>3. t.refs[v] \in Int /\ t.lost[v] \in Int /\ s.refs[v] \in Int /\ s.lost[v] \in Int
    BY DEF Sound, Typed, States
  <2>4. Is(s.ar[x].cell[hi], v) \in Int /\ Is(t.ar[x].cell[lo], v) \in Int
    BY DEF Is
  <2>. QED
    BY <2>1, <2>2, <2>3, <2>4
<1>. QED
  BY <1>1 DEF Sound, Owned

(* No cell with a value changes. *)
LEMMA StillOwned ==
  ASSUME NEW s, NEW t, Sound(s), Typed(t),
         \A y \in Arrays, j \in Cells :
           \/ t.ar[y].cell[j] = s.ar[y].cell[j]
           \/ t.ar[y].cell[j] \notin Values /\ s.ar[y].cell[j] \notin Values,
         \A v \in Values : t.refs[v] - t.lost[v] = s.refs[v] - s.lost[v]
  PROVE  Sound(t)
<1>1. ASSUME NEW v \in Values
      PROVE  t.refs[v] = Cardinality(Places(t.ar, v)) + t.lost[v]
  <2>1. Places(t.ar, v) = Places(s.ar, v)
    BY DEF Places
  <2>2. /\ t.refs[v] - t.lost[v] = s.refs[v] - s.lost[v]
        /\ s.refs[v] = Cardinality(Places(s.ar, v)) + s.lost[v]
        /\ Cardinality(Places(s.ar, v)) \in Nat
    BY PlacesFinite DEF Sound, Owned
  <2>3. t.refs[v] \in Int /\ t.lost[v] \in Int /\ s.refs[v] \in Int /\ s.lost[v] \in Int
    BY DEF Sound, Typed, States
  <2>. QED
    BY <2>1, <2>2, <2>3
<1>. QED
  BY <1>1 DEF Sound, Owned

(* s with the array x as q says. *)
WithRow(s, x, q) == [s EXCEPT !.ar[x] = q]

LEMMA WithRowFacts ==
  ASSUME NEW s \in States, NEW x \in Arrays, NEW q \in Rows
  PROVE  /\ WithRow(s, x, q) \in States
         /\ WithRow(s, x, q).ar[x] = q
         /\ \A y \in Arrays : y # x => WithRow(s, x, q).ar[y] = s.ar[y]
         /\ WithRow(s, x, q).refs = s.refs
         /\ WithRow(s, x, q).lost = s.lost
         /\ WithRow(s, x, q).exhausted = s.exhausted
BY DEF WithRow, States

LEMMA GainFacts ==
  ASSUME NEW s \in States, NEW v
  PROVE  /\ Gain(s, v) \in States
         /\ Gain(s, v).ar = s.ar /\ Gain(s, v).lost = s.lost
         /\ Gain(s, v).exhausted = s.exhausted
         /\ \A u \in Values : Gain(s, v).refs[u] = s.refs[u] + Is(v, u)
BY DEF Gain, Counted, States, Is

LEMMA DropFacts ==
  ASSUME NEW s \in States, NEW v
  PROVE  /\ Drop(s, v) \in States
         /\ Drop(s, v).ar = s.ar /\ Drop(s, v).lost = s.lost
         /\ Drop(s, v).exhausted = s.exhausted
         /\ \A u \in Values : Drop(s, v).refs[u] = s.refs[u] - Is(v, u)
BY DEF Drop, Counted, States, Is

LEMMA LoseFacts ==
  ASSUME NEW s \in States, NEW v
  PROVE  /\ Lose(s, v) \in States
         /\ Lose(s, v).ar = s.ar /\ Lose(s, v).refs = s.refs
         /\ Lose(s, v).exhausted = s.exhausted
         /\ \A u \in Values : Lose(s, v).lost[u] = s.lost[u] + Is(v, u)
BY DEF Lose, Counted, States, Is

(* A grown array has more cells, which are NULL. *)
LEMMA ExpandFacts ==
  ASSUME NEW r, RowOK(r), NEW n \in Nat
  PROVE  /\ RowOK(Expand(r, n)) /\ Expand(r, n).size = r.size
         /\ r.cap <= Expand(r, n).cap
         /\ Fits(r, n) => n <= Expand(r, n).cap
         /\ \A i \in Cells : IF i < r.cap THEN Expand(r, n).cell[i] = r.cell[i]
                             ELSE Expand(r, n).cell[i] \in {NULL, Junk}
         /\ Clean(r) => Clean(Expand(r, n))
<1>. DEFINE q == Expand(r, n)
<1>1. r \in Rows /\ r.size \in Nat /\ r.cap \in Nat /\ \A i \in Cells : i \in Nat
  BY Constants DEF RowOK, Rows
<1>2. CASE n > r.cap /\ n <= MaxCells
  <2>1. q = [r EXCEPT !.cap = n,
                      !.cell = [i \in Cells |-> IF r.cap <= i /\ i < n THEN NULL ELSE @[i]]]
    BY <1>2 DEF Expand
  <2>2. /\ q \in Rows /\ q.cap = n /\ q.size = r.size
        /\ \A i \in Cells : q.cell[i] = IF r.cap <= i /\ i < n THEN NULL ELSE r.cell[i]
    BY <1>1, <2>1 DEF Rows, Held
  <2>. HIDE DEF q
  <2>3. RowOK(q)
    <3>1. q.size <= q.cap /\ Bucket <= q.cap /\ q.cap <= MaxCells
      BY <1>1, <1>2, <2>2, Constants DEF RowOK
    <3>2. ASSUME NEW i \in Cells
          PROVE  IF i < q.cap THEN q.cell[i] \in Elements \cup {NULL} ELSE q.cell[i] = Junk
      BY <1>1, <1>2, <2>2 DEF RowOK
    <3>. QED
      BY <2>2, <3>1, <3>2 DEF RowOK
  <2>4. \A i \in Cells : IF i < r.cap THEN q.cell[i] = r.cell[i]
                         ELSE q.cell[i] \in {NULL, Junk}
    BY <1>1, <2>2 DEF RowOK
  <2>5. Clean(r) => Clean(q)
    BY <1>1, <1>2, <2>2 DEF Clean
  <2>. QED
    BY <1>1, <1>2, <2>2, <2>3, <2>4, <2>5 DEF q
<1>3. CASE ~(n > r.cap /\ n <= MaxCells)
  <2>1. q = r
    BY <1>3 DEF Expand
  <2>. HIDE DEF q
  <2>2. Fits(r, n) => n <= q.cap
    BY <1>1, <1>3, <2>1, Constants DEF Fits
  <2>. QED
    BY <1>1, <2>1, <2>2 DEF RowOK, q
<1>. QED
  BY <1>2, <1>3

LEMMA StoredFacts ==
  ASSUME NEW r, RowOK(r), NEW i \in Nat, i < r.cap, NEW v \in Elements \cup {NULL}
  PROVE  /\ RowOK(Stored(r, i, v)) /\ i \in Cells
         /\ Stored(r, i, v).cap = r.cap
         /\ Stored(r, i, v).size = IF i >= r.size THEN i + 1 ELSE r.size
         /\ Stored(r, i, v).cell[i] = v
         /\ \A j \in Cells : j # i => Stored(r, i, v).cell[j] = r.cell[j]
         /\ Clean(r) => Clean(Stored(r, i, v))
<1>. DEFINE q == Stored(r, i, v)
<1>1. /\ r \in Rows /\ r.size \in Nat /\ r.cap \in Nat /\ r.cap <= MaxCells
      /\ \A j \in Cells : j \in Nat
  BY Constants DEF RowOK, Rows
<1>2. i \in Cells
  BY <1>1, Constants
<1>3. /\ q \in Rows /\ q.cap = r.cap /\ q.size = (IF i >= r.size THEN i + 1 ELSE r.size)
      /\ q.cell[i] = v /\ \A j \in Cells : j # i => q.cell[j] = r.cell[j]
  <2>. DEFINE m == IF i >= r.size THEN i + 1 ELSE r.size
              c == [r.cell EXCEPT ![i] = v]
  <2>1. r = [size |-> r.size, cap |-> r.cap, cell |-> r.cell] /\ r.cell \in [Cells -> Held]
    BY <1>1 DEF Rows
  <2>2. q = [r EXCEPT !.cell = c, !.size = m]
    BY DEF Stored
  <2>3. c \in [Cells -> Held] /\ c[i] = v /\ \A j \in Cells : j # i => c[j] = r.cell[j]
    BY <1>2, <2>1 DEF Held
  <2>4. m \in Nat
    BY <1>1
  <2>. HIDE DEF m, c, q
  <2>5. q \in Rows /\ q.size = m /\ q.cap = r.cap /\ q.cell = c
    BY <1>1, <2>2, <2>3, <2>4 DEF Rows
  <2>. QED
    BY <2>3, <2>5 DEF m
<1>. HIDE DEF q
<1>4. RowOK(q)
  BY <1>1, <1>3 DEF RowOK
<1>5. Clean(r) => Clean(q)
  BY <1>1, <1>3 DEF Clean
<1>. QED
  BY <1>2, <1>3, <1>4, <1>5 DEF q

-------------------------------------------------------------------------------
(* The steps of a call. *)

(* An array grows *)
LEMMA GrowFacts ==
  ASSUME NEW s, Sound(s), NEW x \in Arrays, NEW n \in Nat,
         NEW t, t = WithRow(s, x, Expand(s.ar[x], n))
  PROVE  /\ Sound(t) /\ t.lost = s.lost /\ t.exhausted = s.exhausted
         /\ \A y \in Arrays : y # x => t.ar[y] = s.ar[y]
         /\ t.ar[x] = Expand(s.ar[x], n) /\ t.refs = s.refs
         /\ t.ar[x].size = s.ar[x].size
         /\ Clean(s.ar[x]) => Clean(t.ar[x])
<1>. DEFINE o == s.ar[x]
            r == Expand(o, n)
<1>1. Typed(s) /\ RowOK(o) /\ s \in States
  BY DEF Sound, Typed
<1>. HIDE DEF o
<1>2. /\ RowOK(r) /\ r.size = o.size
      /\ \A j \in Cells : IF j < o.cap THEN r.cell[j] = o.cell[j]
                          ELSE r.cell[j] \in {NULL, Junk}
      /\ Clean(o) => Clean(r)
  BY <1>1, ExpandFacts
<1>3. t = WithRow(s, x, r)
  BY DEF o
<1>. HIDE DEF r
<1>4. /\ t \in States /\ t.ar[x] = r /\ t.refs = s.refs /\ t.lost = s.lost
      /\ t.exhausted = s.exhausted
      /\ \A y \in Arrays : y # x => t.ar[y] = s.ar[y]
  BY <1>1, <1>2, <1>3, WithRowFacts DEF RowOK
<1>5. Typed(t)
  BY <1>1, <1>2, <1>4 DEF Typed
<1>6. ASSUME NEW y \in Arrays, NEW j \in Cells
      PROVE  \/ t.ar[y].cell[j] = s.ar[y].cell[j]
             \/ t.ar[y].cell[j] \notin Values /\ s.ar[y].cell[j] \notin Values
  <2>1. CASE y # x \/ j < o.cap
    BY <1>2, <1>4, <2>1 DEF o
  <2>2. CASE y = x /\ ~(j < o.cap)
    <3>1. t.ar[x].cell[j] \in {NULL, Junk} /\ s.ar[x].cell[j] = Junk
      BY <1>1, <1>2, <1>4, <2>2 DEF RowOK, o
    <3>. QED
      BY <2>2, <3>1, Constants
  <2>. QED
    BY <2>1, <2>2
<1>7. Sound(t)
  BY <1>4, <1>5, <1>6, StillOwned
<1>. QED
  BY <1>2, <1>4, <1>7 DEF o, r

LEMMA PutFacts ==
  ASSUME NEW s, Sound(s), NEW x \in Arrays, NEW i \in Nat, Fits(s.ar[x], i + 1),
         NEW v \in Elements \cup {NULL},
         NEW t, t = PutUnsafe(s, x, i, v)
  PROVE  /\ Sound(t) /\ t.lost = s.lost /\ t.exhausted = s.exhausted
         /\ \A y \in Arrays : y # x => t.ar[y] = s.ar[y]
         /\ t.ar[x].size = IF i >= s.ar[x].size THEN i + 1 ELSE s.ar[x].size
         /\ i \in Cells /\ t.ar[x].cell[i] = v
         /\ \A j \in Cells : j # i =>
              IF j < s.ar[x].cap THEN t.ar[x].cell[j] = s.ar[x].cell[j]
              ELSE t.ar[x].cell[j] \in {NULL, Junk}
         /\ Clean(s.ar[x]) => Clean(t.ar[x])
<1>. DEFINE o  == s.ar[x]
            r  == Expand(o, i + 1)
            q  == Stored(r, i, v)
            s1 == WithRow(s, x, r)
            s2 == WithRow(s, x, q)
            s3 == Drop(s2, r.cell[i])
<1>1. Typed(s) /\ RowOK(o) /\ i + 1 \in Nat /\ s \in States
  BY DEF Sound, Typed
<1>2. t = Gain(s3, v)
  BY DEF PutUnsafe, WithRow
<1>. HIDE DEF o
<1>3. /\ RowOK(r) /\ r.size = o.size /\ i + 1 <= r.cap
      /\ \A j \in Cells : IF j < o.cap THEN r.cell[j] = o.cell[j]
                          ELSE r.cell[j] \in {NULL, Junk}
      /\ Clean(o) => Clean(r)
  BY <1>1, ExpandFacts DEF o
<1>. HIDE DEF r
<1>4. i < r.cap
  BY <1>3 DEF RowOK, Rows
<1>5. /\ RowOK(q) /\ i \in Cells
      /\ q.size = IF i >= r.size THEN i + 1 ELSE r.size
      /\ q.cell[i] = v
      /\ \A j \in Cells : j # i => q.cell[j] = r.cell[j]
      /\ Clean(r) => Clean(q)
  BY <1>3, <1>4, StoredFacts
<1>. HIDE DEF q
<1>6. r \in Rows /\ q \in Rows
  BY <1>3, <1>5 DEF RowOK
<1>7. /\ s1 \in States /\ s1.ar[x] = r /\ s1.refs = s.refs /\ s1.lost = s.lost
      /\ \A y \in Arrays : y # x => s1.ar[y] = s.ar[y]
  BY <1>1, <1>6, WithRowFacts
<1>8. /\ s2 \in States /\ s2.ar[x] = q /\ s2.refs = s.refs /\ s2.lost = s.lost
      /\ s2.exhausted = s.exhausted
      /\ \A y \in Arrays : y # x => s2.ar[y] = s.ar[y]
  BY <1>1, <1>6, WithRowFacts
<1>. HIDE DEF s1, s2
<1>9. /\ s3 \in States /\ s3.ar = s2.ar /\ s3.lost = s2.lost /\ s3.exhausted = s2.exhausted
      /\ \A u \in Values : s3.refs[u] = s2.refs[u] - Is(r.cell[i], u)
  BY <1>8, DropFacts
<1>. HIDE DEF s3
<1>10. /\ t \in States /\ t.ar = s2.ar /\ t.lost = s.lost /\ t.exhausted = s.exhausted
       /\ \A u \in Values : t.refs[u] = s.refs[u] - Is(r.cell[i], u) + Is(v, u)
  BY <1>2, <1>8, <1>9, GainFacts
<1>11. Sound(s1)
  BY GrowFacts DEF s1, r, o
<1>12. Typed(t)
  BY <1>1, <1>5, <1>8, <1>10 DEF Typed
<1>13. Turned(s1.ar, t.ar, x, i, i)
  <2>1. \A y \in Arrays, j \in Cells :
          y # x \/ j < i \/ i < j => t.ar[y].cell[j] = s1.ar[y].cell[j]
    BY <1>5, <1>7, <1>8, <1>10
  <2>. QED
    BY <2>1, Constants DEF Turned
<1>14. \A u \in Values : t.refs[u] - t.lost[u]
         = s1.refs[u] - s1.lost[u] - Is(s1.ar[x].cell[i], u) + Is(t.ar[x].cell[i], u)
  <2>. TAKE u \in Values
  <2>1. s.refs[u] \in Int /\ s.lost[u] \in Int /\ Is(r.cell[i], u) \in Int /\ Is(v, u) \in Int
    BY <1>1 DEF States, Is
  <2>2. s1.ar[x].cell[i] = r.cell[i] /\ t.ar[x].cell[i] = v
    BY <1>5, <1>7, <1>8, <1>10
  <2>. QED
    BY <1>7, <1>10, <2>1, <2>2
<1>15. Sound(t)
  BY <1>5, <1>11, <1>12, <1>13, <1>14, TurnOwned
<1>. QED
  BY <1>3, <1>5, <1>8, <1>10, <1>15 DEF o

LEMMA RemoveFacts ==
  ASSUME NEW s, Sound(s), NEW x \in Arrays, NEW i \in Nat, i < s.ar[x].size,
         NEW t, t = RemoveUnsafe(s, x, i)
  PROVE  /\ Sound(t) /\ t.lost = s.lost /\ t.exhausted = s.exhausted
         /\ \A y \in Arrays : y # x => t.ar[y] = s.ar[y]
         /\ t.ar[x].size = s.ar[x].size - 1
         /\ \A j \in Cells : j < s.ar[x].size - 1 =>
              t.ar[x].cell[j] = IF j < i THEN s.ar[x].cell[j] ELSE s.ar[x].cell[j + 1]
         /\ Clean(s.ar[x]) => Clean(t.ar[x])
<1>. DEFINE r  == s.ar[x]
            hi == r.size - 1
            c  == [j \in Cells |-> IF j = r.size - 1 THEN NULL
                                   ELSE IF i <= j /\ j < r.size - 1
                                   THEN r.cell[j + 1] ELSE r.cell[j]]
            q  == [r EXCEPT !.size = @ - 1, !.cell = c]
            s1 == Drop(s, r.cell[i])
<1>1. /\ Typed(s) /\ RowOK(r) /\ s \in States
      /\ r \in Rows /\ r.size \in Nat /\ r.cap \in Nat /\ r.size <= r.cap /\ r.cap <= MaxCells
      /\ \A j \in Cells : j \in Nat
  BY Constants DEF Sound, Typed, RowOK, Rows
<1>2. t = WithRow(s1, x, q)
  BY DEF RemoveUnsafe, WithRow
<1>. HIDE DEF r
<1>3. i < r.size /\ hi \in Nat /\ i \in Cells /\ hi \in Cells /\ i <= hi
  BY <1>1, Constants DEF r
<1>4. /\ \A j \in Cells : j < r.size - 1 => j + 1 \in Cells
      /\ \A j \in Cells : j < r.cap => r.cell[j] \in Elements \cup {NULL}
      /\ \A j \in Cells : ~(j < r.cap) => r.cell[j] = Junk
  <2>1. \A j \in Cells : j < r.size - 1 => j + 1 \in Cells
    BY <1>1, Constants
  <2>. QED
    BY <1>1, <2>1 DEF RowOK
<1>5. \A j \in Cells : IF j < r.cap THEN c[j] \in Elements \cup {NULL} ELSE c[j] = Junk
  <2>. TAKE j \in Cells
  <2>1. CASE j = r.size - 1
    BY <1>1, <2>1
  <2>2. CASE i <= j /\ j < r.size - 1
    <3>1. j + 1 \in Cells /\ j + 1 < r.cap /\ j < r.cap
      BY <1>1, <1>4, <2>2
    <3>. QED
      BY <1>1, <1>4, <2>2, <3>1
  <2>3. CASE j # r.size - 1 /\ ~(i <= j /\ j < r.size - 1)
    BY <1>1, <1>4, <2>3
  <2>. QED
    BY <2>1, <2>2, <2>3
<1>6. c \in [Cells -> Held]
  BY <1>5 DEF Held
<1>7. /\ c[hi] = NULL
      /\ \A j \in Cells : j < i \/ hi < j => c[j] = r.cell[j]
      /\ \A j \in Cells : i < j /\ j <= hi => j - 1 \in Cells /\ c[j - 1] = r.cell[j]
  <2>1. c[hi] = NULL
    BY <1>3
  <2>2. \A j \in Cells : j < i \/ hi < j => c[j] = r.cell[j]
    BY <1>1, <1>3
  <2>3. ASSUME NEW j \in Cells, i < j, j <= hi
        PROVE  j - 1 \in Cells /\ c[j - 1] = r.cell[j]
    <3>1. j - 1 \in Cells /\ i <= j - 1 /\ j - 1 < r.size - 1 /\ (j - 1) + 1 = j
      BY <1>1, <1>3, <2>3, Constants
    <3>. QED
      BY <1>1, <3>1
  <2>. QED
    BY <2>1, <2>2, <2>3
<1>. HIDE DEF c
<1>8. q \in Rows /\ q.size = hi /\ q.cap = r.cap /\ q.cell = c
  BY <1>1, <1>3, <1>6 DEF Rows
<1>. HIDE DEF q, hi
<1>9. RowOK(q)
  <2>1. q.size <= q.cap
    BY <1>1, <1>8 DEF hi
  <2>. QED
    BY <1>1, <1>5, <1>8, <2>1 DEF RowOK
<1>10. /\ s1 \in States /\ s1.ar = s.ar /\ s1.lost = s.lost /\ s1.exhausted = s.exhausted
       /\ \A u \in Values : s1.refs[u] = s.refs[u] - Is(r.cell[i], u)
  BY <1>1, DropFacts
<1>. HIDE DEF s1
<1>11. /\ t \in States /\ t.ar[x] = q /\ t.refs = s1.refs /\ t.lost = s.lost
       /\ t.exhausted = s.exhausted
       /\ \A y \in Arrays : y # x => t.ar[y] = s.ar[y]
  BY <1>2, <1>8, <1>10, WithRowFacts
<1>12. Typed(t)
  BY <1>1, <1>9, <1>11 DEF Typed
<1>13. Turned(s.ar, t.ar, x, i, hi)
  BY <1>7, <1>8, <1>11 DEF Turned, r
<1>14. \A u \in Values : t.refs[u] - t.lost[u]
         = s.refs[u] - s.lost[u] - Is(s.ar[x].cell[i], u) + Is(t.ar[x].cell[hi], u)
  <2>. TAKE u \in Values
  <2>1. s.refs[u] \in Int /\ s.lost[u] \in Int /\ Is(r.cell[i], u) \in Int
    BY <1>1 DEF States, Is
  <2>2. s.ar[x].cell[i] = r.cell[i] /\ Is(t.ar[x].cell[hi], u) = 0
    BY <1>7, <1>8, <1>11, Constants DEF Is, r
  <2>. QED
    BY <1>10, <1>11, <2>1, <2>2
<1>15. Sound(t)
  BY <1>3, <1>12, <1>13, <1>14, TurnOwned
<1>16. Clean(r) => Clean(q)
  <2>. SUFFICES ASSUME Clean(r), NEW j \in Cells, hi <= j, j < r.cap
                PROVE  c[j] = NULL
    BY <1>8 DEF Clean
  <2>1. CASE j = hi
    BY <1>7, <2>1
  <2>2. CASE j # hi
    <3>1. hi < j /\ r.size <= j
      BY <1>1, <1>3, <2>2 DEF hi
    <3>. QED
      BY <1>7, <3>1 DEF Clean
  <2>. QED
    BY <2>1, <2>2
<1>17. ASSUME NEW j \in Cells, j < hi
       PROVE  c[j] = IF j < i THEN r.cell[j] ELSE r.cell[j + 1]
  <2>1. CASE j < i
    BY <1>7, <2>1
  <2>2. CASE ~(j < i)
    <3>1. j + 1 \in Cells /\ i < j + 1 /\ j + 1 <= hi /\ (j + 1) - 1 = j
      BY <1>1, <1>3, <1>4, <1>17, <2>2 DEF hi
    <3>. QED
      BY <1>7, <2>2, <3>1
  <2>. QED
    BY <2>1, <2>2
<1>. QED
  BY <1>8, <1>11, <1>15, <1>16, <1>17 DEF r, hi

(* An element of the source that is transferred *)
LEMMA GiveFacts ==
  ASSUME NEW s, Sound(s), NEW y \in Arrays, NEW j \in Nat, j < s.ar[y].cap,
         s.ar[y].size >= 1,
         NEW t, t = Give(s, y, j, "TRANSFER")
  PROVE  /\ Sound(t) /\ t.lost = s.lost /\ t.exhausted = s.exhausted
         /\ \A z \in Arrays : z # y => t.ar[z] = s.ar[z]
         /\ t.ar[y].size = s.ar[y].size - 1 /\ t.ar[y].cap = s.ar[y].cap
         /\ j \in Cells /\ t.ar[y].cell[j] = NULL
         /\ \A i \in Cells : i # j => t.ar[y].cell[i] = s.ar[y].cell[i]
<1>. DEFINE r  == s.ar[y]
            c  == [r.cell EXCEPT ![j] = NULL]
            q  == [r EXCEPT !.cell = c, !.size = @ - 1]
            s1 == Drop(s, r.cell[j])
<1>1. /\ Typed(s) /\ RowOK(r) /\ s \in States
      /\ r \in Rows /\ r.size \in Nat /\ r.cap \in Nat /\ r.size <= r.cap /\ r.cap <= MaxCells
  BY DEF Sound, Typed, RowOK, Rows
<1>2. t = WithRow(s1, y, Taken(s1.ar[y], j))
  BY DEF Give, WithRow, At
<1>3. j \in Cells
  BY <1>1, Constants
<1>4. /\ s1 \in States /\ s1.ar = s.ar /\ s1.lost = s.lost /\ s1.exhausted = s.exhausted
      /\ \A u \in Values : s1.refs[u] = s.refs[u] - Is(r.cell[j], u)
  BY <1>1, DropFacts, SMTT(40)
<1>5. t = WithRow(s1, y, q)
  <2>1. q = Taken(r, j)
    BY DEF Taken
  <2>. QED
    BY <1>2, <1>4, <2>1
<1>. HIDE DEF r, s1
<1>6. /\ c \in [Cells -> Held] /\ c[j] = NULL
      /\ \A i \in Cells : i # j => c[i] = r.cell[i]
  BY <1>1, <1>3 DEF Rows, Held
<1>. HIDE DEF c
<1>7. r.size - 1 \in Nat
  BY <1>1 DEF r
<1>8. q \in Rows /\ q.size = r.size - 1 /\ q.cap = r.cap /\ q.cell = c
  BY <1>1, <1>6, <1>7 DEF Rows
<1>. HIDE DEF q
<1>9. RowOK(q)
  <2>1. q.size <= q.cap
    BY <1>1, <1>8
  <2>2. ASSUME NEW i \in Cells
        PROVE  IF i < q.cap THEN q.cell[i] \in Elements \cup {NULL} ELSE q.cell[i] = Junk
    BY <1>1, <1>6, <1>8 DEF RowOK, r
  <2>. QED
    BY <1>1, <1>8, <2>1, <2>2 DEF RowOK
<1>10. /\ t \in States /\ t.ar[y] = q /\ t.refs = s1.refs /\ t.lost = s.lost
       /\ t.exhausted = s.exhausted
       /\ \A z \in Arrays : z # y => t.ar[z] = s.ar[z]
  BY <1>4, <1>5, <1>8, WithRowFacts
<1>11. Typed(t)
  BY <1>1, <1>9, <1>10 DEF Typed
<1>12. Turned(s.ar, t.ar, y, j, j)
  <2>1. \A z \in Arrays, i \in Cells :
          z # y \/ i < j \/ j < i => t.ar[z].cell[i] = s.ar[z].cell[i]
    BY <1>6, <1>8, <1>10 DEF r
  <2>2. \A i \in Cells : ~(j < i /\ i <= j)
    BY Constants
  <2>. QED
    BY <2>1, <2>2 DEF Turned
<1>13. \A u \in Values : t.refs[u] - t.lost[u]
         = s.refs[u] - s.lost[u] - Is(s.ar[y].cell[j], u) + Is(t.ar[y].cell[j], u)
  <2>. TAKE u \in Values
  <2>1. s.refs[u] \in Int /\ s.lost[u] \in Int /\ Is(r.cell[j], u) \in Int
    BY <1>1 DEF States, Is
  <2>2. s.ar[y].cell[j] = r.cell[j] /\ Is(t.ar[y].cell[j], u) = 0
    BY <1>6, <1>8, <1>10, Constants DEF Is, r
  <2>. QED
    BY <1>4, <1>10, <2>1, <2>2
<1>14. Sound(t)
  BY <1>3, <1>11, <1>12, <1>13, TurnOwned
<1>. QED
  BY <1>3, <1>6, <1>8, <1>10, <1>14 DEF r

LEMMA RaisedFacts ==
  ASSUME NEW r, RowOK(r), NEW at \in Nat, NEW last \in Nat, at <= last, last < r.size,
         NEW v \in Elements \cup {NULL}, NEW q, q = Raised(r, at, last, v)
  PROVE  /\ RowOK(q) /\ q.size = r.size /\ at \in Cells /\ last \in Cells
         /\ q.cell[at] = v
         /\ \A j \in Cells : j < at \/ last < j => q.cell[j] = r.cell[j]
         /\ \A j \in Cells : at < j /\ j <= last => q.cell[j] = r.cell[j - 1]
         /\ Clean(r) => Clean(q)
<1>. DEFINE c == [j \in Cells |-> IF at < j /\ j <= last THEN r.cell[j - 1]
                                  ELSE IF j = at THEN v ELSE r.cell[j]]
<1>1. /\ r \in Rows /\ r.size \in Nat /\ r.cap \in Nat /\ r.size <= r.cap /\ r.cap <= MaxCells
      /\ \A j \in Cells : j \in Nat
  BY Constants DEF RowOK, Rows
<1>2. at \in Cells /\ last \in Cells /\ at < r.cap /\ last < r.cap
  BY <1>1, Constants
<1>3. q = [r EXCEPT !.cell = c]
  BY DEF Raised
<1>4. /\ \A j \in Cells : j < r.cap => r.cell[j] \in Elements \cup {NULL}
      /\ \A j \in Cells : ~(j < r.cap) => r.cell[j] = Junk
  BY <1>1 DEF RowOK
<1>5. /\ c[at] = v
      /\ \A j \in Cells : j < at \/ last < j => c[j] = r.cell[j]
      /\ \A j \in Cells : at < j /\ j <= last => c[j] = r.cell[j - 1]
  BY <1>1, <1>2
<1>6. \A j \in Cells : IF j < r.cap THEN c[j] \in Elements \cup {NULL} ELSE c[j] = Junk
  <2>. HIDE DEF c
  <2>. TAKE j \in Cells
  <2>1. CASE j = at
    BY <1>2, <1>5, <2>1
  <2>2. CASE j < at \/ last < j
    BY <1>4, <1>5, <2>2
  <2>3. CASE at < j /\ j <= last
    <3>1. j - 1 \in Cells /\ j - 1 < r.cap /\ j < r.cap
      BY <1>1, <1>2, <2>3, Constants
    <3>. QED
      BY <1>4, <1>5, <2>3, <3>1
  <2>. QED
    BY <1>1, <2>1, <2>2, <2>3
<1>7. c \in [Cells -> Held]
  BY <1>6 DEF Held
<1>. HIDE DEF c
<1>8. q \in Rows /\ q.size = r.size /\ q.cap = r.cap /\ q.cell = c
  BY <1>1, <1>3, <1>7 DEF Rows
<1>9. RowOK(q)
  BY <1>1, <1>6, <1>8 DEF RowOK
<1>10. Clean(r) => Clean(q)
  <2>. SUFFICES ASSUME Clean(r), NEW j \in Cells, r.size <= j, j < r.cap
                PROVE  c[j] = NULL
    BY <1>8 DEF Clean
  <2>1. last < j
    BY <1>1
  <2>. QED
    BY <1>5, <2>1 DEF Clean
<1>. QED
  BY <1>2, <1>5, <1>8, <1>9, <1>10

LEMMA InsertFacts ==
  ASSUME NEW s, Sound(s), NEW x \in Arrays, NEW i \in Nat,
         NEW v \in Elements \cup {NULL},
         NEW t, t = InsertAbove(s, x, i, v)
  PROVE  /\ Sound(t)
         /\ s.exhausted => t.exhausted
         /\ ~t.exhausted => t.lost = s.lost
         /\ \A y \in Arrays : y # x => t.ar[y] = s.ar[y]
         /\ Clean(s.ar[x]) => Clean(t.ar[x])
         /\ Fits(s.ar[x], s.ar[x].size + 1) /\ i <= s.ar[x].size =>
              /\ t.ar[x].size = s.ar[x].size + 1
              /\ \A j \in Cells : j <= s.ar[x].size =>
                   t.ar[x].cell[j] = IF j < i THEN s.ar[x].cell[j]
                                     ELSE IF j = i THEN v ELSE s.ar[x].cell[j - 1]
<1>. DEFINE size == s.ar[x].size
            full == [Lose(s, At(s, x, Size(s, x) - 1)) EXCEPT !.exhausted = TRUE]
            p    == IF Fits(s.ar[x], size + 1) THEN PutUnsafe(s, x, size, JNull) ELSE full
            last == p.ar[x].size - 1
            at   == IF i < last THEN i ELSE last
            q    == Raised(p.ar[x], at, last, v)
            s1   == WithRow(p, x, q)
<1>1. /\ Typed(s) /\ s \in States /\ RowOK(s.ar[x])
      /\ size \in Nat /\ s.ar[x].cap \in Nat /\ size <= s.ar[x].cap
      /\ s.ar[x].cap <= MaxCells /\ 1 <= s.ar[x].cap
  BY Constants, SMTT(40) DEF Sound, Typed, RowOK, Rows
<1>2. t = Gain(s1, v)
  BY DEF InsertAbove, Size, WithRow
<1>. HIDE DEF size
<1>3. CASE Fits(s.ar[x], size + 1)
  <2>1. p = PutUnsafe(s, x, size, JNull)
    BY <1>3
  <2>. HIDE DEF p
  <2>2. /\ Sound(p) /\ p.lost = s.lost /\ p.exhausted = s.exhausted
        /\ \A y \in Arrays : y # x => p.ar[y] = s.ar[y]
        /\ p.ar[x].size = size + 1 /\ size \in Cells /\ p.ar[x].cell[size] = JNull
        /\ \A j \in Cells : j # size =>
             IF j < s.ar[x].cap THEN p.ar[x].cell[j] = s.ar[x].cell[j]
             ELSE p.ar[x].cell[j] \in {NULL, Junk}
        /\ Clean(s.ar[x]) => Clean(p.ar[x])
    BY <1>1, <1>3, <2>1, PutFacts, Constants DEF size
  <2>3. /\ Typed(p) /\ p \in States /\ RowOK(p.ar[x])
        /\ last = size /\ at \in Nat /\ at <= size /\ (i <= size => at = i)
    BY <1>1, <2>2 DEF Sound, Typed
  <2>. HIDE DEF q, at, last
  <2>4. /\ RowOK(q) /\ q.size = size + 1 /\ at \in Cells /\ q.cell[at] = v
        /\ \A j \in Cells : j < at \/ size < j => q.cell[j] = p.ar[x].cell[j]
        /\ \A j \in Cells : at < j /\ j <= size => q.cell[j] = p.ar[x].cell[j - 1]
        /\ Clean(p.ar[x]) => Clean(q)
    BY <1>1, <2>2, <2>3, RaisedFacts, SMTT(40) DEF q
  <2>5. /\ s1 \in States /\ s1.ar[x] = q /\ s1.refs = p.refs /\ s1.lost = s.lost
        /\ s1.exhausted = s.exhausted
        /\ \A y \in Arrays : y # x => s1.ar[y] = s.ar[y]
    BY <2>2, <2>3, <2>4, WithRowFacts DEF RowOK
  <2>. HIDE DEF s1
  <2>6. /\ t \in States /\ t.ar = s1.ar /\ t.lost = s.lost /\ t.exhausted = s.exhausted
        /\ \A u \in Values : t.refs[u] = p.refs[u] + Is(v, u)
    BY <1>2, <2>5, GainFacts
  <2>7. Typed(t)
    BY <1>1, <2>4, <2>5, <2>6 DEF Typed
  <2>8. Turned(t.ar, p.ar, x, at, size)
    <3>1. \A y \in Arrays, j \in Cells :
            y # x \/ j < at \/ size < j => p.ar[y].cell[j] = t.ar[y].cell[j]
      BY <2>2, <2>4, <2>5, <2>6
    <3>2. \A j \in Cells : at < j /\ j <= size => p.ar[x].cell[j - 1] = t.ar[x].cell[j]
      BY <2>4, <2>5, <2>6
    <3>. QED
      BY <3>1, <3>2 DEF Turned
  <2>9. \A u \in Values : t.refs[u] - t.lost[u]
          = p.refs[u] - p.lost[u] - Is(p.ar[x].cell[size], u) + Is(t.ar[x].cell[at], u)
    <3>. TAKE u \in Values
    <3>1. p.refs[u] \in Int /\ s.lost[u] \in Int /\ Is(v, u) \in Int
      BY <1>1, <2>3 DEF States, Is
    <3>2. Is(p.ar[x].cell[size], u) = 0 /\ t.ar[x].cell[at] = v
      BY <2>2, <2>4, <2>5, <2>6, Constants DEF Is
    <3>. QED
      BY <2>2, <2>6, <3>1, <3>2
  <2>10. Sound(t)
    BY <2>2, <2>3, <2>4, <2>7, <2>8, <2>9, RiseOwned
  <2>11. ASSUME i <= size, NEW j \in Cells, j <= size
         PROVE  q.cell[j] = IF j < i THEN s.ar[x].cell[j]
                            ELSE IF j = i THEN v ELSE s.ar[x].cell[j - 1]
    <3>1. j \in Nat /\ at = i
      BY <2>3, <2>11, Constants
    <3>2. CASE j < i
      <4>1. j # size /\ j < s.ar[x].cap
        BY <1>1, <2>11, <3>1, <3>2
      <4>. QED
        BY <2>2, <2>4, <3>1, <3>2, <4>1
    <3>3. CASE j = i
      BY <2>4, <3>1, <3>3
    <3>4. CASE i < j
      <4>1. j - 1 \in Cells /\ j - 1 # size /\ j - 1 < s.ar[x].cap
        BY <1>1, <2>11, <3>1, <3>4, Constants
      <4>. QED
        BY <2>2, <2>4, <2>11, <3>1, <3>4, <4>1
    <3>. QED
      BY <3>1, <3>2, <3>3, <3>4
  <2>12. \/ ~(i <= size)
         \/ /\ t.ar[x].size = size + 1
            /\ \A j \in Cells : j <= size =>
                 t.ar[x].cell[j] = IF j < i THEN s.ar[x].cell[j]
                                   ELSE IF j = i THEN v ELSE s.ar[x].cell[j - 1]
    BY <2>4, <2>5, <2>6, <2>11
  <2>. QED
    BY <2>2, <2>4, <2>5, <2>6, <2>10, <2>12 DEF size
<1>4. CASE ~Fits(s.ar[x], size + 1)
  <2>1. p = full /\ size = s.ar[x].cap /\ size >= 1
    BY <1>1, <1>4 DEF Fits
  <2>. DEFINE hi == size - 1
              w  == s.ar[x].cell[hi]
  <2>2. hi \in Nat /\ hi \in Cells /\ hi < s.ar[x].size
    BY <1>1, <2>1, Constants DEF size
  <2>3. /\ p \in States /\ p.ar = s.ar /\ p.refs = s.refs /\ p.exhausted = TRUE
        /\ \A u \in Values : p.lost[u] = s.lost[u] + Is(w, u)
    <3>. DEFINE l == Lose(s, w)
    <3>1. p = [l EXCEPT !.exhausted = TRUE]
      BY <2>1 DEF At, Size, size
    <3>2. /\ l \in States /\ l.ar = s.ar /\ l.refs = s.refs
          /\ \A u \in Values : l.lost[u] = s.lost[u] + Is(w, u)
      BY <1>1, LoseFacts
    <3>. HIDE DEF l, p
    <3>. QED
      BY <3>1, <3>2 DEF States
  <2>. HIDE DEF p
  <2>4. last = hi /\ at \in Nat /\ at <= hi
    BY <1>1, <2>2, <2>3 DEF size
  <2>. HIDE DEF q, at, last, hi, w
  <2>5. /\ RowOK(q) /\ at \in Cells /\ q.cell[at] = v
        /\ \A j \in Cells : j < at \/ hi < j => q.cell[j] = s.ar[x].cell[j]
        /\ \A j \in Cells : at < j /\ j <= hi => q.cell[j] = s.ar[x].cell[j - 1]
        /\ Clean(s.ar[x]) => Clean(q)
    BY <1>1, <2>2, <2>3, <2>4, RaisedFacts DEF q
  <2>6. /\ s1 \in States /\ s1.ar[x] = q /\ s1.refs = s.refs /\ s1.lost = p.lost
        /\ s1.exhausted = TRUE
        /\ \A y \in Arrays : y # x => s1.ar[y] = s.ar[y]
    BY <2>3, <2>5, WithRowFacts DEF RowOK
  <2>. HIDE DEF s1
  <2>7. /\ t \in States /\ t.ar = s1.ar /\ t.lost = p.lost /\ t.exhausted = TRUE
        /\ \A u \in Values : t.refs[u] = s.refs[u] + Is(v, u)
    BY <1>2, <2>6, GainFacts
  <2>8. Typed(t)
    <3>1. \A u \in Values : t.lost[u] >= 0
      <4>. TAKE u \in Values
      <4>1. s.lost[u] \in Int /\ s.lost[u] >= 0 /\ Is(w, u) \in {0, 1}
        BY <1>1 DEF Typed, States, Is
      <4>. QED
        BY <2>3, <2>7, <4>1
    <3>. QED
      BY <1>1, <2>5, <2>6, <2>7, <3>1 DEF Typed
  <2>9. Turned(t.ar, s.ar, x, at, hi)
    <3>1. \A y \in Arrays, j \in Cells :
            y # x \/ j < at \/ hi < j => s.ar[y].cell[j] = t.ar[y].cell[j]
      BY <2>5, <2>6, <2>7
    <3>2. \A j \in Cells : at < j /\ j <= hi => s.ar[x].cell[j - 1] = t.ar[x].cell[j]
      BY <2>5, <2>6, <2>7
    <3>. QED
      BY <3>1, <3>2 DEF Turned
  <2>10. \A u \in Values : t.refs[u] - t.lost[u]
           = s.refs[u] - s.lost[u] - Is(s.ar[x].cell[hi], u) + Is(t.ar[x].cell[at], u)
    <3>. TAKE u \in Values
    <3>1. s.refs[u] \in Int /\ s.lost[u] \in Int /\ Is(v, u) \in Int /\ Is(w, u) \in Int
      BY <1>1 DEF States, Is
    <3>2. s.ar[x].cell[hi] = w /\ t.ar[x].cell[at] = v
      BY <2>5, <2>6, <2>7 DEF w
    <3>. QED
      BY <2>3, <2>7, <3>1, <3>2
  <2>11. Sound(t)
    BY <2>2, <2>4, <2>5, <2>8, <2>9, <2>10, RiseOwned
  <2>. QED
    BY <1>4, <2>5, <2>6, <2>7, <2>11 DEF size
<1>. QED
  BY <1>3, <1>4

(* A new array holds no values. *)
LEMMA NewFacts ==
  ASSUME NEW hint \in Nat
  PROVE  /\ RowOK(New(hint)) /\ Clean(New(hint)) /\ New(hint).size = 0
         /\ \A i \in Cells : New(hint).cell[i] \notin Values
<1>. DEFINE c == [i \in Cells |-> IF i < Bucket THEN NULL ELSE Junk]
            r == [size |-> 0, cap |-> Bucket, cell |-> c]
<1>1. New(hint) = Expand(r, hint)
  BY DEF New
<1>2. c \in [Cells -> Held] /\ \A i \in Cells : c[i] = IF i < Bucket THEN NULL ELSE Junk
  BY DEF Held
<1>. HIDE DEF c
<1>3. r \in Rows /\ r.size = 0 /\ r.cap = Bucket /\ r.cell = c
  BY <1>2, Constants DEF Rows
<1>. HIDE DEF r
<1>4. RowOK(r) /\ Clean(r)
  BY <1>2, <1>3, Constants DEF RowOK, Clean
<1>5. /\ RowOK(Expand(r, hint)) /\ Clean(Expand(r, hint)) /\ Expand(r, hint).size = r.size
      /\ \A i \in Cells : IF i < r.cap THEN Expand(r, hint).cell[i] = r.cell[i]
                          ELSE Expand(r, hint).cell[i] \in {NULL, Junk}
  BY <1>4, ExpandFacts
<1>6. \A i \in Cells : Expand(r, hint).cell[i] \notin Values
  BY <1>2, <1>3, <1>5, Constants
<1>. QED
  BY <1>1, <1>3, <1>5, <1>6

(* The cells of x among C that hold v: as positions they are as many. *)
LEMMA RowPlaces ==
  ASSUME NEW x, NEW D \in SUBSET Cells
  PROVE  LET P == {c \in {x} \X Cells : c[2] \in D}
         IN  /\ IsFiniteSet(P) /\ Cardinality(P) = Cardinality(D)
             /\ Cardinality(D) \in Nat
<1>. DEFINE P == {c \in {x} \X Cells : c[2] \in D}
            f == [i \in D |-> <<x, i>>]
<1>1. IsFiniteSet(D)
  <2>1. IsFiniteSet(Cells)
    BY FS_Interval, ArrayConstants DEF Cells
  <2>. HIDE DEF Cells
  <2>. QED
    BY <2>1, FS_Subset
<1>2. f \in [D -> P]
  OBVIOUS
<1>3. \A i, j \in D : f[i] = f[j] => i = j
  OBVIOUS
<1>4. \A p \in P : \E i \in D : f[i] = p
  <2>. TAKE p \in P
  <2>1. p[2] \in D /\ p = <<x, p[2]>>
    OBVIOUS
  <2>. QED
    BY <2>1
<1>. HIDE DEF f, P
<1>5. ExistsBijection(D, P)
  BY <1>2, <1>3, <1>4, Fun_IsBij DEF ExistsBijection
<1>6. IsFiniteSet(P) /\ Cardinality(P) = Cardinality(D) /\ Cardinality(D) \in Nat
  BY <1>1, <1>5, FS_Bijection, FS_CardinalityType
<1>. QED
  BY <1>6 DEF P

(* An array is destroyed, and a new one takes its place. *)
Renewed(s, x) == [Destroyed(s, x) EXCEPT !.ar[x] = New(0)]

LEMMA RenewFacts ==
  ASSUME NEW s, Sound(s), NEW x \in Arrays,
         NEW t, t = Renewed(s, x)
  PROVE  /\ Sound(t) /\ t.exhausted = s.exhausted
         /\ \A y \in Arrays : y # x => t.ar[y] = s.ar[y]
         /\ Clean(t.ar[x]) /\ t.ar[x].size = 0
         /\ Clean(s.ar[x]) => \A v \in Values : t.lost[v] = s.lost[v]
<1>. DEFINE r        == s.ar[x]
            inside   == {i \in Cells : i < r.size}
            outside  == {i \in Cells : r.size <= i /\ i < r.cap}
            In(v)    == {i \in inside : r.cell[i] = v}
            Out(v)   == {i \in outside : r.cell[i] = v}
            owned    == [v \in Values |-> s.refs[v] - Cardinality(In(v))]
            gone     == [v \in Values |-> s.lost[v] + Cardinality(Out(v))]
            d        == [s EXCEPT !.refs = owned, !.lost = gone]
<1>1. /\ Typed(s) /\ s \in States /\ RowOK(r)
      /\ r.size \in Nat /\ r.cap \in Nat /\ r.size <= r.cap
      /\ \A j \in Cells : j \in Nat
  BY Constants DEF Sound, Typed, RowOK, Rows
<1>2. d = Destroyed(s, x)
  BY DEF Destroyed, Size, At
<1>3. \A v : /\ In(v) \in SUBSET Cells /\ Cardinality(In(v)) \in Nat
             /\ Out(v) \in SUBSET Cells /\ Cardinality(Out(v)) \in Nat
  <2>. TAKE v
  <2>1. In(v) \in SUBSET Cells /\ Out(v) \in SUBSET Cells
    OBVIOUS
  <2>. HIDE DEF In, Out
  <2>. QED
    BY <2>1, RowPlaces
<1>. HIDE DEF In, Out
<1>4. /\ owned \in [Values -> Int] /\ \A v \in Values : owned[v] = s.refs[v] - Cardinality(In(v))
      /\ gone \in [Values -> Int] /\ \A v \in Values : gone[v] = s.lost[v] + Cardinality(Out(v))
  BY <1>1, <1>3 DEF States
<1>. HIDE DEF owned, gone
<1>5. /\ d \in States /\ d.ar = s.ar /\ d.refs = owned /\ d.lost = gone
      /\ d.exhausted = s.exhausted
  BY <1>1, <1>4 DEF States
<1>. DEFINE q == New(0)
<1>6. t = WithRow(d, x, q)
  BY <1>2 DEF WithRow, Renewed
<1>. HIDE DEF d
<1>7. RowOK(q) /\ Clean(q) /\ q.size = 0 /\ \A i \in Cells : q.cell[i] \notin Values
  BY NewFacts
<1>. HIDE DEF q
<1>8. /\ t \in States /\ t.ar[x] = q /\ t.refs = owned /\ t.lost = gone
      /\ t.exhausted = s.exhausted
      /\ \A y \in Arrays : y # x => t.ar[y] = s.ar[y]
  <2>1. q \in Rows
    BY <1>7 DEF RowOK
  <2>2. /\ WithRow(d, x, q) \in States
        /\ WithRow(d, x, q).ar[x] = q
        /\ \A y \in Arrays : y # x => WithRow(d, x, q).ar[y] = d.ar[y]
        /\ WithRow(d, x, q).refs = d.refs
        /\ WithRow(d, x, q).lost = d.lost
        /\ WithRow(d, x, q).exhausted = d.exhausted
    BY <1>5, <2>1, WithRowFacts
  <2>. QED
    BY <1>5, <1>6, <2>2
<1>9. Typed(t)
  <2>1. \A v \in Values : t.lost[v] >= 0
    <3>. TAKE v \in Values
    <3>1. s.lost[v] \in Int /\ s.lost[v] >= 0 /\ Cardinality(Out(v)) \in Nat
      BY <1>1, <1>3 DEF Typed, States
    <3>. QED
      BY <1>4, <1>8, <3>1
  <2>. QED
    BY <1>1, <1>7, <1>8, <2>1 DEF Typed
<1>10. ASSUME NEW v \in Values
       PROVE  t.refs[v] = Cardinality(Places(t.ar, v)) + t.lost[v]
  <2>. DEFINE S == Places(s.ar, v)
              T == Places(t.ar, v)
              I == {c \in {x} \X Cells : c[2] \in In(v)}
              O == {c \in {x} \X Cells : c[2] \in Out(v)}
  <2>1. /\ IsFiniteSet(I) /\ Cardinality(I) = Cardinality(In(v)) /\ Cardinality(I) \in Nat
        /\ IsFiniteSet(O) /\ Cardinality(O) = Cardinality(Out(v)) /\ Cardinality(O) \in Nat
    BY <1>3, RowPlaces
  <2>2. /\ IsFiniteSet(S) /\ Cardinality(S) \in Nat
        /\ IsFiniteSet(T) /\ Cardinality(T) \in Nat
    BY PlacesFinite
  <2>3. \A i \in Cells : r.cell[i] = v <=> i \in In(v) \cup Out(v)
    <3>1. \A i \in Cells : ~(i < r.cap) => r.cell[i] # v
      BY <1>1, Constants DEF RowOK
    <3>. QED
      BY <1>1, <3>1 DEF In, Out
  <2>4. In(v) \cap Out(v) = {}
    BY <1>1 DEF In, Out
  <2>5. S = (T \cup I) \cup O
    <3>1. ASSUME NEW c \in S
          PROVE  c \in (T \cup I) \cup O
      <4>1. c \in Arrays \X Cells /\ s.ar[c[1]].cell[c[2]] = v /\ c[1] \in Arrays /\ c[2] \in Cells
        BY DEF Places
      <4>2. CASE c[1] = x
        <5>1. c \in {x} \X Cells /\ c[2] \in In(v) \cup Out(v)
          BY <2>3, <4>1, <4>2
        <5>. QED
          BY <5>1
      <4>3. CASE c[1] # x
        BY <1>8, <4>1, <4>3 DEF Places
      <4>. QED
        BY <4>2, <4>3
    <3>2. ASSUME NEW c \in T
          PROVE  c \in S
      <4>1. c \in Arrays \X Cells /\ t.ar[c[1]].cell[c[2]] = v /\ c[1] \in Arrays /\ c[2] \in Cells
        BY DEF Places
      <4>2. c[1] # x
        BY <1>7, <1>8, <4>1
      <4>. QED
        BY <1>8, <4>1, <4>2 DEF Places
    <3>3. ASSUME NEW c \in I \cup O
          PROVE  c \in S
      <4>1. c \in {x} \X Cells /\ c[2] \in Cells /\ c[1] = x /\ c[2] \in In(v) \cup Out(v)
        OBVIOUS
      <4>2. s.ar[x].cell[c[2]] = v
        BY <2>3, <4>1
      <4>. QED
        BY <4>1, <4>2 DEF Places
    <3>. QED
      BY <3>1, <3>2, <3>3
  <2>6. T \cap I = {} /\ (T \cup I) \cap O = {}
    <3>1. \A c \in T : c[1] # x
      BY <1>7, <1>8 DEF Places
    <3>2. \A c \in I \cup O : c[1] = x
      OBVIOUS
    <3>. QED
      BY <2>4, <3>1, <3>2
  <2>. HIDE DEF S, T, I, O
  <2>7. IsFiniteSet(T \cup I) /\ Cardinality(T \cup I) = Cardinality(T) + Cardinality(I)
    <3>1. Cardinality(T \cap I) = 0
      BY <2>6, FS_EmptySet
    <3>2. /\ IsFiniteSet(T \cup I)
          /\ Cardinality(T \cup I) = Cardinality(T) + Cardinality(I) - Cardinality(T \cap I)
      BY <2>1, <2>2, FS_Union
    <3>. QED
      BY <2>1, <2>2, <3>1, <3>2
  <2>8. Cardinality(S) = Cardinality(T) + Cardinality(I) + Cardinality(O)
    <3>1. Cardinality((T \cup I) \cap O) = 0
      BY <2>6, FS_EmptySet
    <3>2. Cardinality((T \cup I) \cup O)
            = Cardinality(T \cup I) + Cardinality(O) - Cardinality((T \cup I) \cap O)
      BY <2>1, <2>7, FS_Union
    <3>. QED
      BY <2>1, <2>2, <2>5, <2>7, <3>1, <3>2
  <2>9. s.refs[v] = Cardinality(S) + s.lost[v]
    BY DEF Sound, Owned, S
  <2>10. s.refs[v] \in Int /\ s.lost[v] \in Int
    BY <1>1 DEF States
  <2>. QED
    BY <1>4, <1>8, <2>1, <2>2, <2>8, <2>9, <2>10 DEF T
<1>11. Clean(r) => \A v \in Values : t.lost[v] = s.lost[v]
  <2>. SUFFICES ASSUME Clean(r), NEW v \in Values
                PROVE  t.lost[v] = s.lost[v]
    OBVIOUS
  <2>1. Out(v) = {}
    BY <1>1, Constants DEF Out, Clean
  <2>2. Cardinality(Out(v)) = 0 /\ s.lost[v] \in Int
    BY <1>1, <2>1, FS_EmptySet DEF States
  <2>. QED
    BY <1>4, <1>8, <2>2
<1>. QED
  BY <1>7, <1>8, <1>9, <1>10, <1>11 DEF Sound, Owned

-------------------------------------------------------------------------------
(* The loops of a splice.  The state after the iterations before hi is       *)
(* defined by recursion; that it exists is shown for one iteration at a time. *)

LoopSteps(loop, c, s, lo, f, m) ==
  f = [d \in lo .. m |-> IF d = lo THEN s ELSE Iteration(loop, c, f[d - 1], d - 1)]

LEMMA LoopStepsExist ==
  ASSUME NEW loop, NEW c, NEW s, NEW lo \in Nat, NEW m \in Nat, lo <= m
  PROVE  \E f : LoopSteps(loop, c, s, lo, f, m)
<1>. DEFINE T == {k \in Nat : lo <= k /\ ~ \E f : LoopSteps(loop, c, s, lo, f, k)}
<1>1. SUFFICES ASSUME T # {} PROVE FALSE
  OBVIOUS
<1>2. PICK k \in T : \A j \in T : ~(j < k)
  BY <1>1, LeastOf
<1>3. k \in Nat /\ lo <= k /\ ~ \E f : LoopSteps(loop, c, s, lo, f, k)
  BY <1>2
<1>4. CASE k = lo
  <2>. DEFINE f == [d \in lo .. lo |-> s]
  <2>1. LoopSteps(loop, c, s, lo, f, lo)
    BY DEF LoopSteps
  <2>. QED
    BY <1>3, <1>4, <2>1
<1>5. CASE k # lo
  <2>1. k - 1 \in Nat /\ lo <= k - 1 /\ k - 1 < k
    BY <1>3, <1>5
  <2>2. PICK f : LoopSteps(loop, c, s, lo, f, k - 1)
    BY <1>2, <2>1
  <2>. DEFINE g == [d \in lo .. k |-> IF d = k THEN Iteration(loop, c, f[k - 1], k - 1)
                                      ELSE f[d]]
  <2>3. \A d \in lo .. k - 1 :
          f[d] = IF d = lo THEN s ELSE Iteration(loop, c, f[d - 1], d - 1)
    BY <2>2 DEF LoopSteps
  <2>4. \A d \in lo .. k :
          g[d] = IF d = lo THEN s ELSE Iteration(loop, c, g[d - 1], d - 1)
    <3>. TAKE d \in lo .. k
    <3>1. CASE d = k
      BY <1>3, <1>5, <2>1, <3>1
    <3>2. CASE d # k /\ d # lo
      <4>1. d \in lo .. k - 1 /\ d - 1 \in lo .. k /\ d - 1 # k
        BY <1>3, <3>2
      <4>. QED
        BY <2>3, <3>2, <4>1
    <3>3. CASE d # k /\ d = lo
      BY <1>3, <2>1, <2>3, <3>3
    <3>. QED
      BY <3>1, <3>2, <3>3
  <2>5. LoopSteps(loop, c, s, lo, g, k)
    BY <2>4 DEF LoopSteps
  <2>. QED
    BY <1>3, <2>5
<1>. QED
  BY <1>4, <1>5

LEMMA LoopStepsChosen ==
  ASSUME NEW loop, NEW c, NEW s, NEW lo \in Nat, NEW hi \in Nat, lo <= hi
  PROVE  \E f : LoopSteps(loop, c, s, lo, f, hi) /\ Loop(loop, c, s, lo, hi) = f[hi]
<1>. DEFINE f == CHOOSE after : after = [d \in lo .. hi |->
                    IF d = lo THEN s ELSE Iteration(loop, c, after[d - 1], d - 1)]
<1>1. \E after : LoopSteps(loop, c, s, lo, after, hi)
  BY LoopStepsExist
<1>2. PICK g : g = [d \in lo .. hi |->
                      IF d = lo THEN s ELSE Iteration(loop, c, g[d - 1], d - 1)]
  BY <1>1, Zenon DEF LoopSteps
<1>3. f = [d \in lo .. hi |-> IF d = lo THEN s ELSE Iteration(loop, c, f[d - 1], d - 1)]
  BY <1>2, Zenon
<1>4. Loop(loop, c, s, lo, hi) = f[hi]
  BY Zenon DEF Loop
<1>. QED
  BY <1>3, <1>4, Zenon DEF LoopSteps

(* What holds before a loop and is kept by every iteration holds after it; J[d]
   are the states that are possible before the iteration for d. *)
LEMMA LoopKeeps ==
  ASSUME NEW loop, NEW c, NEW s, NEW lo \in Nat, NEW hi \in Nat, lo <= hi,
         NEW J, s \in J[lo],
         \A d \in lo .. hi - 1 : \A t \in J[d] : Iteration(loop, c, t, d) \in J[d + 1]
  PROVE  Loop(loop, c, s, lo, hi) \in J[hi]
<1>1. PICK f : LoopSteps(loop, c, s, lo, f, hi) /\ Loop(loop, c, s, lo, hi) = f[hi]
  BY LoopStepsChosen
<1>2. \A d \in lo .. hi :
        f[d] = IF d = lo THEN s ELSE Iteration(loop, c, f[d - 1], d - 1)
  BY <1>1 DEF LoopSteps
<1>. DEFINE T == {d \in lo .. hi : f[d] \notin J[d]}
<1>3. CASE T = {}
  BY <1>1, <1>3
<1>4. CASE T # {}
  <2>1. PICK d \in T : \A j \in T : ~(j < d)
    <3>1. T \subseteq Nat
      OBVIOUS
    <3>. HIDE DEF T
    <3>. QED
      BY <1>4, <3>1, LeastOf
  <2>2. d \in lo .. hi /\ f[d] \notin J[d]
    BY <2>1
  <2>3. d # lo
    BY <1>2, <2>2
  <2>4. d - 1 \in lo .. hi - 1 /\ d - 1 \in lo .. hi /\ d - 1 < d /\ (d - 1) + 1 = d
    BY <2>2, <2>3
  <2>5. f[d - 1] \in J[d - 1]
    BY <2>1, <2>4
  <2>6. f[d] = Iteration(loop, c, f[d - 1], d - 1)
    BY <1>2, <2>2, <2>3
  <2>7. Iteration(loop, c, f[d - 1], d - 1) \in J[(d - 1) + 1]
    BY <2>4, <2>5
  <2>. QED
    BY <2>2, <2>4, <2>6, <2>7
<1>. QED
  BY <1>3, <1>4

(* What a splice has done to s, in t, when d elements of c.y have been read. *)
Mid(s, t, c, d) ==
  /\ Sound(t)
  /\ s.exhausted => t.exhausted
  /\ ~t.exhausted => t.lost = s.lost
  /\ \A z \in Arrays : z # c.x /\ z # c.y => t.ar[z] = s.ar[z]
  /\ Clean(s.ar[c.x]) => Clean(t.ar[c.x])
  /\ t.ar[c.y].cap = s.ar[c.y].cap
  /\ t.ar[c.y].size = IF c.mode = "TRANSFER" THEN s.ar[c.y].size - d ELSE s.ar[c.y].size
  /\ \A j \in Cells : t.ar[c.y].cell[j] = IF c.mode = "TRANSFER" /\ c.b <= j /\ j < c.b + d
                                          THEN NULL ELSE s.ar[c.y].cell[j]

(* Where the call is kept as jobject.h has it: d elements of c.y are in c.x, from
   c.i on, in the place of z elements of its own. *)
Aimed(s, t, c, d, z) ==
  /\ t.ar[c.x].size = s.ar[c.x].size + d - z
  /\ \A j \in Cells : j < t.ar[c.x].size =>
       t.ar[c.x].cell[j] = IF j < c.i THEN s.ar[c.x].cell[j]
                           ELSE IF j < c.i + d THEN s.ar[c.y].cell[c.b + (j - c.i)]
                           ELSE s.ar[c.x].cell[j - d + z]

(* A call that can be spliced, of whose source d elements have been read. *)
Spliceable(s, c, d) ==
  /\ Sound(s)
  /\ c.x \in Arrays /\ c.y \in Arrays /\ c.x # c.y
  /\ c.i \in Nat /\ c.k \in Nat /\ c.b \in Nat /\ d \in Nat

(* The source gives up or shares one element more. *)
LEMMA GivenFacts ==
  ASSUME NEW s, NEW c, NEW d, Spliceable(s, c, d), c.b + d < s.ar[c.y].size,
         NEW t, Mid(s, t, c, d),
         NEW g, g = Give(t, c.y, c.b + d, c.mode)
  PROVE  /\ Mid(s, g, c, d + 1) /\ g.ar[c.x] = t.ar[c.x]
         /\ At(t, c.y, c.b + d) \in Elements \cup {NULL}
         /\ At(t, c.y, c.b + d) = s.ar[c.y].cell[c.b + d]
<1>. DEFINE y == c.y
            j == c.b + d
<1>1. /\ d \in Nat /\ c.b \in Nat /\ j \in Nat /\ y \in Arrays /\ c.x \in Arrays /\ c.x # y
      /\ j < s.ar[y].size /\ \A a \in Cells : a \in Nat
  BY Constants, SMTT(40) DEF Spliceable
<1>2. /\ Sound(t) /\ RowOK(t.ar[y]) /\ RowOK(s.ar[y]) /\ s.ar[y].size \in Nat
      /\ s.ar[y].cap \in Nat /\ s.ar[y].size <= s.ar[y].cap /\ s.ar[y].cap <= MaxCells
  BY <1>1 DEF Mid, Spliceable, Sound, Typed, RowOK, Rows
<1>3. j \in Cells /\ j < t.ar[y].cap /\ t.ar[y].cap = s.ar[y].cap
  BY <1>1, <1>2, Constants, SMTT(40) DEF Mid
<1>4. At(t, y, j) \in Elements \cup {NULL} /\ At(t, y, j) = s.ar[y].cell[j]
  <2>1. At(t, y, j) \in Elements \cup {NULL}
    BY <1>2, <1>3 DEF At, RowOK
  <2>2. ~(j < c.b + d)
    BY <1>1
  <2>. HIDE DEF j
  <2>. QED
    BY <1>3, <2>1, <2>2 DEF At, Mid
<1>5. CASE c.mode = "TRANSFER"
  <2>1. t.ar[y].size = s.ar[y].size - d /\ t.ar[y].size >= 1
    BY <1>1, <1>2, <1>5 DEF Mid
  <2>. HIDE DEF j
  <2>2. /\ Sound(g) /\ g.lost = t.lost /\ g.exhausted = t.exhausted
        /\ \A z \in Arrays : z # y => g.ar[z] = t.ar[z]
        /\ g.ar[y].size = t.ar[y].size - 1 /\ g.ar[y].cap = t.ar[y].cap
        /\ g.ar[y].cell[j] = NULL
        /\ \A a \in Cells : a # j => g.ar[y].cell[a] = t.ar[y].cell[a]
    <3>1. g = Give(t, y, j, "TRANSFER")
      BY <1>5 DEF j
    <3>2. y \in Arrays /\ j \in Nat /\ Sound(t) /\ j < t.ar[y].cap /\ t.ar[y].size >= 1
      BY <1>1, <1>2, <1>3, <2>1, SMTT(40)
    <3>. HIDE DEF y
    <3>. QED
      BY <3>1, <3>2, GiveFacts
  <2>3. \A a \in Cells : g.ar[y].cell[a] = IF c.b <= a /\ a < c.b + (d + 1)
                                           THEN NULL ELSE s.ar[y].cell[a]
    <3>. TAKE a \in Cells
    <3>1. t.ar[y].cell[a] = IF c.b <= a /\ a < c.b + d THEN NULL ELSE s.ar[y].cell[a]
      BY <1>5 DEF Mid
    <3>2. a \in Nat /\ j = c.b + d
      BY <1>1, SMTT(40) DEF j
    <3>. QED
      BY <1>1, <2>2, <3>1, <3>2
  <2>4. g.ar[y].size = s.ar[y].size - (d + 1)
    BY <1>1, <1>2, <2>1, <2>2, SMTT(40)
  <2>5. g.ar[c.x] = t.ar[c.x] /\ \A z \in Arrays : z # c.x /\ z # y => g.ar[z] = s.ar[z]
    BY <1>1, <2>2, SMTT(40) DEF Mid
  <2>6. /\ s.exhausted => g.exhausted
        /\ ~g.exhausted => g.lost = s.lost
        /\ Clean(s.ar[c.x]) => Clean(g.ar[c.x])
    BY <2>2, <2>5, SMTT(40) DEF Mid
  <2>7. g.ar[y].cap = s.ar[y].cap
    BY <1>3, <2>2, SMTT(40)
  <2>8. Mid(s, g, c, d + 1)
    BY <1>5, <2>2, <2>3, <2>4, <2>5, <2>6, <2>7 DEF Mid
  <2>. QED
    BY <1>4, <2>5, <2>8 DEF j
<1>6. CASE c.mode # "TRANSFER"
  <2>1. g = t
    BY <1>6 DEF Give
  <2>2. Mid(s, t, c, d + 1)
    BY <1>6 DEF Mid
  <2>. QED
    BY <1>4, <2>1, <2>2
<1>. QED
  BY <1>5, <1>6

(* What an iteration does to c.x alone keeps Mid. *)
LEMMA MidKept ==
  ASSUME NEW s, NEW c, NEW d, Spliceable(s, c, d), NEW g, Mid(s, g, c, d),
         NEW t, Sound(t),
         g.exhausted => t.exhausted,
         ~t.exhausted => t.lost = g.lost,
         \A z \in Arrays : z # c.x => t.ar[z] = g.ar[z],
         Clean(g.ar[c.x]) => Clean(t.ar[c.x])
  PROVE  Mid(s, t, c, d)
<1>1. t.ar[c.y] = g.ar[c.y]
  BY DEF Spliceable
<1>2. \A z \in Arrays : z # c.x /\ z # c.y => t.ar[z] = s.ar[z]
  BY DEF Mid
<1>3. (s.exhausted => t.exhausted) /\ (~t.exhausted => t.lost = s.lost)
  BY DEF Mid
<1>. QED
  BY <1>1, <1>2, <1>3 DEF Mid

LEMMA OverwriteFacts ==
  ASSUME NEW s, NEW c, NEW d, Spliceable(s, c, d), c.b + d < s.ar[c.y].size,
         c.i + d < s.ar[c.x].size,
         NEW t, Mid(s, t, c, d), t.ar[c.x].size = s.ar[c.x].size,
         NEW u, u = Iteration("overwrite", c, t, d)
  PROVE  /\ Mid(s, u, c, d + 1) /\ u.ar[c.x].size = s.ar[c.x].size
         /\ Aimed(s, t, c, d, d) => Aimed(s, u, c, d + 1, d + 1)
<1>. DEFINE g == Give(t, c.y, c.b + d, c.mode)
            v == At(t, c.y, c.b + d)
            i == c.i + d
<1>1. u = PutUnsafe(g, c.x, i, v)
  BY DEF Iteration
<1>2. /\ Mid(s, g, c, d + 1) /\ g.ar[c.x] = t.ar[c.x]
      /\ v \in Elements \cup {NULL} /\ v = s.ar[c.y].cell[c.b + d]
  BY GivenFacts
<1>3. /\ c.x \in Arrays /\ i \in Nat /\ d \in Nat /\ Sound(g) /\ Spliceable(s, c, d + 1)
      /\ g.ar[c.x].size \in Nat /\ g.ar[c.x].cap \in Nat
      /\ g.ar[c.x].size <= g.ar[c.x].cap /\ i < g.ar[c.x].size
  <2>1. c.x \in Arrays /\ i \in Nat /\ d \in Nat /\ Spliceable(s, c, d + 1)
    BY SMTT(40) DEF Spliceable
  <2>2. Sound(g) /\ i < g.ar[c.x].size
    BY <1>2 DEF Mid
  <2>. HIDE DEF g, i
  <2>3. RowOK(g.ar[c.x])
    BY <2>1, <2>2 DEF Sound, Typed
  <2>. QED
    BY <2>1, <2>2, <2>3 DEF RowOK, Rows
<1>. HIDE DEF g, v, i
<1>4. Fits(g.ar[c.x], i + 1)
  BY SMTT(40), <1>3 DEF Fits
<1>5. /\ Sound(u) /\ u.lost = g.lost /\ u.exhausted = g.exhausted
      /\ \A y \in Arrays : y # c.x => u.ar[y] = g.ar[y]
      /\ u.ar[c.x].size = IF i >= g.ar[c.x].size THEN i + 1 ELSE g.ar[c.x].size
      /\ u.ar[c.x].cell[i] = v
      /\ \A j \in Cells : j # i =>
           IF j < g.ar[c.x].cap THEN u.ar[c.x].cell[j] = g.ar[c.x].cell[j]
           ELSE u.ar[c.x].cell[j] \in {NULL, Junk}
      /\ Clean(g.ar[c.x]) => Clean(u.ar[c.x])
  <2>. DEFINE x == c.x
              w == PutUnsafe(g, x, i, v)
  <2>1. x \in Arrays /\ i \in Nat /\ Sound(g) /\ Fits(g.ar[x], i + 1) /\ v \in Elements \cup {NULL}
    BY <1>2, <1>3, <1>4
  <2>. HIDE DEF x
  <2>2. /\ Sound(w) /\ w.lost = g.lost /\ w.exhausted = g.exhausted
        /\ \A y \in Arrays : y # x => w.ar[y] = g.ar[y]
        /\ w.ar[x].size = IF i >= g.ar[x].size THEN i + 1 ELSE g.ar[x].size
        /\ w.ar[x].cell[i] = v
        /\ \A j \in Cells : j # i =>
             IF j < g.ar[x].cap THEN w.ar[x].cell[j] = g.ar[x].cell[j]
             ELSE w.ar[x].cell[j] \in {NULL, Junk}
        /\ Clean(g.ar[x]) => Clean(w.ar[x])
    BY ONLY <2>1, PutFacts
  <2>. QED
    BY <1>1, <2>2 DEF x
<1>6. Mid(s, u, c, d + 1)
  BY <1>2, <1>3, <1>5, MidKept
<1>7. u.ar[c.x].size = s.ar[c.x].size
  BY <1>2, <1>3, <1>5
<1>8. ASSUME Aimed(s, t, c, d, d)
      PROVE  Aimed(s, u, c, d + 1, d + 1)
  <2>1. /\ c.i \in Nat /\ c.b \in Nat /\ d \in Nat /\ s.ar[c.x].size \in Nat /\ i = c.i + d
        /\ \A j \in Cells : j \in Nat
    BY <1>2, <1>3, Constants DEF Spliceable, i
  <2>2. u.ar[c.x].size = s.ar[c.x].size + (d + 1) - (d + 1)
    BY <1>7, <2>1
  <2>3. ASSUME NEW j \in Cells, j < u.ar[c.x].size
        PROVE  u.ar[c.x].cell[j]
                 = IF j < c.i THEN s.ar[c.x].cell[j]
                   ELSE IF j < c.i + (d + 1) THEN s.ar[c.y].cell[c.b + (j - c.i)]
                   ELSE s.ar[c.x].cell[j - (d + 1) + (d + 1)]
    <3>1. t.ar[c.x].cell[j] = IF j < c.i THEN s.ar[c.x].cell[j]
                              ELSE IF j < c.i + d THEN s.ar[c.y].cell[c.b + (j - c.i)]
                              ELSE s.ar[c.x].cell[j - d + d]
      BY <1>2, <1>7, <1>8, <2>3 DEF Aimed
    <3>2. CASE j = i
      <4>1. j - c.i = d
        BY <2>1, <3>2
      <4>. QED
        BY <1>2, <1>5, <2>1, <3>2, <4>1
    <3>3. CASE j # i
      <4>1. j < g.ar[c.x].cap /\ j \in Nat
        BY <1>2, <1>3, <1>7, <2>1, <2>3
      <4>2. u.ar[c.x].cell[j] = t.ar[c.x].cell[j]
        BY <1>2, <1>5, <3>3, <4>1
      <4>3. j - d + d = j - (d + 1) + (d + 1) /\ (j < c.i + d <=> j < c.i + (d + 1))
        BY <2>1, <3>3, <4>1
      <4>. QED
        BY <3>1, <4>2, <4>3
    <3>. QED
      BY <3>2, <3>3
  <2>. QED
    BY <2>2, <2>3 DEF Aimed
<1>. QED
  BY <1>6, <1>7, <1>8

LEMMA InsertionFacts ==
  ASSUME NEW s, NEW c, NEW d, Spliceable(s, c, d), c.b + d < s.ar[c.y].size,
         NEW t, Mid(s, t, c, d),
         NEW u, u = Iteration("insert", c, t, d)
  PROVE  /\ Mid(s, u, c, d + 1)
         /\ \A z \in Nat : /\ Aimed(s, t, c, d, z) /\ c.i + z <= s.ar[c.x].size
                          /\ s.ar[c.x].size + d - z < MaxCells
                          => Aimed(s, u, c, d + 1, z)
<1>. DEFINE g == Give(t, c.y, c.b + d, c.mode)
            v == At(t, c.y, c.b + d)
            i == c.i + d
<1>1. u = InsertAbove(g, c.x, i, v)
  BY DEF Iteration
<1>2. /\ Mid(s, g, c, d + 1) /\ g.ar[c.x] = t.ar[c.x]
      /\ v \in Elements \cup {NULL} /\ v = s.ar[c.y].cell[c.b + d]
  BY SMTT(40), GivenFacts
<1>3. /\ c.x \in Arrays /\ i \in Nat /\ Sound(g) /\ Spliceable(s, c, d + 1)
      /\ c.i \in Nat /\ c.b \in Nat /\ d \in Nat /\ i = c.i + d
  BY <1>2 DEF Spliceable, Mid
<1>. HIDE DEF g, v, i
<1>4. /\ Sound(u) /\ (g.exhausted => u.exhausted) /\ (~u.exhausted => u.lost = g.lost)
      /\ \A y \in Arrays : y # c.x => u.ar[y] = g.ar[y]
      /\ Clean(g.ar[c.x]) => Clean(u.ar[c.x])
      /\ Fits(g.ar[c.x], g.ar[c.x].size + 1) /\ i <= g.ar[c.x].size =>
           /\ u.ar[c.x].size = g.ar[c.x].size + 1
           /\ \A j \in Cells : j <= g.ar[c.x].size =>
                u.ar[c.x].cell[j] = IF j < i THEN g.ar[c.x].cell[j]
                                    ELSE IF j = i THEN v ELSE g.ar[c.x].cell[j - 1]
  <2>1. PICK x : x = c.x
    OBVIOUS
  <2>2. u = InsertAbove(g, x, i, v) /\ x \in Arrays
    BY <1>1, <1>3, <2>1
  <2>3. /\ Sound(u) /\ (g.exhausted => u.exhausted) /\ (~u.exhausted => u.lost = g.lost)
        /\ \A y \in Arrays : y # x => u.ar[y] = g.ar[y]
        /\ Clean(g.ar[x]) => Clean(u.ar[x])
        /\ Fits(g.ar[x], g.ar[x].size + 1) /\ i <= g.ar[x].size =>
             /\ u.ar[x].size = g.ar[x].size + 1
             /\ \A j \in Cells : j <= g.ar[x].size =>
                  u.ar[x].cell[j] = IF j < i THEN g.ar[x].cell[j]
                                    ELSE IF j = i THEN v ELSE g.ar[x].cell[j - 1]
    <3>1. Sound(g) /\ i \in Nat /\ v \in Elements \cup {NULL}
      BY <1>2, <1>3
    <3>. QED
      BY ONLY <2>2, <3>1, InsertFacts
  <2>. QED
    BY ONLY <2>1, <2>3
<1>5. ASSUME NEW z \in Nat, Aimed(s, t, c, d, z), c.i + z <= s.ar[c.x].size,
             s.ar[c.x].size + d - z < MaxCells
      PROVE  Aimed(s, u, c, d + 1, z)
  <2>. DEFINE m == s.ar[c.x].size
  <2>1. m \in Nat /\ MaxCells \in Nat /\ \A j \in Cells : j \in Nat
    BY <1>3, Constants DEF Spliceable, Sound, Typed, RowOK, Rows
  <2>2. t.ar[c.x].size = m + d - z
    BY <1>5 DEF Aimed
  <2>. HIDE DEF m
  <2>3. i <= m + d - z /\ m + d - z \in Nat /\ (m + d - z) + 1 <= MaxCells
        /\ (m + d - z) + 1 = m + (d + 1) - z
    BY <1>3, <1>5, <2>1 DEF m
  <2>4. Fits(g.ar[c.x], g.ar[c.x].size + 1) /\ i <= g.ar[c.x].size
    BY <1>2, <2>2, <2>3 DEF Fits
  <2>5. /\ u.ar[c.x].size = m + (d + 1) - z
        /\ \A j \in Cells : j <= m + d - z =>
             u.ar[c.x].cell[j] = IF j < i THEN t.ar[c.x].cell[j]
                                 ELSE IF j = i THEN v ELSE t.ar[c.x].cell[j - 1]
    BY <1>2, <1>4, <2>2, <2>3, <2>4
  <2>6. ASSUME NEW j \in Cells, j < u.ar[c.x].size
        PROVE  u.ar[c.x].cell[j]
                 = IF j < c.i THEN s.ar[c.x].cell[j]
                   ELSE IF j < c.i + (d + 1) THEN s.ar[c.y].cell[c.b + (j - c.i)]
                   ELSE s.ar[c.x].cell[j - (d + 1) + z]
    <3>1. j \in Nat /\ j <= m + d - z
      BY <1>3, <1>5, <2>1, <2>5, <2>6
    <3>2. CASE j < i
      <4>1. j < t.ar[c.x].size
        BY <2>2, <2>3, <3>1, <3>2, <1>3
      <4>2. t.ar[c.x].cell[j] = IF j < c.i THEN s.ar[c.x].cell[j]
                                ELSE IF j < c.i + d THEN s.ar[c.y].cell[c.b + (j - c.i)]
                                ELSE s.ar[c.x].cell[j - d + z]
        BY <1>5, <4>1 DEF Aimed
      <4>3. j < c.i + d /\ j < c.i + (d + 1)
        BY <1>3, <3>1, <3>2
      <4>. QED
        BY <2>5, <3>1, <3>2, <4>2, <4>3
    <3>3. CASE j = i
      <4>1. j - c.i = d /\ ~(j < i) /\ ~(j < c.i) /\ j < c.i + (d + 1)
        BY <1>3, <3>3
      <4>. QED
        BY <1>2, <2>5, <3>1, <3>3, <4>1
    <3>4. CASE i < j
      <4>1. /\ j - 1 \in Cells /\ j - 1 < t.ar[c.x].size
            /\ ~(j - 1 < c.i) /\ ~(j - 1 < c.i + d) /\ ~(j < c.i) /\ ~(j < c.i + (d + 1))
            /\ (j - 1) - d + z = j - (d + 1) + z
        BY <1>3, <1>5, <2>1, <2>2, <2>3, <3>1, <3>4, Constants
      <4>2. t.ar[c.x].cell[j - 1] = s.ar[c.x].cell[j - (d + 1) + z]
        BY <1>5, <4>1 DEF Aimed
      <4>3. ~(j < i) /\ j # i
        BY <1>3, <3>1, <3>4
      <4>. QED
        BY <2>5, <3>1, <4>1, <4>2, <4>3
    <3>. QED
      BY <1>3, <3>1, <3>2, <3>3, <3>4
  <2>. QED
    BY <2>5, <2>6 DEF Aimed, m
<1>. QED
  BY <1>2, <1>3, <1>4, <1>5, MidKept

LEMMA RemovalFacts ==
  ASSUME NEW s, NEW c, NEW n, Spliceable(s, c, n), NEW d \in Nat,
         NEW t, Mid(s, t, c, n), c.i + c.k < t.ar[c.x].size,
         NEW u, u = Iteration("remove", c, t, d)
  PROVE  /\ Mid(s, u, c, n) /\ u.ar[c.x].size = t.ar[c.x].size - 1
         /\ \A z \in Nat : c.k = n /\ Aimed(s, t, c, n, z) => Aimed(s, u, c, n, z + 1)
<1>. DEFINE i == c.i + c.k
<1>1. u = RemoveUnsafe(t, c.x, i)
  BY DEF Iteration
<1>2. /\ c.x \in Arrays /\ i \in Nat /\ Sound(t) /\ i < t.ar[c.x].size
      /\ c.i \in Nat /\ n \in Nat /\ i = c.i + c.k
  BY DEF Spliceable, Mid
<1>. HIDE DEF i
<1>3. /\ Sound(u) /\ u.lost = t.lost /\ u.exhausted = t.exhausted
      /\ \A y \in Arrays : y # c.x => u.ar[y] = t.ar[y]
      /\ u.ar[c.x].size = t.ar[c.x].size - 1
      /\ \A j \in Cells : j < t.ar[c.x].size - 1 =>
           u.ar[c.x].cell[j] = IF j < i THEN t.ar[c.x].cell[j] ELSE t.ar[c.x].cell[j + 1]
      /\ Clean(t.ar[c.x]) => Clean(u.ar[c.x])
  BY <1>1, <1>2, RemoveFacts
<1>4. Mid(s, u, c, n)
  BY <1>3, MidKept
<1>5. ASSUME NEW z \in Nat, c.k = n, Aimed(s, t, c, n, z)
      PROVE  Aimed(s, u, c, n, z + 1)
  <2>. DEFINE m == s.ar[c.x].size
              l == t.ar[c.x].size
  <2>1. m \in Nat /\ l \in Nat /\ l <= MaxCells /\ \A j \in Cells : j \in Nat
    <3>1. RowOK(s.ar[c.x]) /\ RowOK(t.ar[c.x])
      BY <1>2 DEF Spliceable, Sound, Typed
    <3>. QED
      BY <3>1, Constants DEF RowOK, Rows
  <2>2. l = m + n - z
    BY <1>5 DEF Aimed
  <2>3. u.ar[c.x].size = l - 1
    BY <1>3
  <2>. HIDE DEF m, l
  <2>4. l - 1 = m + n - (z + 1)
    BY <1>2, <2>1, <2>2
  <2>5. ASSUME NEW j \in Cells, j < l - 1
        PROVE  u.ar[c.x].cell[j]
                 = IF j < c.i THEN s.ar[c.x].cell[j]
                   ELSE IF j < c.i + n THEN s.ar[c.y].cell[c.b + (j - c.i)]
                   ELSE s.ar[c.x].cell[j - n + (z + 1)]
    <3>1. /\ j \in Nat /\ j < l /\ j + 1 < l /\ j + 1 \in Cells
          /\ (j + 1) - n + z = j - n + (z + 1)
      BY <1>2, <2>1, <2>5, Constants
    <3>2. CASE j < i
      <4>1. j < c.i + n /\ u.ar[c.x].cell[j] = t.ar[c.x].cell[j]
        BY <1>2, <1>3, <1>5, <2>5, <3>2 DEF l
      <4>. QED
        BY <1>5, <3>1, <4>1 DEF Aimed, l
    <3>3. CASE ~(j < i)
      <4>1. /\ ~(j < c.i + n) /\ ~(j + 1 < c.i + n) /\ ~(j < c.i) /\ ~(j + 1 < c.i)
            /\ u.ar[c.x].cell[j] = t.ar[c.x].cell[j + 1]
        BY <1>2, <1>3, <1>5, <2>5, <3>1, <3>3 DEF l
      <4>2. t.ar[c.x].cell[j + 1] = s.ar[c.x].cell[(j + 1) - n + z]
        BY <1>5, <3>1, <4>1 DEF Aimed, l
      <4>. QED
        BY <3>1, <4>1, <4>2
    <3>. QED
      BY <3>2, <3>3
  <2>. QED
    BY <2>3, <2>4, <2>5 DEF Aimed, m
<1>. QED
  BY <1>3, <1>4, <1>5

(* Making room for what is inserted keeps it too. *)
LEMMA RoomKept ==
  ASSUME NEW s, NEW c, NEW d, Spliceable(s, c, d), NEW t, Mid(s, t, c, d),
         NEW m \in Nat, NEW u, u = WithRow(t, c.x, Expand(t.ar[c.x], m))
  PROVE  /\ Mid(s, u, c, d)
         /\ \A z : Aimed(s, t, c, d, z) => Aimed(s, u, c, d, z)
<1>1. c.x \in Arrays /\ Sound(t)
  BY DEF Spliceable, Mid
<1>2. PICK x : x = c.x
  OBVIOUS
<1>3. /\ Sound(u) /\ u.lost = t.lost /\ u.exhausted = t.exhausted
      /\ \A y \in Arrays : y # x => u.ar[y] = t.ar[y]
      /\ Clean(t.ar[x]) => Clean(u.ar[x])
      /\ u.ar[x] = Expand(t.ar[x], m)
  <2>1. x \in Arrays /\ u = WithRow(t, x, Expand(t.ar[x], m))
    BY <1>1, <1>2
  <2>. QED
    BY <1>1, <2>1, GrowFacts
<1>4. RowOK(t.ar[x]) /\ t.ar[x].size \in Nat /\ t.ar[x].cap \in Nat /\ t.ar[x].size <= t.ar[x].cap
  BY <1>1, <1>2 DEF Sound, Typed, RowOK, Rows
<1>5. /\ u.ar[x].size = t.ar[x].size
      /\ \A j \in Cells : j < t.ar[x].cap => u.ar[x].cell[j] = t.ar[x].cell[j]
  <2>1. PICK p : p = t.ar[x]
    OBVIOUS
  <2>2. /\ Expand(p, m).size = p.size
        /\ \A j \in Cells : IF j < p.cap THEN Expand(p, m).cell[j] = p.cell[j]
                            ELSE Expand(p, m).cell[j] \in {NULL, Junk}
    <3>1. RowOK(p)
      BY <1>4, <2>1
    <3>. QED
      BY ONLY <3>1, ExpandFacts
  <2>3. u.ar[x] = Expand(p, m)
    BY <1>3, <2>1
  <2>. QED
    BY <2>1, <2>2, <2>3
<1>6. ASSUME NEW j \in Cells, j < t.ar[x].size
      PROVE  u.ar[x].cell[j] = t.ar[x].cell[j]
  <2>1. j < t.ar[x].cap
    <3>1. j \in Nat
      BY SMTT(40), Constants
    <3>. QED
      BY <1>4, <1>6, <3>1
  <2>. QED
    BY <1>5, <2>1
<1>7. \A z : Aimed(s, t, c, d, z) => Aimed(s, u, c, d, z)
  BY <1>2, <1>5, <1>6 DEF Aimed
<1>. QED
  BY <1>2, <1>3, <1>7, MidKept

(* A whole splice of n = e - b elements. *)
LEMMA SpliceMid ==
  ASSUME NEW s, Sound(s), NEW x \in Arrays, NEW y \in Arrays, x # y,
         NEW i \in Nat, NEW r \in Nat, r = 0 \/ i + r <= s.ar[x].size,
         NEW b \in Nat, NEW e \in Nat, b < e, e <= s.ar[y].size, NEW mode,
         NEW n, n = e - b, NEW k, k = IF r < n THEN r ELSE n,
         NEW c, c = [x |-> x, i |-> i, k |-> k, y |-> y, b |-> b, mode |-> mode]
  PROVE  /\ Mid(s, Spliced(s, x, i, r, y, b, e, mode), c, n)
         /\ i + r <= s.ar[x].size /\ s.ar[x].size - r + n <= MaxCells =>
              Aimed(s, Spliced(s, x, i, r, y, b, e, mode), c, n, r)
<1>. DEFINE over == Loop("overwrite", c, s, 0, k)
            room == [over EXCEPT !.ar[x] = Expand(@, Size(over, x) + (n - k))]
            promised == i + r <= s.ar[x].size /\ s.ar[x].size - r + n <= MaxCells
            result == IF r > n THEN Loop("remove", c, over, n, r)
                      ELSE IF k < n THEN Loop("insert", c, room, k, n)
                      ELSE over
<1>1. Spliced(s, x, i, r, y, b, e, mode) = result
  BY DEF Spliced
<1>2. /\ n \in Nat /\ k \in Nat /\ k <= n /\ k <= r /\ b + n = e
      /\ c.x = x /\ c.y = y /\ c.i = i /\ c.b = b /\ c.k = k
  OBVIOUS
<1>3. /\ s \in States /\ s.ar[x].size \in Nat /\ s.ar[y].size \in Nat
      /\ \A j \in Cells : j \in Nat
  BY Constants DEF Sound, Typed, RowOK, Rows
<1>4. \A d \in Nat : Spliceable(s, c, d)
  BY <1>2 DEF Spliceable
<1>5. Mid(s, s, c, 0) /\ Aimed(s, s, c, 0, 0)
  <2>1. \A j \in Cells : ~(b <= j /\ j < b + 0)
    BY <1>3
  <2>2. s.ar[y].size - 0 = s.ar[y].size
    BY <1>3
  <2>3. Mid(s, s, c, 0)
    BY <1>2, <2>1, <2>2 DEF Mid
  <2>4. s.ar[x].size + 0 - 0 = s.ar[x].size
    BY <1>3
  <2>5. \A j \in Cells : j - 0 + 0 = j /\ (j < i + 0 <=> j < i)
    BY <1>3
  <2>6. Aimed(s, s, c, 0, 0)
    BY <1>2, <2>4, <2>5 DEF Aimed
  <2>. QED
    BY <2>3, <2>6
<1>. HIDE DEF over, room, result, promised
<1>6. \A d \in 0 .. n - 1 : d \in Nat /\ c.b + d < s.ar[c.y].size
  <2>. DEFINE m == s.ar[y].size
  <2>1. m \in Nat /\ b + n <= m
    BY <1>2, <1>3
  <2>. HIDE DEF m
  <2>2. \A d \in 0 .. n - 1 : d \in Nat /\ b + d < m
    BY <1>2, <2>1
  <2>. QED
    BY <1>2, <2>2 DEF m
<1>7. \A d \in 0 .. r - 1 : d \in Nat /\ c.i + d < s.ar[c.x].size
  <2>. DEFINE m == s.ar[x].size
  <2>1. m \in Nat /\ (r = 0 \/ i + r <= m)
    BY <1>3
  <2>. HIDE DEF m
  <2>2. \A d \in 0 .. r - 1 : d \in Nat /\ i + d < m
    BY <2>1
  <2>. QED
    BY <1>2, <2>2 DEF m
<1>8. /\ Mid(s, over, c, k) /\ over.ar[x].size = s.ar[x].size
      /\ promised => Aimed(s, over, c, k, k)
  <2>. DEFINE J == [d \in 0 .. k |->
                      {t \in States : /\ Mid(s, t, c, d) /\ t.ar[x].size = s.ar[x].size
                                      /\ promised => Aimed(s, t, c, d, d)}]
  <2>1. s \in J[0]
    BY <1>2, <1>3, <1>5
  <2>2. ASSUME NEW d \in 0 .. k - 1, NEW t \in J[d]
        PROVE  Iteration("overwrite", c, t, d) \in J[d + 1]
    <3>1. d \in 0 .. n - 1 /\ d \in 0 .. r - 1 /\ d \in 0 .. k /\ d + 1 \in 0 .. k
      BY <1>2, SMTT(40)
    <3>2. /\ d \in Nat /\ d \in 0 .. k /\ d + 1 \in 0 .. k
          /\ c.b + d < s.ar[c.y].size /\ c.i + d < s.ar[c.x].size
      BY <1>6, <1>7, <3>1
    <3>3. /\ Mid(s, t, c, d) /\ t.ar[c.x].size = s.ar[c.x].size
          /\ promised => Aimed(s, t, c, d, d)
      BY <1>2, <3>2
    <3>. DEFINE u == Iteration("overwrite", c, t, d)
    <3>4. /\ Mid(s, u, c, d + 1) /\ u.ar[c.x].size = s.ar[c.x].size
          /\ promised => Aimed(s, u, c, d + 1, d + 1)
      BY <1>4, <3>2, <3>3, OverwriteFacts
    <3>. HIDE DEF u
    <3>5. u \in States
      BY <3>4 DEF Mid, Sound, Typed
    <3>. QED
      BY <1>2, <3>2, <3>4, <3>5 DEF u
  <2>. HIDE DEF J
  <2>3. over \in J[k]
    BY <1>2, <2>1, <2>2, LoopKeeps DEF over
  <2>. QED
    BY <1>2, <2>3 DEF J
<1>9. CASE r > n
  <2>1. k = n /\ n \in Nat /\ n <= r /\ i + r <= s.ar[x].size
    BY <1>2, <1>9
  <2>. DEFINE J == [d \in n .. r |->
                {t \in States : /\ Mid(s, t, c, n) /\ t.ar[x].size = s.ar[x].size - (d - n)
                                /\ promised => Aimed(s, t, c, n, d)}]
  <2>2. over \in J[n]
    <3>1. over \in States
      BY <1>8 DEF Mid, Sound, Typed
    <3>2. s.ar[x].size - (n - n) = s.ar[x].size /\ n \in n .. r
      BY <1>3, <2>1
    <3>. QED
      BY <1>8, <2>1, <3>1, <3>2
  <2>3. ASSUME NEW d \in n .. r - 1, NEW t \in J[d]
        PROVE  Iteration("remove", c, t, d) \in J[d + 1]
    <3>1. d \in Nat /\ d \in n .. r /\ d + 1 \in n .. r
      BY <2>1, SMTT(40)
    <3>2. /\ Mid(s, t, c, n) /\ t.ar[c.x].size = s.ar[x].size - (d - n)
          /\ promised => Aimed(s, t, c, n, d)
      BY <1>2, <3>1
    <3>3. c.i + c.k < t.ar[c.x].size
      BY <1>2, <1>3, <2>1, <3>1, <3>2
    <3>. DEFINE u == Iteration("remove", c, t, d)
    <3>4. /\ Mid(s, u, c, n) /\ u.ar[c.x].size = t.ar[c.x].size - 1
          /\ promised => Aimed(s, u, c, n, d + 1)
      <4>1. /\ Mid(s, u, c, n) /\ u.ar[c.x].size = t.ar[c.x].size - 1
            /\ \A z \in Nat : c.k = n /\ Aimed(s, t, c, n, z) => Aimed(s, u, c, n, z + 1)
        BY <1>4, <2>1, <3>1, <3>2, <3>3, RemovalFacts
      <4>. QED
        BY <1>2, <2>1, <3>1, <3>2, <4>1
    <3>. HIDE DEF u
    <3>5. u \in States
      BY <3>4 DEF Mid, Sound, Typed
    <3>6. u.ar[x].size = s.ar[x].size - ((d + 1) - n)
      BY <1>2, <1>3, <2>1, <3>1, <3>2, <3>4
    <3>. QED
      BY <3>1, <3>4, <3>5, <3>6 DEF u
  <2>. HIDE DEF J
  <2>4. Loop("remove", c, over, n, r) \in J[r]
    BY <2>1, <2>2, <2>3, LoopKeeps
  <2>5. result = Loop("remove", c, over, n, r)
    BY <1>9 DEF result
  <2>6. r \in n .. r
    BY <2>1
  <2>. QED
    BY <1>1, <2>1, <2>4, <2>5, <2>6 DEF J, promised
<1>10. CASE ~(r > n) /\ k < n
  <2>. DEFINE m == Size(over, x) + (n - k)
  <2>1. room = WithRow(over, x, Expand(over.ar[x], m))
    BY DEF room, WithRow
  <2>2. Sound(over) /\ m \in Nat
    BY <1>2, <1>3, <1>8 DEF Size, Mid
  <2>. HIDE DEF m
  <2>3. room = WithRow(over, c.x, Expand(over.ar[c.x], m))
    BY <1>2, <2>1
  <2>4. Mid(s, room, c, k) /\ (promised => Aimed(s, room, c, k, k))
    BY SMTT(40), <1>2, <1>4, <1>8, <2>2, <2>3, RoomKept
  <2>. DEFINE J == [d \in k .. n |-> {t \in States : /\ Mid(s, t, c, d)
                                                     /\ promised => Aimed(s, t, c, d, k)}]
  <2>5. room \in J[k]
    BY <1>2, <2>4 DEF Mid, Sound, Typed
  <2>6. ASSUME NEW d \in k .. n - 1, NEW t \in J[d]
        PROVE  Iteration("insert", c, t, d) \in J[d + 1]
    <3>1. d \in 0 .. n - 1 /\ d \in k .. n /\ d + 1 \in k .. n
      BY <1>2, SMTT(40)
    <3>2. d \in Nat /\ d \in k .. n /\ d + 1 \in k .. n /\ c.b + d < s.ar[c.y].size
      BY <1>6, <3>1
    <3>3. Mid(s, t, c, d) /\ (promised => Aimed(s, t, c, d, k))
      BY <3>2
    <3>. DEFINE u == Iteration("insert", c, t, d)
    <3>4. Mid(s, u, c, d + 1) /\ (promised => Aimed(s, u, c, d + 1, k))
      <4>1. /\ Mid(s, u, c, d + 1)
            /\ \A z \in Nat : /\ Aimed(s, t, c, d, z) /\ c.i + z <= s.ar[c.x].size
                             /\ s.ar[c.x].size + d - z < MaxCells
                             => Aimed(s, u, c, d + 1, z)
        BY <1>4, <3>2, <3>3, InsertionFacts
      <4>2. ASSUME promised
            PROVE  c.i + k <= s.ar[c.x].size /\ s.ar[c.x].size + d - k < MaxCells
        <5>1. k = r
          BY <1>10
        <5>. QED
          BY <1>2, <1>3, <3>1, <3>2, <4>2, <5>1, Constants DEF promised
      <4>. QED
        BY <1>2, <3>3, <4>1, <4>2
    <3>. HIDE DEF u
    <3>5. u \in States
      BY <3>4 DEF Mid, Sound, Typed
    <3>. QED
      BY <3>2, <3>4, <3>5 DEF u
  <2>. HIDE DEF J
  <2>7. Loop("insert", c, room, k, n) \in J[n]
    BY <1>2, <2>5, <2>6, LoopKeeps
  <2>8. result = Loop("insert", c, room, k, n)
    BY <1>10 DEF result
  <2>9. k = r
    BY <1>10
  <2>. QED
    BY <1>1, <1>2, <2>7, <2>8, <2>9 DEF J, promised
<1>11. CASE ~(r > n) /\ ~(k < n)
  <2>1. result = over /\ k = n /\ k = r
    BY <1>2, <1>11 DEF result
  <2>. QED
    BY <1>1, <1>8, <2>1 DEF promised
<1>. QED
  BY <1>9, <1>10, <1>11

LEMMA SpliceFacts ==
  ASSUME NEW s, Sound(s), NEW x \in Arrays, NEW y \in Arrays, x # y,
         NEW i \in Nat, NEW r \in Nat, r = 0 \/ i + r <= s.ar[x].size,
         NEW b \in Nat, NEW e \in Nat, b < e, e <= s.ar[y].size, NEW mode,
         NEW t, t = Spliced(s, x, i, r, y, b, e, mode)
  PROVE  /\ Sound(t) /\ (s.exhausted => t.exhausted) /\ (~t.exhausted => t.lost = s.lost)
         /\ \A z \in Arrays : Clean(s.ar[z])
              => Clean(t.ar[z]) \/ (z = y /\ mode = "TRANSFER" /\ e < s.ar[y].size)
<1>. DEFINE n == e - b
            k == IF r < n THEN r ELSE n
            c == [x |-> x, i |-> i, k |-> k, y |-> y, b |-> b, mode |-> mode]
<1>1. c.x = x /\ c.y = y /\ c.b = b /\ c.mode = mode /\ b + n = e /\ n \in Nat
  OBVIOUS
<1>2. Mid(s, t, c, n)
  BY SpliceMid
<1>. HIDE DEF c, n, k
<1>3. /\ s.ar[y].size \in Nat /\ s.ar[y].cap \in Nat /\ \A j \in Cells : j \in Nat
  BY Constants DEF Sound, Typed, RowOK, Rows
<1>4. ASSUME Clean(s.ar[y]), ~(mode = "TRANSFER" /\ e < s.ar[y].size)
      PROVE  Clean(t.ar[y])
  <2>. SUFFICES ASSUME NEW j \in Cells, t.ar[y].size <= j, j < t.ar[y].cap
                PROVE  t.ar[y].cell[j] = NULL
    BY DEF Clean
  <2>1. /\ t.ar[y].cap = s.ar[y].cap
        /\ t.ar[y].size = IF mode = "TRANSFER" THEN s.ar[y].size - n ELSE s.ar[y].size
        /\ t.ar[y].cell[j] = IF mode = "TRANSFER" /\ b <= j /\ j < b + n
                             THEN NULL ELSE s.ar[y].cell[j]
    BY <1>1, <1>2 DEF Mid
  <2>2. CASE s.ar[y].size <= j
    BY <1>4, <2>1, <2>2 DEF Clean
  <2>3. CASE ~(s.ar[y].size <= j)
    <3>1. mode = "TRANSFER" /\ e = s.ar[y].size
      BY <1>3, <1>4, <2>1, <2>3
    <3>2. b <= j /\ j < b + n
      BY <1>1, <1>3, <2>1, <2>3, <3>1
    <3>. QED
      BY <2>1, <3>1, <3>2
  <2>. QED
    BY <2>2, <2>3
<1>5. ASSUME NEW z \in Arrays, z # y, Clean(s.ar[z])
      PROVE  Clean(t.ar[z])
  BY <1>1, <1>2, <1>5 DEF Mid
<1>6. Sound(t) /\ (s.exhausted => t.exhausted) /\ (~t.exhausted => t.lost = s.lost)
  BY <1>2 DEF Mid
<1>. QED
  BY <1>4, <1>5, <1>6

-------------------------------------------------------------------------------
(* The invariant.  Without a transfer from the middle of an array, nothing is *)
(* held beyond the end of one, and only a lack of memory loses references.    *)

IInv ==
  /\ Sound(Now) /\ split \in BOOLEAN
  /\ ~split => \A x \in Arrays : Clean(ar[x])
  /\ ~split /\ ~exhausted => \A v \in Values : lost[v] = 0

LEMMA Nows ==
  /\ Now.ar = ar /\ Now.refs = refs /\ Now.lost = lost /\ Now.exhausted = exhausted
BY DEF Now

LEMMA BecomeNow ==
  ASSUME NEW s \in States, Become(s)
  PROVE  Now' = s
BY DEF Become, Now, States

(* A call that leads to s keeps the invariant. *)
LEMMA CallKeeps ==
  ASSUME IInv, NEW s, Become(s), Sound(s), exhausted => s.exhausted,
         split' \in BOOLEAN, split => split',
         ~split' => \A x \in Arrays : Clean(ar[x]) => Clean(s.ar[x]),
         ~split' /\ ~s.exhausted => \A v \in Values : s.lost[v] = lost[v]
  PROVE  IInv'
<1>1. s \in States
  BY DEF Sound, Typed
<1>2. Now' = s /\ ar' = s.ar /\ lost' = s.lost /\ exhausted' = s.exhausted
  BY <1>1, BecomeNow DEF Become
<1>3. Sound(Now')
  BY <1>2
<1>4. ~split' => \A x \in Arrays : Clean(ar'[x])
  BY <1>2 DEF IInv
<1>5. ~split' /\ ~exhausted' => \A v \in Values : lost'[v] = 0
  BY <1>2 DEF IInv
<1>. QED
  BY <1>3, <1>4, <1>5 DEF IInv

LEMMA InitIInv == Init => IInv
<1>. SUFFICES ASSUME Init PROVE IInv
  OBVIOUS
<1>1. PICK hint \in [Arrays -> 0 .. MaxCells] : ar = [x \in Arrays |-> New(hint[x])]
  BY DEF Init
<1>2. /\ refs = [v \in Values |-> 0] /\ lost = [v \in Values |-> 0]
      /\ exhausted = FALSE /\ split = FALSE
  BY DEF Init
<1>3. \A x \in Arrays : /\ RowOK(ar[x]) /\ Clean(ar[x])
                        /\ \A i \in Cells : ar[x].cell[i] \notin Values
  <2>. TAKE x \in Arrays
  <2>1. hint[x] \in Nat /\ ar[x] = New(hint[x])
    BY <1>1, Constants
  <2>. QED
    BY <2>1, NewFacts
<1>4. Now \in States
  <2>1. ar \in [Arrays -> Rows]
    BY <1>1, <1>3 DEF RowOK
  <2>2. refs \in [Values -> Int]
    BY <1>2
  <2>3. lost \in [Values -> Int]
    BY <1>2
  <2>4. exhausted \in BOOLEAN
    BY <1>2
  <2>. QED
    BY <2>1, <2>2, <2>3, <2>4 DEF Now, States
<1>5. \A v \in Values : Cardinality(Places(ar, v)) = 0
  <2>. TAKE v \in Values
  <2>1. Places(ar, v) = {}
    BY <1>3 DEF Places
  <2>. QED
    BY <2>1, FS_EmptySet
<1>6. Sound(Now)
  BY <1>2, <1>3, <1>4, <1>5, Nows DEF Sound, Typed, Owned
<1>. QED
  BY <1>2, <1>3, <1>6 DEF IInv

LEMMA PutKeeps ==
  ASSUME IInv, NEW x \in Arrays, NEW i \in Indices, NEW v \in Elements, Put(x, i, v)
  PROVE  IInv'
<1>. DEFINE s == PutUnsafe(Now, x, i, v)
<1>1. Fits(Now.ar[x], i + 1) /\ Become(s) /\ split' = split
  BY Nows DEF Put
<1>2. i \in Nat /\ Sound(Now) /\ v \in Elements \cup {NULL} /\ split \in BOOLEAN
  BY DEF Indices, IInv
<1>. HIDE DEF s
<1>3. /\ Sound(s) /\ s.lost = Now.lost /\ s.exhausted = Now.exhausted
      /\ \A y \in Arrays : y # x => s.ar[y] = Now.ar[y]
      /\ Clean(Now.ar[x]) => Clean(s.ar[x])
  BY <1>1, <1>2, PutFacts DEF s
<1>. QED
  BY <1>1, <1>2, <1>3, Nows, CallKeeps

LEMMA SetFailsKeeps ==
  ASSUME IInv, NEW x \in Arrays, NEW i \in Indices, NEW v \in Elements, SetFails(x, i, v)
  PROVE  IInv'
<1>. DEFINE g == Gain(Now, v)
            l == Lose(g, v)
            s == [l EXCEPT !.exhausted = TRUE]
<1>1. Become(s) /\ split' = split
  BY DEF SetFails
<1>2. Sound(Now) /\ Typed(Now) /\ Now \in States /\ split \in BOOLEAN
  BY DEF IInv, Sound, Typed
<1>3. /\ g \in States /\ g.ar = Now.ar /\ g.lost = Now.lost
      /\ \A u \in Values : g.refs[u] = Now.refs[u] + Is(v, u)
  BY <1>2, GainFacts
<1>. HIDE DEF g
<1>4. /\ l \in States /\ l.ar = Now.ar /\ l.refs = g.refs
      /\ \A u \in Values : l.lost[u] = Now.lost[u] + Is(v, u)
  BY <1>3, LoseFacts
<1>. HIDE DEF l
<1>5. /\ s \in States /\ s.ar = Now.ar /\ s.refs = g.refs /\ s.lost = l.lost
      /\ s.exhausted = TRUE
  BY <1>4 DEF States
<1>. HIDE DEF s
<1>6. \A u \in Values : /\ Is(v, u) \in {0, 1} /\ Now.refs[u] \in Int
                        /\ Now.lost[u] \in Int /\ Now.lost[u] >= 0
  BY <1>2 DEF Is, Typed, States
<1>7. Typed(s)
  <2>1. \A u \in Values : s.lost[u] >= 0
    BY <1>4, <1>5, <1>6
  <2>. QED
    BY <1>2, <1>5, <2>1 DEF Typed
<1>8. \A u \in Values : s.refs[u] - s.lost[u] = Now.refs[u] - Now.lost[u]
  BY <1>3, <1>4, <1>5, <1>6
<1>9. Sound(s)
  BY <1>2, <1>5, <1>7, <1>8, StillOwned
<1>. QED
  BY <1>1, <1>2, <1>5, <1>9, Nows, CallKeeps

LEMMA InsertKeeps ==
  ASSUME IInv, NEW x \in Arrays, NEW i \in Indices, NEW v \in Elements, Insert(x, i, v)
  PROVE  IInv'
<1>. DEFINE s == InsertAbove(Now, x, i, v)
<1>1. Become(s) /\ split' = split
  BY DEF Insert
<1>2. i \in Nat /\ Sound(Now) /\ v \in Elements \cup {NULL} /\ split \in BOOLEAN
  BY DEF Indices, IInv
<1>. HIDE DEF s
<1>3. /\ Sound(s) /\ (Now.exhausted => s.exhausted) /\ (~s.exhausted => s.lost = Now.lost)
      /\ \A y \in Arrays : y # x => s.ar[y] = Now.ar[y]
      /\ Clean(Now.ar[x]) => Clean(s.ar[x])
  BY <1>2, InsertFacts DEF s
<1>. QED
  BY <1>1, <1>2, <1>3, Nows, CallKeeps

LEMMA RemoveKeeps ==
  ASSUME IInv, NEW x \in Arrays, NEW i \in Indices, RemoveIndex(x, i)
  PROVE  IInv'
<1>. DEFINE s == RemoveUnsafe(Now, x, i)
<1>1. i < Now.ar[x].size /\ Become(s) /\ split' = split
  BY Nows DEF RemoveIndex
<1>2. i \in Nat /\ Sound(Now) /\ split \in BOOLEAN
  BY DEF Indices, IInv
<1>. HIDE DEF s
<1>3. /\ Sound(s) /\ s.lost = Now.lost /\ s.exhausted = Now.exhausted
      /\ \A y \in Arrays : y # x => s.ar[y] = Now.ar[y]
      /\ Clean(Now.ar[x]) => Clean(s.ar[x])
  BY <1>1, <1>2, RemoveFacts DEF s
<1>. QED
  BY <1>1, <1>2, <1>3, Nows, CallKeeps

LEMMA SpliceKeeps ==
  ASSUME IInv, NEW x \in Arrays, NEW y \in Arrays, x # y, NEW i \in Nat, NEW r \in Nat,
         NEW b \in Nat, NEW e \in Nat, NEW mode, Splice(x, i, r, y, b, e, mode)
  PROVE  IInv'
<1>. DEFINE s == Spliced(Now, x, i, r, y, b, e, mode)
<1>1. /\ r = 0 \/ i + r <= Now.ar[x].size
      /\ b < e /\ e <= Now.ar[y].size
      /\ Become(s)
      /\ split' = (split \/ (mode = "TRANSFER" /\ e < Now.ar[y].size))
  BY Nows DEF Splice
<1>2. Sound(Now) /\ split \in BOOLEAN
  BY DEF IInv
<1>. HIDE DEF s
<1>3. /\ Sound(s) /\ (Now.exhausted => s.exhausted) /\ (~s.exhausted => s.lost = Now.lost)
      /\ \A z \in Arrays : Clean(Now.ar[z])
           => Clean(s.ar[z]) \/ (z = y /\ mode = "TRANSFER" /\ e < Now.ar[y].size)
  BY <1>1, <1>2, SpliceFacts DEF s
<1>4. split' \in BOOLEAN /\ (split => split')
  BY <1>1, <1>2
<1>5. ~split' => \A z \in Arrays : Clean(ar[z]) => Clean(s.ar[z])
  BY <1>1, <1>3, Nows
<1>6. (exhausted => s.exhausted) /\ (~s.exhausted => \A v \in Values : s.lost[v] = lost[v])
  BY <1>3, Nows
<1>. QED
  BY <1>1, <1>3, <1>4, <1>5, <1>6, CallKeeps

LEMMA RenewKeeps ==
  ASSUME IInv, NEW x \in Arrays, Renew(x)
  PROVE  IInv'
<1>. DEFINE s == Renewed(Now, x)
<1>1. Become(s) /\ split' = split
  BY DEF Renew, Renewed
<1>2. Sound(Now) /\ split \in BOOLEAN
  BY DEF IInv
<1>. HIDE DEF s
<1>3. /\ Sound(s) /\ s.exhausted = Now.exhausted
      /\ \A y \in Arrays : y # x => s.ar[y] = Now.ar[y]
      /\ Clean(s.ar[x])
      /\ Clean(Now.ar[x]) => \A v \in Values : s.lost[v] = Now.lost[v]
  BY <1>2, RenewFacts DEF s
<1>4. ~split => Clean(Now.ar[x])
  BY Nows DEF IInv
<1>. QED
  BY <1>1, <1>2, <1>3, <1>4, Nows, CallKeeps

LEMMA NextIInv == IInv /\ [Next]_vars => IInv'
<1>. SUFFICES ASSUME IInv, [Next]_vars PROVE IInv'
  OBVIOUS
<1>1. CASE UNCHANGED vars
  <2>1. Now' = Now /\ split' = split /\ ar' = ar /\ exhausted' = exhausted /\ lost' = lost
    BY <1>1 DEF vars, Now
  <2>. QED
    BY <2>1 DEF IInv
<1>2. CASE Next
  <2>1. \A x \in Arrays : ar[x].size \in Nat
    BY Nows DEF IInv, Sound, Typed, RowOK, Rows
  <2>2. PICK x \in Arrays :
          \/ \E i \in Indices, v \in Elements :
               Put(x, i, v) \/ SetFails(x, i, v) \/ Insert(x, i, v)
          \/ \E i \in Indices : RemoveIndex(x, i)
          \/ \E y \in Arrays \ {x}, i \in Indices, mode \in Modes :
               \E r \in 0 .. ar[x].size, e \in 1 .. ar[y].size : \E b \in 0 .. e - 1 :
                 Splice(x, i, r, y, b, e, mode)
          \/ \E y \in Arrays \ {x}, mode \in Modes : SpliceAppend(x, y, mode)
          \/ Renew(x)
    BY <1>2 DEF Next
  <2>3. ASSUME NEW i \in Indices, NEW v \in Elements,
               Put(x, i, v) \/ SetFails(x, i, v) \/ Insert(x, i, v)
        PROVE  IInv'
    BY <2>3, PutKeeps, SetFailsKeeps, InsertKeeps
  <2>4. ASSUME NEW i \in Indices, RemoveIndex(x, i)
        PROVE  IInv'
    BY <2>4, RemoveKeeps
  <2>5. ASSUME NEW y \in Arrays \ {x}, NEW i \in Indices, NEW mode \in Modes,
               NEW r \in 0 .. ar[x].size, NEW e \in 1 .. ar[y].size, NEW b \in 0 .. e - 1,
               Splice(x, i, r, y, b, e, mode)
        PROVE  IInv'
    <3>1. i \in Nat /\ r \in Nat /\ e \in Nat /\ b \in Nat /\ y \in Arrays /\ x # y
      BY <2>1 DEF Indices
    <3>. QED
      BY <2>5, <3>1, SpliceKeeps
  <2>6. ASSUME NEW y \in Arrays \ {x}, NEW mode \in Modes, SpliceAppend(x, y, mode)
        PROVE  IInv'
    <3>. DEFINE i == IF ar[x].size = 0 THEN 0 ELSE ar[x].size - 1
    <3>1. i \in Nat /\ ar[y].size \in Nat /\ y \in Arrays /\ x # y
      BY <2>1
    <3>2. Splice(x, i, 0, y, 0, ar[y].size, mode)
      BY <2>6 DEF SpliceAppend
    <3>. HIDE DEF i
    <3>. QED
      BY <3>1, <3>2, SpliceKeeps
  <2>7. CASE Renew(x)
    BY <2>7, RenewKeeps
  <2>. QED
    BY <2>2, <2>3, <2>4, <2>5, <2>6, <2>7
<1>. QED
  BY <1>1, <1>2

-------------------------------------------------------------------------------
(* What the invariant implies. *)

LEMMA IInvTypeOK == IInv => TypeOK
<1>. SUFFICES ASSUME IInv PROVE TypeOK
  OBVIOUS
<1>1. /\ Sound(Now) /\ Now \in States /\ split \in BOOLEAN
      /\ \A x \in Arrays : RowOK(ar[x])
      /\ \A v \in Values : lost[v] >= 0
  BY Nows DEF IInv, Sound, Typed
<1>2. ASSUME NEW x \in Arrays
      PROVE  /\ ar[x].size \in 0 .. ar[x].cap /\ ar[x].cap \in Bucket .. MaxCells
             /\ \A i \in Cells : IF i < ar[x].cap THEN ar[x].cell[i] \in Elements \cup {NULL}
                                 ELSE ar[x].cell[i] = Junk
  BY <1>1, Constants DEF RowOK, Rows
<1>3. lost \in [Values -> Nat] /\ exhausted \in BOOLEAN
  <2>1. lost \in [Values -> Int] /\ exhausted \in BOOLEAN
    BY <1>1, Nows DEF States
  <2>. QED
    BY <1>1, <2>1
<1>4. refs \in [Values -> Nat]
  <2>1. refs \in [Values -> Int]
    BY <1>1, Nows DEF States
  <2>2. \A v \in Values : refs[v] = Cardinality(Places(ar, v)) + lost[v]
    BY <1>1, Nows DEF Sound, Owned
  <2>3. \A v \in Values : refs[v] \in Nat
    BY <1>3, <2>2, PlacesFinite
  <2>. QED
    BY <2>1, <2>3
<1>. QED
  BY <1>1, <1>2, <1>3, <1>4 DEF TypeOK

LEMMA IInvOutsideEmpty == IInv => OutsideEmpty
<1>. SUFFICES ASSUME IInv, ~split, NEW x \in Arrays, NEW i \in ar[x].size .. ar[x].cap - 1
              PROVE  ar[x].cell[i] = NULL
  BY DEF OutsideEmpty
<1>1. RowOK(ar[x]) /\ Clean(ar[x])
  BY Nows DEF IInv, Sound, Typed
<1>2. ar[x].size \in Nat /\ ar[x].cap \in Nat /\ ar[x].cap <= MaxCells
  BY <1>1 DEF RowOK, Rows
<1>3. i \in Cells /\ ar[x].size <= i /\ i < ar[x].cap
  BY <1>2, Constants
<1>. QED
  BY <1>1, <1>3 DEF Clean

LEMMA IInvOwnership == IInv => Ownership
BY Nows DEF IInv, Sound, Owned, Ownership, HeldIn, Places

-------------------------------------------------------------------------------
(* Arrays as lists.  The elements a client reads of an array are a sequence; *)
(* what a call does to cells, it does to that sequence.                      *)

(* What reading a cell that holds e returns, and the elements of an array. *)
Read(e)  == IF e = NULL THEN JNull ELSE e
Shown(r) == [n \in 1 .. r.size |-> Read(r.cell[n - 1])]

LEMMA ShownFacts ==
  ASSUME NEW r, RowOK(r)
  PROVE  /\ r.size \in Nat /\ Shown(r) \in Seq(Elements) /\ Len(Shown(r)) = r.size
         /\ \A n \in 1 .. r.size : n - 1 \in Cells /\ Shown(r)[n] = Read(r.cell[n - 1])
         /\ \A j \in Cells : j < r.cap => Read(r.cell[j]) \in Elements
<1>1. r.size \in Nat /\ r.cap \in Nat /\ r.size <= r.cap /\ r.cap <= MaxCells
  BY DEF RowOK, Rows
<1>2. \A j \in Cells : j < r.cap => Read(r.cell[j]) \in Elements
  BY Constants DEF RowOK, Read
<1>3. ASSUME NEW n \in 1 .. r.size
      PROVE  n - 1 \in Cells /\ Read(r.cell[n - 1]) \in Elements
  <2>1. n - 1 \in Cells /\ n - 1 < r.cap
    BY <1>1, Constants
  <2>. QED
    BY <1>2, <2>1
<1>4. Shown(r) \in [1 .. r.size -> Elements]
  BY <1>3 DEF Shown
<1>5. Shown(r) \in Seq(Elements)
  BY <1>1, <1>4, SeqDef
<1>6. Len(Shown(r)) = r.size
  <2>1. Len(Shown(r)) \in Nat /\ DOMAIN Shown(r) = 1 .. Len(Shown(r))
    BY <1>5, LenProperties
  <2>2. 1 .. Len(Shown(r)) = 1 .. r.size
    BY <1>4, <2>1
  <2>. QED
    BY <1>1, <2>1, <2>2
<1>. QED
  BY <1>1, <1>2, <1>3, <1>5, <1>6 DEF Shown

(* The array q reads as p with w in place of the elements i .. k - 1. *)
Replaces(p, q, i, w, k) ==
  /\ q.size = i + Len(w) + (p.size - k)
  /\ \A j \in Cells : j < q.size =>
       Read(q.cell[j]) = IF j < i THEN Read(p.cell[j])
                         ELSE IF j < i + Len(w) THEN w[j - i + 1]
                         ELSE Read(p.cell[j - (i + Len(w)) + k])

LEMMA ShownPatched ==
  ASSUME NEW p, RowOK(p), NEW q, RowOK(q), NEW w \in Seq(Elements),
         NEW i \in Nat, NEW k \in Nat, i <= k, k <= p.size, Replaces(p, q, i, w, k)
  PROVE  Shown(q) = Patched(Shown(p), i, w, k)
<1>. DEFINE r == Patched(Shown(p), i, w, k)
<1>. USE DEF Replaces
<1>1. /\ p.size \in Nat /\ Shown(p) \in Seq(Elements) /\ Len(Shown(p)) = p.size
      /\ \A n \in 1 .. p.size : n - 1 \in Cells /\ Shown(p)[n] = Read(p.cell[n - 1])
  BY ShownFacts
<1>2. /\ q.size \in Nat /\ Shown(q) \in Seq(Elements) /\ Len(Shown(q)) = q.size
      /\ \A n \in 1 .. q.size : n - 1 \in Cells /\ Shown(q)[n] = Read(q.cell[n - 1])
  BY ShownFacts
<1>3. /\ r \in Seq(Elements) /\ Len(r) = q.size
      /\ \A n \in 1 .. q.size :
           r[n] = IF n <= i THEN Shown(p)[n] ELSE IF n <= i + Len(w) THEN w[n - i]
                  ELSE Shown(p)[n - i - Len(w) + k]
  <2>. DEFINE P == Shown(p)
  <2>1. P \in Seq(Elements) /\ k <= Len(P) /\ q.size = i + Len(w) + (Len(P) - k)
    BY <1>1
  <2>. HIDE DEF P
  <2>2. /\ Patched(P, i, w, k) \in Seq(Elements)
        /\ Len(Patched(P, i, w, k)) = i + Len(w) + (Len(P) - k)
        /\ \A n \in 1 .. i + Len(w) + (Len(P) - k) :
             Patched(P, i, w, k)[n] = IF n <= i THEN P[n]
                                      ELSE IF n <= i + Len(w) THEN w[n - i]
                                      ELSE P[n - i - Len(w) + k]
    <3>1. /\ P \in Seq(Elements) /\ w \in Seq(Elements) /\ i \in Nat /\ k \in Nat
          /\ i <= k /\ k <= Len(P)
      BY <2>1
    <3>. HIDE DEF r
    <3>2. Patched(P, i, w, k) \in Seq(Elements)
      BY ONLY <3>1, PatchedFacts
    <3>3. Len(Patched(P, i, w, k)) = i + Len(w) + (Len(P) - k)
      BY ONLY <3>1, PatchedFacts
    <3>4. ASSUME NEW n \in 1 .. i + Len(w) + (Len(P) - k)
          PROVE  Patched(P, i, w, k)[n] = IF n <= i THEN P[n]
                                          ELSE IF n <= i + Len(w) THEN w[n - i]
                                          ELSE P[n - i - Len(w) + k]
      BY ONLY <3>1, <3>4, PatchedFacts
    <3>. QED
      BY <3>2, <3>3, <3>4
  <2>. QED
    BY <2>1, <2>2 DEF P
<1>4. Len(w) \in Nat
  BY LenProperties
<1>. HIDE DEF r
<1>5. ASSUME NEW n \in 1 .. q.size
      PROVE  Shown(q)[n] = r[n]
  <2>1. /\ n - 1 \in Cells /\ n - 1 < q.size
        /\ Shown(q)[n] = Read(q.cell[n - 1])
    BY <1>2
  <2>2. CASE n <= i
    <3>1. n - 1 < i /\ n \in 1 .. p.size
      BY <1>1, <1>2, <2>2
    <3>. QED
      BY <1>1, <1>3, <2>1, <2>2, <3>1
  <2>3. CASE ~(n <= i) /\ n <= i + Len(w)
    <3>1. ~(n - 1 < i) /\ n - 1 < i + Len(w) /\ (n - 1) - i + 1 = n - i
      BY <1>2, <1>4, <2>3
    <3>. QED
      BY <1>3, <2>1, <2>3, <3>1
  <2>4. CASE ~(n <= i) /\ ~(n <= i + Len(w))
    <3>. DEFINE m == n - i - Len(w) + k
    <3>1. /\ ~(n - 1 < i) /\ ~(n - 1 < i + Len(w))
          /\ (n - 1) - (i + Len(w)) + k = m - 1 /\ m \in 1 .. p.size
      <4>. DEFINE l == Len(w)
                  z == p.size
      <4>1. l \in Nat /\ z \in Nat /\ n \in 1 .. i + l + (z - k) /\ ~(n <= i) /\ ~(n <= i + l)
            /\ m = n - i - l + k /\ k <= z
        BY <1>1, <1>4, <2>4
      <4>. HIDE DEF l, z, m
      <4>2. /\ ~(n - 1 < i) /\ ~(n - 1 < i + l)
            /\ (n - 1) - (i + l) + k = m - 1 /\ m \in 1 .. z
        BY <4>1
      <4>. QED
        BY <4>2 DEF l, z
    <3>2. Shown(q)[n] = Read(p.cell[m - 1])
      BY <2>1, <3>1
    <3>3. r[n] = Shown(p)[m]
      BY <1>3, <2>4
    <3>. QED
      BY <1>1, <3>1, <3>2, <3>3
  <2>. QED
    BY <2>2, <2>3, <2>4
<1>. QED
  BY <1>2, <1>3, <1>5, SeqEqual DEF r

(* The elements of every array. *)
Seen == [x \in Arrays |-> Shown(ar[x])]

(* As long as the client keeps what jobject.h promises, no transfer takes
   elements from the middle of an array. *)
ListInv == IInv /\ ~split

LEMMA SeenContents == Seen = [x \in Arrays |-> Contents(x)]
BY DEF Seen, Shown, Contents, Read

LEMMA Rows0 ==
  ASSUME IInv, NEW x \in Arrays
  PROVE  /\ Sound(Now) /\ RowOK(ar[x]) /\ Now.ar = ar /\ Now.ar[x] = ar[x]
         /\ ar[x].size \in Nat /\ ar[x].cap \in Nat
         /\ ar[x].size <= ar[x].cap /\ ar[x].cap <= MaxCells
<1>1. Sound(Now) /\ RowOK(ar[x])
  BY Nows DEF IInv, Sound, Typed
<1>. QED
  BY <1>1, Nows DEF RowOK, Rows

(* A call that leads to s. *)
LEMMA Became ==
  ASSUME NEW s, Sound(s), Become(s)
  PROVE  ar' = s.ar /\ \A x \in Arrays : RowOK(ar'[x])
BY DEF Become, Sound, Typed

LEMMA OneChanges ==
  ASSUME NEW x \in Arrays, \A z \in Arrays : z # x => ar'[z] = ar[z],
         NEW q, Shown(ar'[x]) = q
  PROVE  Seen' = [Seen EXCEPT ![x] = q]
<1>1. \A z \in Arrays : Seen'[z] = IF z = x THEN q ELSE Seen[z]
  BY DEF Seen
<1>2. Seen' = [z \in Arrays |-> IF z = x THEN q ELSE Seen[z]]
  BY <1>1 DEF Seen
<1>3. [Seen EXCEPT ![x] = q] = [z \in Arrays |-> IF z = x THEN q ELSE Seen[z]]
  BY DEF Seen
<1>. QED
  BY <1>2, <1>3

(* jarray_put and jarray_set: the gap below a put beyond the end reads as null. *)
LEMMA PutShown ==
  ASSUME ListInv, NEW x \in Arrays, NEW i \in Indices, NEW v \in Elements, Put(x, i, v)
  PROVE  Seen' = [Seen EXCEPT ![x] =
           [n \in 1 .. (IF i < Len(Seen[x]) THEN Len(Seen[x]) ELSE i + 1) |->
              IF n = i + 1 THEN v ELSE IF n <= Len(Seen[x]) THEN Seen[x][n] ELSE JNull]]
<1>. DEFINE s == PutUnsafe(Now, x, i, v)
            m == IF i < Len(Seen[x]) THEN Len(Seen[x]) ELSE i + 1
            q == [n \in 1 .. m |-> IF n = i + 1 THEN v
                                   ELSE IF n <= Len(Seen[x]) THEN Seen[x][n] ELSE JNull]
<1>1. IInv /\ Clean(ar[x]) /\ i \in Nat /\ v \in Elements \cup {NULL} /\ Become(s)
      /\ Fits(Now.ar[x], i + 1)
  BY Nows DEF ListInv, IInv, Put, Indices
<1>2. /\ Sound(Now) /\ RowOK(ar[x]) /\ Now.ar = ar /\ ar[x].size \in Nat /\ ar[x].cap \in Nat
      /\ ar[x].size <= ar[x].cap
  BY <1>1, Rows0
<1>. HIDE DEF s
<1>3. /\ Sound(s)
      /\ \A y \in Arrays : y # x => s.ar[y] = Now.ar[y]
      /\ s.ar[x].size = IF i >= Now.ar[x].size THEN i + 1 ELSE Now.ar[x].size
      /\ i \in Cells /\ s.ar[x].cell[i] = v
      /\ \A j \in Cells : j # i => IF j < Now.ar[x].cap THEN s.ar[x].cell[j] = Now.ar[x].cell[j]
                                   ELSE s.ar[x].cell[j] \in {NULL, Junk}
  BY <1>1, <1>2, PutFacts DEF s
<1>4. ar' = s.ar /\ RowOK(ar'[x])
  BY <1>1, <1>3, Became
<1>5. /\ Seen[x] = Shown(ar[x]) /\ Len(Seen[x]) = ar[x].size
      /\ \A n \in 1 .. ar[x].size : Seen[x][n] = Read(ar[x].cell[n - 1])
  BY <1>2, ShownFacts DEF Seen
<1>6. ar'[x].size = m /\ m \in Nat
  BY <1>1, <1>2, <1>3, <1>4, <1>5
<1>7. \A n \in 1 .. m : n - 1 \in Cells /\ ar'[x].cell[n - 1] # Junk
  <2>1. \A n \in 1 .. ar'[x].size : n - 1 \in Cells
    BY <1>4, ShownFacts
  <2>2. \A j \in Cells : j < ar'[x].size => ar'[x].cell[j] # Junk
    BY <1>4, Constants DEF RowOK, Rows
  <2>. QED
    BY <1>6, <2>1, <2>2
<1>8. ASSUME NEW n \in 1 .. m
      PROVE  Read(ar'[x].cell[n - 1]) = q[n]
  <2>. DEFINE j == n - 1
  <2>1. /\ j \in Cells /\ j \in Nat /\ ar'[x].cell[j] # Junk
        /\ (n = i + 1 <=> j = i) /\ (n <= Len(Seen[x]) <=> j < ar[x].size)
    BY <1>1, <1>2, <1>5, <1>6, <1>7
  <2>2. CASE j = i
    <3>1. ar'[x].cell[j] = v /\ n = i + 1
      BY <1>3, <1>4, <2>1, <2>2
    <3>2. Read(v) = v
      BY Constants DEF Read, Elements
    <3>. QED
      BY <3>1, <3>2
  <2>3. CASE j # i /\ j < ar[x].size
    <3>1. ar'[x].cell[j] = ar[x].cell[j] /\ n \in 1 .. ar[x].size
      BY <1>2, <1>3, <1>4, <2>1, <2>3
    <3>2. q[n] = Seen[x][n] /\ Seen[x][n] = Read(ar[x].cell[j])
      BY <1>5, <2>1, <2>3, <3>1
    <3>. QED
      BY <3>1, <3>2
  <2>4. CASE j # i /\ ~(j < ar[x].size)
    <3>1. ar'[x].cell[j] = NULL
      <4>1. CASE j < ar[x].cap
        BY <1>1, <1>2, <1>3, <1>4, <2>1, <2>4, <4>1 DEF Clean
      <4>2. CASE ~(j < ar[x].cap)
        BY <1>2, <1>3, <1>4, <2>1, <2>4, <4>2
      <4>. QED
        BY <4>1, <4>2
    <3>2. q[n] = JNull
      BY <2>1, <2>4
    <3>. QED
      BY <3>1, <3>2 DEF Read
  <2>. QED
    BY <2>1, <2>2, <2>3, <2>4
<1>9. Shown(ar'[x]) = q
  <2>1. Shown(ar'[x]) = [n \in 1 .. m |-> Read(ar'[x].cell[n - 1])]
    BY <1>6 DEF Shown
  <2>2. q = [n \in 1 .. m |-> q[n]]
    OBVIOUS
  <2>. HIDE DEF q
  <2>. QED
    BY <1>8, <2>1, <2>2
<1>10. \A z \in Arrays : z # x => ar'[z] = ar[z]
  BY <1>2, <1>3, <1>4
<1>. HIDE DEF q
<1>11. Seen' = [Seen EXCEPT ![x] = q]
  BY <1>9, <1>10, OneChanges
<1>. QED
  BY <1>11 DEF q

(* jarray_insert, where the header has it. *)
LEMMA InsertShown ==
  ASSUME ListInv, NEW x \in Arrays, NEW i \in Indices, NEW v \in Elements,
         i <= ar[x].size, ar[x].size < MaxCells, Insert(x, i, v)
  PROVE  /\ i \in 0 .. Len(Seen[x])
         /\ Seen' = [Seen EXCEPT ![x] = InsertAt(Seen[x], i + 1, v)]
<1>. DEFINE s == InsertAbove(Now, x, i, v)
<1>1. IInv /\ i \in Nat /\ v \in Elements \cup {NULL} /\ Become(s)
  BY DEF ListInv, Insert, Indices
<1>2. /\ Sound(Now) /\ RowOK(ar[x]) /\ Now.ar = ar /\ ar[x].size \in Nat /\ ar[x].cap \in Nat
  BY <1>1, Rows0
<1>3. Fits(Now.ar[x], Now.ar[x].size + 1)
  BY <1>2, Constants DEF Fits
<1>. HIDE DEF s
<1>4. /\ Sound(s)
      /\ \A y \in Arrays : y # x => s.ar[y] = Now.ar[y]
      /\ Fits(Now.ar[x], Now.ar[x].size + 1) /\ i <= Now.ar[x].size =>
           /\ s.ar[x].size = Now.ar[x].size + 1
           /\ \A j \in Cells : j <= Now.ar[x].size =>
                s.ar[x].cell[j] = IF j < i THEN Now.ar[x].cell[j]
                                  ELSE IF j = i THEN v ELSE Now.ar[x].cell[j - 1]
  BY SMTT(40), <1>1, <1>2, InsertFacts DEF s
<1>5. ar' = s.ar /\ RowOK(ar'[x])
  BY <1>1, <1>4, Became
<1>6. Seen[x] = Shown(ar[x]) /\ Len(Seen[x]) = ar[x].size
  BY <1>2, ShownFacts DEF Seen
<1>7. <<v>> \in Seq(Elements) /\ Len(<<v>>) = 1 /\ <<v>>[1] = v
  OBVIOUS
<1>8. PICK w \in Seq(Elements) : w = <<v>> /\ Len(w) = 1 /\ w[1] = v
  BY <1>7
<1>9. /\ ar'[x].size = ar[x].size + 1
      /\ \A j \in Cells : j <= ar[x].size =>
           ar'[x].cell[j] = IF j < i THEN ar[x].cell[j]
                            ELSE IF j = i THEN v ELSE ar[x].cell[j - 1]
  BY <1>2, <1>3, <1>4, <1>5
<1>10. Shown(ar'[x]) = Patched(Shown(ar[x]), i, w, i)
  <2>1. Read(v) = v
    BY Constants DEF Read, Elements
  <2>2. ASSUME NEW j \in Cells, j < ar'[x].size
        PROVE  Read(ar'[x].cell[j])
                 = IF j < i THEN Read(ar[x].cell[j])
                   ELSE IF j < i + Len(w) THEN w[j - i + 1]
                   ELSE Read(ar[x].cell[j - (i + Len(w)) + i])
    <3>1. j \in Nat /\ j <= ar[x].size
      BY <1>2, <1>9, <2>2, Constants
    <3>2. CASE j < i
      BY <1>9, <3>1, <3>2
    <3>3. CASE j = i
      <4>1. j - i + 1 = 1 /\ ~(j < i) /\ j < i + 1
        BY <1>1, <3>3
      <4>. QED
        BY <1>8, <1>9, <2>1, <3>1, <3>3, <4>1
    <3>4. CASE i < j
      <4>1. j - (i + 1) + i = j - 1 /\ ~(j < i) /\ ~(j < i + 1) /\ j # i
        BY <1>1, <3>1, <3>4
      <4>. QED
        BY <1>8, <1>9, <3>1, <4>1
    <3>. QED
      BY <1>1, <3>1, <3>2, <3>3, <3>4
  <2>3. ar'[x].size = i + Len(w) + (ar[x].size - i)
    BY <1>1, <1>2, <1>8, <1>9
  <2>. QED
    <3>1. Replaces(ar[x], ar'[x], i, w, i)
      BY <2>2, <2>3 DEF Replaces
    <3>. QED
      BY <1>1, <1>2, <1>5, <3>1, ShownPatched
<1>11. InsertAt(Seen[x], i + 1, v) = Patched(Seen[x], i, w, i)
  <2>1. (i + 1) - 1 = i
    BY <1>1
  <2>. QED
    BY <1>8, <2>1 DEF InsertAt, Patched
<1>12. \A z \in Arrays : z # x => ar'[z] = ar[z]
  BY <1>2, <1>4, <1>5
<1>13. Shown(ar'[x]) = InsertAt(Seen[x], i + 1, v)
  BY <1>6, <1>10, <1>11
<1>. QED
  BY <1>1, <1>2, <1>6, <1>12, <1>13, OneChanges

(* jarray_remove. *)
LEMMA RemoveShown ==
  ASSUME ListInv, NEW x \in Arrays, NEW i \in Indices, RemoveIndex(x, i)
  PROVE  /\ i \in 0 .. Len(Seen[x]) - 1
         /\ Seen' = [Seen EXCEPT ![x] = RemoveAt(Seen[x], i + 1)]
<1>. DEFINE s == RemoveUnsafe(Now, x, i)
<1>1. IInv /\ i \in Nat /\ i < ar[x].size /\ Become(s)
  BY DEF ListInv, RemoveIndex, Indices
<1>2. /\ Sound(Now) /\ RowOK(ar[x]) /\ Now.ar = ar /\ ar[x].size \in Nat
  BY <1>1, Rows0
<1>. HIDE DEF s
<1>3. /\ Sound(s)
      /\ \A y \in Arrays : y # x => s.ar[y] = Now.ar[y]
      /\ s.ar[x].size = Now.ar[x].size - 1
      /\ \A j \in Cells : j < Now.ar[x].size - 1 =>
           s.ar[x].cell[j] = IF j < i THEN Now.ar[x].cell[j] ELSE Now.ar[x].cell[j + 1]
  BY <1>1, <1>2, RemoveFacts DEF s
<1>4. ar' = s.ar /\ RowOK(ar'[x])
  BY <1>1, <1>3, Became
<1>5. Seen[x] = Shown(ar[x]) /\ Len(Seen[x]) = ar[x].size /\ Shown(ar[x]) \in Seq(Elements)
  BY <1>2, ShownFacts DEF Seen
<1>6. PICK w \in Seq(Elements) : w = <<>> /\ Len(w) = 0
  BY EmptySeq
<1>7. Shown(ar'[x]) = Patched(Shown(ar[x]), i, w, i + 1)
  <2>1. ASSUME NEW j \in Cells, j < ar'[x].size
        PROVE  Read(ar'[x].cell[j])
                 = IF j < i THEN Read(ar[x].cell[j])
                   ELSE IF j < i + Len(w) THEN w[j - i + 1]
                   ELSE Read(ar[x].cell[j - (i + Len(w)) + (i + 1)])
    <3>1. j \in Nat /\ j - (i + 0) + (i + 1) = j + 1 /\ (j < i + 0 <=> j < i)
      BY <1>1, Constants
    <3>2. ar'[x].cell[j] = IF j < i THEN ar[x].cell[j] ELSE ar[x].cell[j + 1]
      BY <1>2, <1>3, <1>4, <2>1
    <3>. QED
      BY <1>6, <3>1, <3>2
  <2>2. ar'[x].size = i + Len(w) + (ar[x].size - (i + 1))
    BY <1>1, <1>2, <1>3, <1>4, <1>6
  <2>3. i + 1 \in Nat /\ i <= i + 1 /\ i + 1 <= ar[x].size
    BY <1>1, <1>2
  <2>. QED
    <3>1. Replaces(ar[x], ar'[x], i, w, i + 1)
      BY <2>1, <2>2 DEF Replaces
    <3>. QED
      BY <1>1, <1>2, <1>4, <2>3, <3>1, ShownPatched
<1>8. RemoveAt(Seen[x], i + 1) = Patched(Seen[x], i, w, i + 1)
  <2>1. (i + 1) - 1 = i /\ i + 1 \in Nat /\ i <= i + 1 /\ i + 1 <= Len(Shown(ar[x]))
    BY <1>1, <1>2, <1>5
  <2>2. Patched(Shown(ar[x]), i, <<>>, i + 1)
          = SubSeq(Shown(ar[x]), 1, i) \o SubSeq(Shown(ar[x]), (i + 1) + 1, Len(Shown(ar[x])))
    BY <1>1, <1>5, <2>1, PatchedEmpty
  <2>. QED
    BY <1>5, <1>6, <2>1, <2>2 DEF RemoveAt
<1>9. \A z \in Arrays : z # x => ar'[z] = ar[z]
  BY <1>2, <1>3, <1>4
<1>10. Shown(ar'[x]) = RemoveAt(Seen[x], i + 1)
  BY <1>5, <1>7, <1>8
<1>. QED
  BY <1>1, <1>2, <1>5, <1>9, <1>10, OneChanges

(* The last reference to an array is released. *)
LEMMA RenewShown ==
  ASSUME ListInv, NEW x \in Arrays, Renew(x)
  PROVE  Seen' = [Seen EXCEPT ![x] = <<>>]
<1>. DEFINE s == Renewed(Now, x)
<1>1. IInv /\ Become(s)
  BY DEF ListInv, Renew, Renewed
<1>2. Sound(Now) /\ Now.ar = ar
  BY <1>1, Rows0
<1>. HIDE DEF s
<1>3. Sound(s) /\ (\A y \in Arrays : y # x => s.ar[y] = Now.ar[y]) /\ s.ar[x].size = 0
  BY <1>2, RenewFacts DEF s
<1>4. ar' = s.ar /\ RowOK(ar'[x])
  BY <1>1, <1>3, Became
<1>5. Shown(ar'[x]) \in Seq(Elements) /\ Len(Shown(ar'[x])) = 0
  BY <1>3, <1>4, ShownFacts
<1>6. Shown(ar'[x]) = <<>>
  BY <1>5, EmptySeq
<1>7. \A z \in Arrays : z # x => ar'[z] = ar[z]
  BY <1>2, <1>3, <1>4
<1>. QED
  BY <1>6, <1>7, OneChanges

LEMMA TwoChange ==
  ASSUME NEW x \in Arrays, NEW y \in Arrays, x # y,
         \A z \in Arrays : z # x /\ z # y => ar'[z] = ar[z],
         NEW p, Shown(ar'[x]) = p, NEW q, Shown(ar'[y]) = q
  PROVE  Seen' = [Seen EXCEPT ![x] = p, ![y] = q]
<1>1. \A z \in Arrays : Seen'[z] = IF z = x THEN p ELSE IF z = y THEN q ELSE Seen[z]
  BY DEF Seen
<1>2. Seen' = [z \in Arrays |-> IF z = x THEN p ELSE IF z = y THEN q ELSE Seen[z]]
  BY <1>1 DEF Seen
<1>3. [Seen EXCEPT ![x] = p, ![y] = q]
        = [z \in Arrays |-> IF z = x THEN p ELSE IF z = y THEN q ELSE Seen[z]]
  BY DEF Seen
<1>. QED
  BY <1>2, <1>3

(* The array q is what p leaves when its elements b .. e - 1 are taken or copied. *)
Leaves(p, q, b, e, mode) ==
  /\ q.size = IF mode = "TRANSFER" THEN p.size - (e - b) ELSE p.size
  /\ \A j \in Cells : q.cell[j] = IF mode = "TRANSFER" /\ b <= j /\ j < b + (e - b)
                                   THEN NULL ELSE p.cell[j]

(* A transfer takes the source's last elements, and a copy none. *)
LEMMA SourceShown ==
  ASSUME NEW p, RowOK(p), NEW q, RowOK(q), NEW b \in Nat, NEW e \in Nat, b <= e, e <= p.size,
         NEW mode, mode = "TRANSFER" => e = p.size, Leaves(p, q, b, e, mode)
  PROVE  Shown(q) = IF mode = "TRANSFER"
                    THEN SubSeq(Shown(p), 1, b) \o SubSeq(Shown(p), e + 1, Len(Shown(p)))
                    ELSE Shown(p)
<1>1. /\ p.size \in Nat /\ Shown(p) \in Seq(Elements) /\ Len(Shown(p)) = p.size
      /\ \A j \in Cells : j \in Nat
  BY ShownFacts, Constants
<1>2. CASE mode = "TRANSFER"
  <2>1. PICK w \in Seq(Elements) : w = <<>> /\ Len(w) = 0
    BY EmptySeq
  <2>2. q.size = b + Len(w) + (p.size - e)
    BY <1>1, <1>2, <2>1 DEF Leaves
  <2>3. ASSUME NEW j \in Cells, j < q.size
        PROVE  j < b /\ q.cell[j] = p.cell[j]
    BY <1>1, <1>2, <2>1, <2>2, <2>3 DEF Leaves
  <2>4. Replaces(p, q, b, w, e)
    BY <2>2, <2>3 DEF Replaces
  <2>5. Shown(q) = Patched(Shown(p), b, w, e)
    BY <2>4, ShownPatched
  <2>6. Patched(Shown(p), b, <<>>, e)
          = SubSeq(Shown(p), 1, b) \o SubSeq(Shown(p), e + 1, Len(Shown(p)))
    BY <1>1, PatchedEmpty
  <2>. QED
    BY <1>2, <2>1, <2>5, <2>6
<1>3. CASE mode # "TRANSFER"
  <2>1. q.size = p.size /\ \A j \in Cells : q.cell[j] = p.cell[j]
    BY <1>3 DEF Leaves
  <2>2. \A n \in 1 .. p.size : n - 1 \in Cells
    BY ShownFacts
  <2>3. Shown(q) = Shown(p)
    BY <2>1, <2>2 DEF Shown
  <2>. QED
    BY <1>3, <2>3
<1>. QED
  BY <1>2, <1>3

(* A splice that keeps what jobject.h promises. *)
ProperSplice(x, i, r, y, b, e, mode) ==
  /\ x # y /\ i + r <= ar[x].size /\ b < e /\ e <= ar[y].size
  /\ ar[x].size - r + (e - b) <= MaxCells
  /\ mode = "TRANSFER" => e = ar[y].size
  /\ Splice(x, i, r, y, b, e, mode)

(* The elements of its target and of its source after it. *)
Joint(x, i, r, y, b, e) ==
  SubSeq(Seen[x], 1, i) \o SubSeq(Seen[y], b + 1, e) \o SubSeq(Seen[x], i + r + 1, Len(Seen[x]))
Rest(y, b, e, mode) ==
  IF mode = "TRANSFER" THEN SubSeq(Seen[y], 1, b) \o SubSeq(Seen[y], e + 1, Len(Seen[y]))
  ELSE Seen[y]

(* jarray_splice and jarray_splice_append: elements of y replace elements of x. *)
LEMMA SpliceShown ==
  ASSUME ListInv, NEW x \in Arrays, NEW y \in Arrays, NEW i \in Nat, NEW r \in Nat,
         NEW b \in Nat, NEW e \in Nat, NEW mode \in Modes, ProperSplice(x, i, r, y, b, e, mode)
  PROVE  Seen' = [Seen EXCEPT ![x] = Joint(x, i, r, y, b, e), ![y] = Rest(y, b, e, mode)]
<1>. DEFINE s == Spliced(Now, x, i, r, y, b, e, mode)
            n == e - b
            k == IF r < n THEN r ELSE n
            c == [x |-> x, i |-> i, k |-> k, y |-> y, b |-> b, mode |-> mode]
<1>. USE DEF ProperSplice
<1>1. IInv /\ Become(s)
  BY DEF ListInv, Splice
<1>2. /\ Sound(Now) /\ Now.ar = ar
      /\ RowOK(ar[x]) /\ ar[x].size \in Nat /\ RowOK(ar[y]) /\ ar[y].size \in Nat
  BY <1>1, Rows0
<1>3. c.x = x /\ c.y = y /\ c.i = i /\ c.b = b /\ c.mode = mode /\ n \in Nat /\ b + n = e
  OBVIOUS
<1>4. /\ Mid(Now, s, c, n)
      /\ i + r <= Now.ar[x].size /\ Now.ar[x].size - r + n <= MaxCells =>
           Aimed(Now, s, c, n, r)
  <2>1. /\ r = 0 \/ i + r <= Now.ar[x].size
        /\ e <= Now.ar[y].size
    BY <1>2
  <2>. QED
    BY <1>2, <2>1, SpliceMid
<1>. HIDE DEF s, c, n, k
<1>5. Aimed(Now, s, c, n, r)
  BY <1>2, <1>4 DEF n
<1>6. Sound(s) /\ ar' = s.ar /\ RowOK(ar'[x]) /\ RowOK(ar'[y])
  <2>1. Sound(s)
    BY <1>4 DEF Mid
  <2>. QED
    BY <1>1, <2>1, Became
<1>7. /\ Seen[x] = Shown(ar[x]) /\ Seen[y] = Shown(ar[y])
      /\ Shown(ar[y]) \in Seq(Elements) /\ Len(Shown(ar[y])) = ar[y].size
      /\ \A a \in 1 .. ar[y].size :
           Shown(ar[y])[a] = Read(ar[y].cell[a - 1]) /\ Shown(ar[y])[a] \in Elements
  <2>1. /\ Shown(ar[y]) \in Seq(Elements) /\ Len(Shown(ar[y])) = ar[y].size
        /\ \A a \in 1 .. ar[y].size : Shown(ar[y])[a] = Read(ar[y].cell[a - 1])
    BY <1>2, ShownFacts
  <2>2. \A a \in 1 .. ar[y].size : Shown(ar[y])[a] \in Elements
    BY <2>1, LenProperties
  <2>. QED
    BY <2>1, <2>2 DEF Seen
<1>. DEFINE w == SubSeq(Shown(ar[y]), b + 1, e)
<1>8. /\ w \in Seq(Elements) /\ Len(w) = n
      /\ \A a \in 1 .. n : w[a] = Read(ar[y].cell[b + a - 1])
  <2>1. \A a \in b + 1 .. e : Shown(ar[y])[a] \in Elements /\ a \in 1 .. ar[y].size
    BY <1>2, <1>7
  <2>2. /\ w \in Seq(Elements) /\ Len(w) = (IF b + 1 <= e THEN e - (b + 1) + 1 ELSE 0)
        /\ \A a \in 1 .. e - (b + 1) + 1 : w[a] = Shown(ar[y])[(b + 1) + a - 1]
    BY <2>1, SubSeqProperties
  <2>. HIDE DEF w
  <2>3. e - (b + 1) + 1 = n /\ Len(w) = n
    BY <2>2 DEF n
  <2>4. ASSUME NEW a \in 1 .. n
        PROVE  w[a] = Read(ar[y].cell[b + a - 1])
    <3>1. (b + 1) + a - 1 = b + a /\ b + a \in b + 1 .. e
      BY <1>3
    <3>2. w[a] = Shown(ar[y])[b + a]
      BY <2>2, <2>3, <3>1
    <3>. QED
      BY <1>7, <2>1, <3>1, <3>2
  <2>. QED
    BY <2>2, <2>3, <2>4
<1>. HIDE DEF w
<1>9. Shown(ar'[x]) = Patched(Shown(ar[x]), i, w, i + r)
  <2>1. /\ ar'[x].size = ar[x].size + n - r
        /\ \A j \in Cells : j < ar'[x].size =>
             ar'[x].cell[j] = IF j < i THEN ar[x].cell[j]
                              ELSE IF j < i + n THEN ar[y].cell[b + (j - i)]
                              ELSE ar[x].cell[j - n + r]
    BY <1>2, <1>3, <1>5, <1>6 DEF Aimed
  <2>2. ar'[x].size = i + Len(w) + (ar[x].size - (i + r))
    BY <1>2, <1>3, <1>8, <2>1
  <2>3. ASSUME NEW j \in Cells, j < ar'[x].size
        PROVE  Read(ar'[x].cell[j])
                 = IF j < i THEN Read(ar[x].cell[j])
                   ELSE IF j < i + Len(w) THEN w[j - i + 1]
                   ELSE Read(ar[x].cell[j - (i + Len(w)) + (i + r)])
    <3>1. j \in Nat
      BY Constants
    <3>2. CASE j < i
      BY <2>1, <2>3, <3>2
    <3>3. CASE ~(j < i) /\ j < i + n
      <4>1. j - i + 1 \in 1 .. n /\ b + (j - i + 1) - 1 = b + (j - i)
        BY <1>3, <3>1, <3>3
      <4>. QED
        BY <1>8, <2>1, <2>3, <3>3, <4>1
    <3>4. CASE ~(j < i) /\ ~(j < i + n)
      <4>1. j - (i + n) + (i + r) = j - n + r
        BY <1>3, <3>1
      <4>. QED
        BY <1>8, <2>1, <2>3, <3>4, <4>1
    <3>. QED
      BY <1>3, <3>1, <3>2, <3>3, <3>4
  <2>4. Replaces(ar[x], ar'[x], i, w, i + r)
    BY <2>2, <2>3 DEF Replaces
  <2>5. i + r \in Nat /\ i <= i + r
    OBVIOUS
  <2>. QED
    BY <1>2, <1>6, <1>8, <2>4, <2>5, ShownPatched
<1>10. Shown(ar'[y]) = Rest(y, b, e, mode)
  <2>1. Leaves(ar[y], ar'[y], b, e, mode) /\ b <= e
    BY <1>2, <1>3, <1>4, <1>6 DEF Mid, Leaves, n
  <2>2. PICK p : p = ar[y]
    OBVIOUS
  <2>3. PICK q : q = ar'[y]
    OBVIOUS
  <2>4. /\ RowOK(p) /\ RowOK(q) /\ Leaves(p, q, b, e, mode)
        /\ b \in Nat /\ e \in Nat /\ b <= e /\ e <= p.size
        /\ mode = "TRANSFER" => e = p.size
    BY <1>2, <1>6, <2>1, <2>2, <2>3
  <2>5. Shown(q) = IF mode = "TRANSFER"
                   THEN SubSeq(Shown(p), 1, b) \o SubSeq(Shown(p), e + 1, Len(Shown(p)))
                   ELSE Shown(p)
    BY ONLY ZenonT(60), <2>4, SourceShown
  <2>. QED
    BY <1>7, <2>2, <2>3, <2>5 DEF Rest
<1>11. \A z \in Arrays : z # x /\ z # y => ar'[z] = ar[z]
  BY <1>2, <1>3, <1>4, <1>6 DEF Mid
<1>12. Shown(ar'[x]) = Joint(x, i, r, y, b, e)
  BY <1>7, <1>9 DEF Patched, Joint, w
<1>. QED
  BY <1>10, <1>11, <1>12, TwoChange

-------------------------------------------------------------------------------
(* Every call is one of a list, or none. *)

LEMMA ListNextIsNext ==
  ASSUME ListInv, ListNext
  PROVE  IInv' /\ ~split'
<1>1. IInv /\ \A x \in Arrays : ar[x].size \in Nat
  BY Rows0 DEF ListInv
<1>2. PICK x \in Arrays :
        \/ \E i \in Indices, v \in Elements :
             \/ Put(x, i, v)
             \/ i <= ar[x].size /\ ar[x].size < MaxCells /\ Insert(x, i, v)
        \/ \E i \in Indices : RemoveIndex(x, i)
        \/ \E y \in Arrays \ {x}, i \in 0 .. ar[x].size, mode \in Modes :
             \E r \in 0 .. ar[x].size - i, e \in 1 .. ar[y].size : \E b \in 0 .. e - 1 :
               /\ ar[x].size - r + (e - b) <= MaxCells
               /\ mode = "TRANSFER" => e = ar[y].size
               /\ Splice(x, i, r, y, b, e, mode)
        \/ \E y \in Arrays \ {x}, mode \in Modes :
             ar[x].size = 0 /\ SpliceAppend(x, y, mode)
        \/ Renew(x)
  BY DEF ListNext
<1>3. ASSUME NEW i \in Indices, NEW v \in Elements, Put(x, i, v) \/ Insert(x, i, v)
      PROVE  IInv' /\ ~split'
  BY <1>1, <1>3, PutKeeps, InsertKeeps DEF ListInv, Put, Insert
<1>4. ASSUME NEW i \in Indices, RemoveIndex(x, i)
      PROVE  IInv' /\ ~split'
  BY <1>1, <1>4, RemoveKeeps DEF ListInv, RemoveIndex
<1>5. ASSUME NEW y \in Arrays \ {x}, NEW i \in Nat, NEW r \in Nat, NEW e \in Nat, NEW b \in Nat,
             NEW mode, mode = "TRANSFER" => e = ar[y].size, Splice(x, i, r, y, b, e, mode)
      PROVE  IInv' /\ ~split'
  <2>1. y \in Arrays /\ x # y /\ ar[y].size \in Nat
    BY <1>1
  <2>2. IInv'
    BY <1>1, <1>5, <2>1, SpliceKeeps
  <2>3. ~split'
    <3>1. ~(mode = "TRANSFER" /\ e < ar[y].size)
      BY <1>5, <2>1
    <3>2. split' = (split \/ (mode = "TRANSFER" /\ e < ar[y].size))
      BY <1>5 DEF Splice
    <3>. QED
      BY <3>1, <3>2 DEF ListInv
  <2>. QED
    BY <2>2, <2>3
<1>6. ASSUME NEW y \in Arrays \ {x}, NEW mode \in Modes, SpliceAppend(x, y, mode)
      PROVE  IInv' /\ ~split'
  <2>. DEFINE i == IF ar[x].size = 0 THEN 0 ELSE ar[x].size - 1
  <2>1. i \in Nat /\ ar[y].size \in Nat /\ Splice(x, i, 0, y, 0, ar[y].size, mode)
    BY <1>1, <1>6 DEF SpliceAppend
  <2>. HIDE DEF i
  <2>. QED
    BY <1>5, <2>1
<1>7. CASE Renew(x)
  BY <1>1, <1>7, RenewKeeps DEF ListInv, Renew
<1>8. ASSUME NEW y \in Arrays \ {x}, NEW i \in 0 .. ar[x].size, NEW mode \in Modes,
             NEW r \in 0 .. ar[x].size - i, NEW e \in 1 .. ar[y].size, NEW b \in 0 .. e - 1,
             mode = "TRANSFER" => e = ar[y].size, Splice(x, i, r, y, b, e, mode)
      PROVE  IInv' /\ ~split'
  <2>1. i \in Nat /\ r \in Nat /\ e \in Nat /\ b \in Nat
    BY <1>1
  <2>. QED
    BY <1>5, <1>8, <2>1
<1>. QED
  BY <1>2, <1>3, <1>4, <1>6, <1>7, <1>8

LEMMA ListInvInit == Init => ListInv
BY InitIInv DEF ListInv, Init

LEMMA ListInvNext == ListInv /\ [ListNext]_vars => ListInv'
<1>1. ASSUME ListInv, ListNext
      PROVE  ListInv'
  BY <1>1, ListNextIsNext DEF ListInv
<1>2. ASSUME ListInv, UNCHANGED vars
      PROVE  ListInv'
  BY <1>2, NextIInv DEF ListInv, vars
<1>. QED
  BY <1>1, <1>2

LEMMA PutMaps ==
  ASSUME ListInv, NEW x \in Arrays, NEW i \in Indices, NEW v \in Elements, Put(x, i, v)
  PROVE  List!Put(x, i, v)
<1>1. Seen = [z \in Arrays |-> Contents(z)] /\ Seen' = [z \in Arrays |-> Contents(z)]'
  BY DEF Seen, Shown, Contents, Read
<1>2. Seen' = [Seen EXCEPT ![x] =
           [n \in 1 .. (IF i < Len(Seen[x]) THEN Len(Seen[x]) ELSE i + 1) |->
              IF n = i + 1 THEN v ELSE IF n <= Len(Seen[x]) THEN Seen[x][n] ELSE JNull]]
  BY PutShown
<1>. QED
  BY <1>1, <1>2 DEF List!Put

LEMMA InsertMaps ==
  ASSUME ListInv, NEW x \in Arrays, NEW i \in Indices, NEW v \in Elements,
         i <= ar[x].size, ar[x].size < MaxCells, Insert(x, i, v)
  PROVE  List!Insert(x, i, v)
<1>1. Seen = [z \in Arrays |-> Contents(z)] /\ Seen' = [z \in Arrays |-> Contents(z)]'
  BY DEF Seen, Shown, Contents, Read
<1>2. /\ i \in 0 .. Len(Seen[x])
      /\ Seen' = [Seen EXCEPT ![x] = InsertAt(Seen[x], i + 1, v)]
  BY InsertShown
<1>3. i <= List!Len0(x)
  BY <1>1, <1>2 DEF List!Len0
<1>. QED
  BY <1>1, <1>2, <1>3 DEF List!Insert, List!InsertAt, InsertAt

LEMMA RemoveMaps ==
  ASSUME ListInv, NEW x \in Arrays, NEW i \in Indices, RemoveIndex(x, i)
  PROVE  List!RemoveIndex(x, i)
<1>1. Seen = [z \in Arrays |-> Contents(z)] /\ Seen' = [z \in Arrays |-> Contents(z)]'
  BY DEF Seen, Shown, Contents, Read
<1>2. /\ i \in 0 .. Len(Seen[x]) - 1
      /\ Seen' = [Seen EXCEPT ![x] = RemoveAt(Seen[x], i + 1)]
  BY RemoveShown
<1>3. i < List!Len0(x)
  <2>1. RowOK(ar[x])
    BY Rows0 DEF ListInv
  <2>2. Len(Seen[x]) \in Nat
    BY <2>1, ShownFacts DEF Seen
  <2>. QED
    BY <1>1, <1>2, <2>2 DEF List!Len0
<1>. QED
  BY <1>1, <1>2, <1>3 DEF List!RemoveIndex, List!RemoveAt, RemoveAt

LEMMA RenewMaps ==
  ASSUME ListInv, NEW x \in Arrays, Renew(x)
  PROVE  List!Clear(x)
<1>1. Seen = [z \in Arrays |-> Contents(z)] /\ Seen' = [z \in Arrays |-> Contents(z)]'
  BY DEF Seen, Shown, Contents, Read
<1>2. Seen' = [Seen EXCEPT ![x] = <<>>]
  BY RenewShown
<1>. QED
  BY <1>1, <1>2 DEF List!Clear

LEMMA SpliceMaps ==
  ASSUME ListInv, NEW x \in Arrays, NEW y \in Arrays, NEW i \in Nat, NEW r \in Nat,
         NEW b \in Nat, NEW e \in Nat, NEW mode \in Modes, ProperSplice(x, i, r, y, b, e, mode)
  PROVE  List!Splice(x, i, r, y, b, e, mode = "TRANSFER")
<1>1. Seen = [z \in Arrays |-> Contents(z)] /\ Seen' = [z \in Arrays |-> Contents(z)]'
  BY DEF Seen, Shown, Contents, Read
<1>2. Seen' = [Seen EXCEPT ![x] = Joint(x, i, r, y, b, e), ![y] = Rest(y, b, e, mode)]
  BY SpliceShown
<1>. QED
  BY <1>1, <1>2 DEF List!Splice, Joint, Rest

(* The length of a list is the size of its array. *)
LEMMA LengthIsSize ==
  ASSUME ListInv, NEW x \in Arrays
  PROVE  ar[x].size \in Nat /\ List!Len0(x) = ar[x].size
<1>1. Seen = [z \in Arrays |-> Contents(z)]
  BY DEF Seen, Shown, Contents, Read
<1>2. RowOK(ar[x])
  BY Rows0 DEF ListInv
<1>3. Len(Seen[x]) = ar[x].size /\ ar[x].size \in Nat
  BY <1>2, ShownFacts DEF Seen
<1>. QED
  BY <1>1, <1>3 DEF List!Len0

(* Every call of ListNext does what it is documented to do. *)
LEMMA CallsDocumented ==
  ASSUME ListInv, ListNext
  PROVE  DocumentedCall
<1>1. IInv /\ \A x \in Arrays : ar[x].size \in Nat
  BY Rows0 DEF ListInv
<1>2. PICK x \in Arrays :
        \/ \E i \in Indices, v \in Elements :
             \/ Put(x, i, v)
             \/ i <= ar[x].size /\ ar[x].size < MaxCells /\ Insert(x, i, v)
        \/ \E i \in Indices : RemoveIndex(x, i)
        \/ \E y \in Arrays \ {x}, i \in 0 .. ar[x].size, mode \in Modes :
             \E r \in 0 .. ar[x].size - i, e \in 1 .. ar[y].size : \E b \in 0 .. e - 1 :
               /\ ar[x].size - r + (e - b) <= MaxCells
               /\ mode = "TRANSFER" => e = ar[y].size
               /\ Splice(x, i, r, y, b, e, mode)
        \/ \E y \in Arrays \ {x}, mode \in Modes :
             ar[x].size = 0 /\ SpliceAppend(x, y, mode)
        \/ Renew(x)
  BY DEF ListNext
<1>3. ASSUME NEW i \in Indices, NEW v \in Elements, Put(x, i, v)
      PROVE  DocumentedCall
  <2>1. List!Put(x, i, v)
    BY <1>3, PutMaps
  <2>. QED
    BY <1>3, <2>1, Zenon DEF DocumentedCall
<1>4. ASSUME NEW i \in Indices, NEW v \in Elements,
             i <= ar[x].size, ar[x].size < MaxCells, Insert(x, i, v)
      PROVE  DocumentedCall
  <2>1. List!Insert(x, i, v)
    BY <1>4, InsertMaps
  <2>. QED
    BY <1>4, <2>1, Zenon DEF DocumentedCall
<1>5. ASSUME NEW i \in Indices, RemoveIndex(x, i)
      PROVE  DocumentedCall
  <2>1. List!RemoveIndex(x, i)
    BY <1>5, RemoveMaps
  <2>. QED
    BY <1>5, <2>1, Zenon DEF DocumentedCall
<1>6. ASSUME NEW y \in Arrays \ {x}, NEW i \in 0 .. ar[x].size, NEW mode \in Modes,
             NEW r \in 0 .. ar[x].size - i, NEW e \in 1 .. ar[y].size, NEW b \in 0 .. e - 1,
             ar[x].size - r + (e - b) <= MaxCells,
             mode = "TRANSFER" => e = ar[y].size, Splice(x, i, r, y, b, e, mode)
      PROVE  DocumentedCall
  <2>1. /\ i \in Nat /\ r \in Nat /\ e \in Nat /\ b \in Nat /\ i + r <= ar[x].size
        /\ y \in Arrays /\ ProperSplice(x, i, r, y, b, e, mode)
    BY <1>1, <1>6 DEF ProperSplice
  <2>2. List!Splice(x, i, r, y, b, e, mode = "TRANSFER")
    BY <2>1, SpliceMaps
  <2>. QED
    BY <1>6, <2>2, Zenon DEF DocumentedCall
<1>7. ASSUME NEW y \in Arrays \ {x}, NEW mode \in Modes,
             ar[x].size = 0, SpliceAppend(x, y, mode)
      PROVE  DocumentedCall
  <2>. DEFINE e == ar[y].size
  <2>1. e \in Nat /\ y \in Arrays /\ x # y
    BY <1>1
  <2>2. Splice(x, 0, 0, y, 0, e, mode)
    BY <1>7 DEF SpliceAppend
  <2>3. 0 < e /\ e <= MaxCells
    <3>1. RowOK(ar[y])
      BY <2>1, Rows0 DEF ListInv
    <3>2. ar[y].size <= MaxCells /\ MaxCells \in Nat
      BY <2>1, <3>1, Constants DEF RowOK, Rows
    <3>3. 0 < e
      BY <2>2 DEF Splice
    <3>. QED
      BY <2>1, <3>2, <3>3
  <2>4. ProperSplice(x, 0, 0, y, 0, e, mode)
    BY <1>7, <2>1, <2>2, <2>3 DEF ProperSplice
  <2>5. List!Splice(x, 0, 0, y, 0, e, mode = "TRANSFER")
    BY <2>1, <2>4, SpliceMaps
  <2>6. List!Len0(x) = 0 /\ List!Len0(y) = e
    BY <1>7, <2>1, LengthIsSize
  <2>7. List!SpliceAppend(x, y, mode = "TRANSFER")
    BY <2>5, <2>6 DEF List!SpliceAppend
  <2>. QED
    BY <1>7, <2>7, Zenon DEF DocumentedCall
<1>8. CASE Renew(x)
  <2>1. List!Clear(x)
    BY <1>8, RenewMaps
  <2>. QED
    BY <1>8, <2>1, Zenon DEF DocumentedCall
<1>. QED
  BY <1>2, <1>3, <1>4, <1>5, <1>6, <1>7, <1>8

(* What is documented of a call is a step of lists. *)
LEMMA ListStepMaps ==
  ListInv /\ [DocumentedCall]_vars => [List!Next]_([x \in Arrays |-> Contents(x)])
<1>1. ASSUME UNCHANGED vars
      PROVE  UNCHANGED [x \in Arrays |-> Contents(x)]
  BY <1>1 DEF vars, Contents
<1>2. ASSUME ListInv, DocumentedCall
      PROVE  List!Next
  <2>1. PICK x \in Arrays :
          \/ \E i \in Indices, v \in Elements : List!Put(x, i, v) \/ List!Insert(x, i, v)
          \/ \E i \in Indices : List!RemoveIndex(x, i)
          \/ \E y \in Arrays \ {x}, i \in 0 .. ar[x].size, mode \in Modes :
               \E r \in 0 .. ar[x].size - i, e \in 1 .. ar[y].size : \E b \in 0 .. e - 1 :
                 List!Splice(x, i, r, y, b, e, mode = "TRANSFER")
          \/ \E y \in Arrays \ {x}, mode \in Modes :
               List!SpliceAppend(x, y, mode = "TRANSFER")
          \/ List!Clear(x)
    BY <1>2, SMTT(60) DEF DocumentedCall
  <2>2. ASSUME NEW y \in Arrays \ {x}, NEW i \in 0 .. ar[x].size, NEW mode \in Modes,
               NEW r \in 0 .. ar[x].size - i, NEW e \in 1 .. ar[y].size, NEW b \in 0 .. e - 1,
               List!Splice(x, i, r, y, b, e, mode = "TRANSFER")
        PROVE  List!Next
    <3>. DEFINE t == mode = "TRANSFER"
    <3>1. t \in BOOLEAN
      OBVIOUS
    <3>2. List!Splice(x, i, r, y, b, e, t)
      BY <2>2
    <3>. HIDE DEF t
    <3>3. i \in 0 .. List!Len0(x) /\ r \in 0 .. List!Len0(x) - i /\ e \in 1 .. List!Len0(y)
      BY <1>2, LengthIsSize
    <3>. QED
      BY <3>1, <3>2, <3>3, Zenon DEF List!Next
  <2>3. ASSUME NEW y \in Arrays \ {x}, NEW mode \in Modes,
               List!SpliceAppend(x, y, mode = "TRANSFER")
        PROVE  List!Next
    <3>. DEFINE t == mode = "TRANSFER"
    <3>1. t \in BOOLEAN
      OBVIOUS
    <3>2. List!SpliceAppend(x, y, t)
      BY <2>3
    <3>. HIDE DEF t
    <3>. QED
      BY <3>1, <3>2, Zenon DEF List!Next
  <2>. QED
    BY <2>1, <2>2, <2>3, Zenon DEF List!Next
<1>. QED
  BY <1>1, <1>2

LEMMA ListInitMaps == Init => List!Init
<1>. SUFFICES ASSUME Init PROVE List!Init
  OBVIOUS
<1>1. Seen = [z \in Arrays |-> Contents(z)]
  BY DEF Seen, Shown, Contents, Read
<1>2. ASSUME NEW x \in Arrays
      PROVE  Shown(ar[x]) = <<>>
  <2>1. PICK hint \in [Arrays -> 0 .. MaxCells] : ar = [z \in Arrays |-> New(hint[z])]
    BY DEF Init
  <2>2. hint[x] \in Nat /\ ar[x] = New(hint[x])
    BY <2>1, Constants
  <2>3. RowOK(ar[x]) /\ ar[x].size = 0
    BY <2>2, NewFacts
  <2>4. Shown(ar[x]) \in Seq(Elements) /\ Len(Shown(ar[x])) = 0
    BY <2>3, ShownFacts
  <2>. QED
    BY <2>4, EmptySeq
<1>3. Seen = [x \in Arrays |-> <<>>]
  BY <1>2 DEF Seen
<1>. QED
  BY <1>1, <1>3 DEF List!Init

(* The sizes, capacities and cells of every array are in range, whatever calls
   made them grow, shrink and exchange elements (jobject.c 1069-1391). *)
THEOREM TypeCorrect == Spec => []TypeOK
BY InitIInv, NextIInv, IInvTypeOK, PTL DEF Spec

(* Unless a transfer took elements from the middle of an array, the cells beyond
   the end of every array are NULL, as j_destroy_array assumes. *)
THEOREM BeyondTheEnd == Spec => []OutsideEmpty
BY InitIInv, NextIInv, IInvOutsideEmpty, PTL DEF Spec

(* Whatever the calls, every reference to a value that the arrays own is held by
   one cell or was counted as lost: no cell is released twice, and none holds a
   value without a reference to it. *)
THEOREM OneReferencePerCell == Spec => []Ownership
BY InitIInv, NextIInv, IInvOwnership, PTL DEF Spec

(* References are lost only when memory runs out or a transfer takes elements
   from the middle of an array. *)
THEOREM LossNeedsACause == Spec => []NothingLost
<1>1. IInv => NothingLost
  BY DEF IInv, NothingLost
<1>. QED
  BY <1>1, InitIInv, NextIInv, PTL DEF Spec

(* As long as a client inserts within an array, has memory for it, transfers the
   last elements of an array and appends to an empty one, every put, insertion,
   removal and splice does to the elements jarray_get returns what jobject.h says
   of that call with its arguments, whatever the buckets, the cells that were
   never assigned and the element by element moves of jarray_splice; so the
   arrays are lists. *)
THEOREM ArraysAreLists == ListSpec => Lists /\ List!Spec
<1>1. Init => List!Init
  BY ListInitMaps
<1>2. ListInv /\ [ListNext]_vars => [DocumentedCall]_vars
  BY CallsDocumented
<1>. QED
  BY <1>1, <1>2, ListInvInit, ListInvNext, ListStepMaps, PTL DEF ListSpec, Lists, List!Spec
================================================================================
