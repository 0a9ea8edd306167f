-------------------------------- MODULE JHandle --------------------------------
(***************************************************************************)
(* The handles of the C++ wrapper (JValue.cpp, JDomParser.cpp) over the    *)
(* counted values of the C library: each JValue and each ObjectIterator    *)
(* holds one reference, and releases it when it is assigned or destroyed.  *)
(* The table of an object is its list of pairs in the order they were      *)
(* stored (JObject shows that the hash table keeps it), an array its list  *)
(* of elements (JArray).  The build is a release build without            *)
(* PBNJSON_ZERO_COPY_STL_STR, as JValue.h:37 has it.                       *)
(***************************************************************************)
EXTENDS Integers, Sequences, FiniteSets, SequencesExt

CONSTANTS
  Handles, Dom,      (* JValue objects, and the one a parser keeps, m_dom    *)
  Walks,             (* iterators                                            *)
  Addresses,         (* bound: where values can be allocated                 *)
  Documents,         (* see JShared                                          *)
  Null, EmptyString, (* JNULL and JEMPTY_STR, static and not counted         *)
  MaxItems, MaxLost  (* bounds: the size of a container, and the references
                        to a value that are never released                   *)

ASSUME HandleConstants ==
  /\ Dom \in Handles
  /\ Null # EmptyString /\ {Null, EmptyString} \cap Addresses = {}
  /\ IsFiniteSet(Handles) /\ IsFiniteSet(Walks) /\ IsFiniteSet(Addresses)
  /\ MaxItems \in Nat /\ MaxLost \in Nat

VARIABLES
  heap, (* the allocated values: kind, text, items, and cnt, their m_refCnt  *)
  hand, (* the m_jval of each handle                                         *)
  walk, (* the m_parent of each iterator, and the number of the pair its
           opaque pointer is at, 0 for the head of the list or NULL          *)
  lost  (* references a refused call was given and did not release           *)

vars == <<heap, hand, walk, lost>>

Kind(h, p) ==
  IF p \in DOMAIN h THEN h[p].kind ELSE IF p = EmptyString THEN "string" ELSE "null"
Text(h, p) == IF p \in DOMAIN h THEN h[p].text ELSE Null

(* The places of the values S, and how often these refer to q *)
Cells(h, S) ==
  UNION {UNION {{<<p, i, j>> : j \in DOMAIN h[p].items[i]} : i \in DOMAIN h[p].items} : p \in S}
At(h, c) == h[c[1]].items[c[2]][c[3]]
Refs(h, S, q) == Cardinality({c \in Cells(h, S) : At(h, c) = q})

Kinds == {"object", "array", "string"}

(* The values of an item: a key and a value, or an element *)
Width(kind) == IF kind = "object" THEN 2 ELSE 1

(* A document is a tree: every node but the root is in one place of it. *)
ASSUME DocumentsAreTrees ==
  \A doc \in Documents :
    /\ DOMAIN doc = 1 .. Len(doc) /\ Len(doc) \in Nat \ {0}
    /\ \A n \in DOMAIN doc :
         /\ doc[n].kind \in Kinds
         /\ doc[n].items \in Seq([1 .. Width(doc[n].kind) -> 2 .. Len(doc)])
         /\ Len(doc[n].items) <= IF doc[n].kind = "string" THEN 0 ELSE MaxItems
    /\ \A n \in 2 .. Len(doc) : Refs(doc, DOMAIN doc, n) = 1

(* A node of a document has no other fields. *)
ASSUME DocumentNodes ==
  \A doc \in Documents : \A n \in DOMAIN doc :
    doc[n] = [kind |-> doc[n].kind, text |-> doc[n].text, items |-> doc[n].items]

(***************************************************************************)
(* Counting                                                                *)
(***************************************************************************)
(* jvalue_copy *)
Copied(h, p) == IF p \in DOMAIN h THEN [h EXCEPT ![p].cnt = @ + 1] ELSE h

(* What is referred to no more when S and a reference to p are gone *)
Unheld(h, S, p) ==
  {q \in DOMAIN h : Refs(h, S, q) + (IF q = p THEN 1 ELSE 0) >= h[q].cnt}

(* What j_release destroys with the last reference to p: p, and with it whatever
   has its last references in what is destroyed.  In which order makes no
   difference. *)
Freed(h, p) ==
  LET freed[n \in 0 .. Cardinality(DOMAIN h)] ==
        IF n = 0 THEN {} ELSE Unheld(h, freed[n - 1], p)
  IN  freed[Cardinality(DOMAIN h)]

(* j_release *)
Released(h, p) ==
  IF p \notin DOMAIN h THEN h
  ELSE IF h[p].cnt > 1 THEN [h EXCEPT ![p].cnt = @ - 1]
  ELSE [q \in DOMAIN h \ Freed(h, p) |->
          [h[q] EXCEPT !.cnt = @ - Refs(h, Freed(h, p), q)]]

(* The values of an item, one after the other *)
AllCopied(h, item) ==
  IF Len(item) = 2 THEN Copied(Copied(h, item[1]), item[2]) ELSE Copied(h, item[1])
AllReleased(h, item) ==
  IF Len(item) = 2 THEN Released(Released(h, item[1]), item[2]) ELSE Released(h, item[1])

(* The document at the addresses at, each node referred to once: by the
   container it is in, the root by who made it. *)
Created(h, doc, at) ==
  [p \in DOMAIN h \cup ToSet(at) |->
     IF p \in DOMAIN h THEN h[p]
     ELSE LET node == doc[CHOOSE i \in DOMAIN doc : at[i] = p]
          IN  [kind |-> node.kind, text |-> node.text, cnt |-> 1,
               items |-> [i \in DOMAIN node.items |->
                            [j \in DOMAIN node.items[i] |-> at[node.items[i][j]]]]]]

(* malloc: any of the free addresses would do *)
Room(doc) == Len(doc) <= Cardinality(Addresses \ DOMAIN heap)
Fresh(doc) == SubSeq(SetToSeq(Addresses \ DOMAIN heap), 1, Len(doc))

(***************************************************************************)
(* Handles                                                                 *)
(***************************************************************************)
(* Variant of Assigned: the old value is released first in any case. *)
AssignedUnguarded(h, old, p) == Copied(Released(h, old), p)

(* JValue::operator=, for a handle that held old *)
Assigned(h, old, p) == IF old = p THEN h ELSE Copied(Released(h, old), p)

(* The handle that held old is assigned a temporary JValue, a copy of p, which
   is destroyed after it. *)
Taken(h, old, p) == Released(Assigned(Copied(h, p), old, p), p)

(* The same for a value that has just been made. *)
Adopted(h, old, p) == Released(Assigned(h, old, p), p)

Init ==
  /\ heap = [p \in {} |-> Null]
  /\ hand = [x \in Handles |-> Null]
  /\ walk = [w \in Walks |-> [object |-> Null, at |-> 0]]
  /\ lost = [p \in Addresses |-> 0]

(* x = JValue(...), Object(), Array() *)
Construct(x, doc) ==
  /\ Len(doc) = 1 /\ Room(doc)
  /\ LET at == Fresh(doc)
     IN  /\ heap' = Adopted(Created(heap, doc, at), hand[x], at[1])
         /\ hand' = [hand EXCEPT ![x] = at[1]]
  /\ UNCHANGED <<walk, lost>>

(* JDomParser::parse: the value of jdom_parse, a container, or JSON null when
   the parser or the schema refuses the input, replaces that of the last parse. *)
Parse(doc) ==
  /\ Room(doc) /\ doc[1].kind \in {"object", "array"}
  /\ LET at == Fresh(doc)
     IN  /\ heap' = Adopted(Created(heap, doc, at), hand[Dom], at[1])
         /\ hand' = [hand EXCEPT ![Dom] = at[1]]
  /\ UNCHANGED <<walk, lost>>

ParseRefused ==
  /\ heap' = Adopted(heap, hand[Dom], Null)
  /\ hand' = [hand EXCEPT ![Dom] = Null]
  /\ UNCHANGED <<walk, lost>>

(* ~JValue, and a new one by the default constructor *)
Scope(x) ==
  /\ heap' = Released(heap, hand[x])
  /\ hand' = [hand EXCEPT ![x] = Null]
  /\ UNCHANGED <<walk, lost>>

(* x = y *)
Assign(x, y) ==
  /\ heap' = Assigned(heap, hand[x], hand[y])
  /\ hand' = [hand EXCEPT ![x] = hand[y]]
  /\ UNCHANGED <<walk, lost>>

(* A temporary copy of p is assigned to x. *)
Fetch(x, p) ==
  /\ heap' = Taken(heap, hand[x], p)
  /\ hand' = [hand EXCEPT ![x] = p]
  /\ UNCHANGED <<walk, lost>>

(* x = parser.getDom() *)
GetDom(x) == Fetch(x, hand[Dom])

(* x = y[i], JSON null outside the array *)
Element(x, y, i) ==
  LET items == heap[hand[y]].items
  IN  /\ Kind(heap, hand[y]) = "array"
      /\ Fetch(x, IF i <= Len(items) THEN items[i][1] ELSE Null)

(* The place of the pair of object p with the text of a name, if any *)
Named(h, p, text) == {i \in DOMAIN h[p].items : Text(h, h[p].items[i][1]) = text}

(* x = y["name"] *)
Member(x, y, name) ==
  /\ Kind(heap, hand[y]) = "object"
  /\ LET at == Named(heap, hand[y], name)
     IN  Fetch(x, IF at = {} THEN Null ELSE heap[hand[y]].items[CHOOSE i \in at : TRUE][2])

(***************************************************************************)
(* Building                                                                *)
(***************************************************************************)
(* The values that roots lead to *)
Under(h, roots) ==
  LET near[n \in 0 .. Cardinality(DOMAIN h)] ==
        IF n = 0 THEN roots \cap DOMAIN h
        ELSE LET reached == near[n - 1]
             IN  reached \cup ((UNION {UNION {ToSet(item) : item \in ToSet(h[p].items)} : p \in reached}) \cap DOMAIN h)
  IN  near[Cardinality(DOMAIN h)]

(* No client puts a container into itself: it could not be written out. *)
Outside(h, p, v) == p \notin Under(h, {v})

Added(ps) == [p \in Addresses |-> lost[p] + Cardinality({i \in DOMAIN ps : ps[i] = p})]
Lose(ps) ==
  /\ Cardinality({r \in Addresses \X (1 .. MaxLost + 1) : r[2] <= Added(ps)[r[1]]}) <= MaxLost
  /\ lost' = Added(ps)

(* Variant of Stored: beyond the end, the item comes right after the last one,
   below the places skipped. *)
StoredAtEnd(h, p, i, item) ==
  LET n     == Len(h[p].items)
      freed == IF i <= n THEN AllReleased(h, h[p].items[i]) ELSE h
      at    == IF i <= n THEN i ELSE n + 1
  IN  [freed EXCEPT ![p].items =
         [j \in 1 .. (IF i > n THEN i ELSE n) |->
            IF j = at THEN item ELSE IF j <= n THEN @[j] ELSE <<Null>>]]

(* Variant of Stored: the pair keeps the key it had, without the new one. *)
StoredUnderOldKey(h, p, i, item) ==
  LET n   == Len(h[p].items)
      new == IF i <= n /\ Len(item) = 2 THEN <<h[p].items[i][1], item[2]>> ELSE item
  IN  IF i <= n THEN Released([h EXCEPT ![p].items[i] = new], Last(h[p].items[i]))
      ELSE [h EXCEPT ![p].items = [j \in 1 .. i |-> IF j = i THEN item
                                                   ELSE IF j <= n THEN @[j] ELSE <<Null>>]]

(* What place i of container p held is released, and the item stored there;
   the places skipped read as JSON null (jarray_put_unsafe,
   jobject_insert_internal). *)
Stored(h, p, i, item) ==
  LET n     == Len(h[p].items)
      freed == IF i <= n THEN AllReleased(h, h[p].items[i]) ELSE h
  IN  [freed EXCEPT ![p].items =
         [j \in 1 .. (IF i > n THEN i ELSE n) |->
            IF j = i THEN item ELSE IF j <= n THEN @[j] ELSE <<Null>>]]

(* x.put(i, y): a handle that is not an array refuses, and the copy of y that
   was made for it is nobody's. *)
Put(x, i, y) ==
  /\ Outside(heap, hand[x], hand[y])
  /\ IF Kind(heap, hand[x]) = "array"
     THEN /\ i <= MaxItems
          /\ heap' = Stored(Copied(heap, hand[y]), hand[x], i, <<hand[y]>>)
          /\ UNCHANGED lost
     ELSE /\ heap' = Copied(heap, hand[y])
          /\ Lose(<<hand[y]>>)
  /\ UNCHANGED <<hand, walk>>

(* x.append(y) and x << y *)
AppendTo(x, y) ==
  LET size == IF Kind(heap, hand[x]) = "array" THEN Len(heap[hand[x]].items) ELSE 0
  IN  Put(x, size + 1, y)

(* jobject_put of a key and a value the caller has a reference of each for *)
Keyed(h, p, k, v) ==
  LET at == Named(h, p, Text(h, k))
  IN  Stored(h, p, IF at = {} THEN Len(h[p].items) + 1 ELSE CHOOSE i \in at : TRUE, <<k, v>>)

PairFits(p, text) == Named(heap, p, text) # {} \/ Len(heap[p].items) < MaxItems

(* x.put(k, y): the empty string, and a key that is no string, are refused,
   and both copies are nobody's.  x is an object: for another value jobject_put
   has only an assertion. *)
PutPair(x, k, y) ==
  LET both == Copied(Copied(heap, hand[k]), hand[y])
  IN  /\ Kind(heap, hand[x]) = "object" /\ Outside(heap, hand[x], hand[y])
      /\ IF Kind(heap, hand[k]) = "string" /\ hand[k] # EmptyString
         THEN /\ PairFits(hand[x], Text(heap, hand[k]))
              /\ heap' = Keyed(both, hand[x], hand[k], hand[y])
              /\ UNCHANGED lost
         ELSE /\ heap' = both
              /\ Lose(<<hand[k], hand[y]>>)
      /\ UNCHANGED <<hand, walk>>

(* x.put("name", y): the key is a temporary of its own. *)
PutNamed(x, name, y) ==
  /\ Kind(heap, hand[x]) = "object" /\ Outside(heap, hand[x], hand[y])
  /\ Room(name) /\ PairFits(hand[x], name[1].text)
  /\ LET k == Fresh(name)[1]
     IN  heap' = Released(Keyed(Copied(Copied(Created(heap, name, <<k>>), k), hand[y]),
                                hand[x], k, hand[y]), k)
  /\ UNCHANGED <<hand, walk, lost>>

(* x.put("", y) *)
PutNameless(x, y) ==
  /\ Kind(heap, hand[x]) = "object"
  /\ heap' = Copied(heap, hand[y])
  /\ Lose(<<hand[y]>>)
  /\ UNCHANGED <<hand, walk>>

(***************************************************************************)
(* Iterators                                                               *)
(***************************************************************************)
Pairs(h, p) == IF Kind(h, p) = "object" THEN Len(h[p].items) ELSE 0

(* ObjectIterator::operator=, from a temporary that is destroyed after it;
   the parent is released before the other's is copied. *)
Stand(w, object, at) ==
  /\ heap' = Released(Copied(Released(Copied(heap, object), walk[w].object), object), object)
  /\ walk' = [walk EXCEPT ![w] = [object |-> object, at |-> at]]
  /\ UNCHANGED <<hand, lost>>

(* w = x.begin() and w = x.end() *)
Begin(w, x) == Stand(w, hand[x], IF Pairs(heap, hand[x]) > 0 THEN 1 ELSE 0)
End(w, x)   == Stand(w, hand[x], 0)

(* ++w: beyond the last pair is the end, and it stays there. *)
Forward(w) ==
  /\ walk' = [walk EXCEPT ![w].at =
       IF @ = 0 \/ @ = Pairs(heap, walk[w].object) THEN 0 ELSE @ + 1]
  /\ UNCHANGED <<heap, hand, lost>>

(* --w: it stays at the end, and comes there from the first pair. *)
Backward(w) ==
  /\ walk' = [walk EXCEPT ![w].at = IF @ = 0 THEN 0 ELSE @ - 1]
  /\ UNCHANGED <<heap, hand, lost>>

(* w = v, for two iterators *)
CopyWalk(w, v) ==
  /\ w # v
  /\ heap' = Copied(Released(heap, walk[w].object), walk[v].object)
  /\ walk' = [walk EXCEPT ![w] = walk[v]]
  /\ UNCHANGED <<hand, lost>>

(* x = ( *w).first and x = ( *w).second: the pair is copied, and destroyed after
   the assignment; at the end both are JSON null. *)
Deref(w, x, j) ==
  LET pair == IF walk[w].at = 0 THEN <<Null, Null>>
              ELSE heap[walk[w].object].items[walk[w].at]
  IN  /\ heap' = AllReleased(Assigned(AllCopied(heap, pair), hand[x], pair[j]), pair)
      /\ hand' = [hand EXCEPT ![x] = pair[j]]
      /\ UNCHANGED <<walk, lost>>

(***************************************************************************)
(* Specification                                                           *)
(***************************************************************************)
Names == {doc \in Documents : Len(doc) = 1 /\ doc[1].kind = "string"}

Next ==
  \/ \E doc \in Documents : Parse(doc) \/ \E x \in Handles \ {Dom} : Construct(x, doc)
  \/ ParseRefused
  \/ \E x \in Handles \ {Dom} :
       \/ Scope(x)
       \/ GetDom(x)
       \/ \E y \in Handles \ {Dom} :
            \/ Assign(x, y)
            \/ \E i \in 1 .. MaxItems : Element(x, y, i) \/ Put(x, i, y)
            \/ AppendTo(x, y)
            \/ \E name \in Names : Member(x, y, name[1].text) \/ PutNamed(x, name, y)
            \/ PutNameless(x, y)
            \/ \E k \in Handles \ {Dom} : PutPair(x, k, y)
       \/ \E w \in Walks : Begin(w, x) \/ End(w, x) \/ \E j \in {1, 2} : Deref(w, x, j)
  \/ \E w \in Walks : Forward(w) \/ Backward(w) \/ \E v \in Walks : CopyWalk(w, v)

Spec == Init /\ [][Next]_vars

(***************************************************************************)
(* Properties                                                              *)
(***************************************************************************)
Statics == {Null, EmptyString}

(* What is in a container belongs to it: it is not freed while it is there
   (jobject.h:415, "Ownership of this value remains with the parent array";
   the temporaries of JValue::operator== take it over). *)
ElementsRemain ==
  \A c \in Cells(heap, DOMAIN heap) : At(heap, c) \in DOMAIN heap \cup Statics

(* A value is where something points to: nothing is left pointing to a value
   that was freed, and an iterator stands at a pair its object has, as the
   code that follows an iterator's pointer relies on. *)
TypeOK ==
  /\ \A p \in DOMAIN heap :
       /\ p \in Addresses /\ heap[p].cnt > 0
       /\ heap[p].kind \in {"object", "array", "string"}
       /\ Len(heap[p].items) <= MaxItems
  /\ ElementsRemain
  /\ \A x \in Handles : hand[x] \in DOMAIN heap \cup Statics
  /\ \A w \in Walks :
       /\ walk[w].object \in DOMAIN heap \cup Statics
       /\ walk[w].at \in 0 .. Pairs(heap, walk[w].object)
  /\ lost \in [Addresses -> 0 .. MaxLost]

(* The values the handles and iterators lead to. *)
Reachable ==
  Under(heap, {hand[x] : x \in Handles} \cup {walk[w].object : w \in Walks})

(* Every reference that is counted is held by a handle, an iterator or a
   container, or is one a refused call was left with: none is released that
   another still uses, and none is forgotten otherwise (JValue.cpp 134-163,
   298-346, 537-558). *)
Counted ==
  \A p \in DOMAIN heap :
    heap[p].cnt = Cardinality({x \in Handles : hand[x] = p})
                  + Cardinality({w \in Walks : walk[w].object = p})
                  + Refs(heap, DOMAIN heap, p)
                  + lost[p]

(* What a client sees of them. *)
Seen == [p \in Reachable |-> [kind |-> heap[p].kind, text |-> heap[p].text,
                              items |-> heap[p].items]]

Shared == INSTANCE JShared WITH hands <- hand, walks <- walk, graph <- Seen

(* x.put(i, y) where x has an element i.  JValue.h:310-315 promises that y is
   inserted before it; the code replaces it, as jarray_set does. *)
PutOver ==
  \E x, y \in Handles \ {Dom}, i \in 1 .. MaxItems :
    /\ Kind(heap, hand[x]) = "array" /\ i <= Len(heap[hand[x]].items)
    /\ Shared!Overwrite(Seen, hand[x], i, hand[y])
    /\ Put(x, i, y)

(* Reference counting is invisible to the client of the wrapper: but for a put
   at an index in use, its handles and iterators behave as those of JShared,
   over what they lead to. *)
SharedSpec == Shared!Init /\ [][Shared!Next \/ PutOver]_(Shared!svars)
================================================================================
