-------------------------------- MODULE JShared --------------------------------
(***************************************************************************)
(* What the handles of the C++ wrapper promise: values are shared, and     *)
(* live as long as a handle or an iterator leads to them.  A handle is     *)
(* assigned a new document, a value another handle leads to, or none; what *)
(* is put into a container is seen through every handle of it.  Counting   *)
(* references is not part of it: nodes nobody leads to are gone.           *)
(***************************************************************************)
EXTENDS Naturals, FiniteSets, SequencesExt

CONSTANTS
  Handles,   (* JValue objects of a client, the DOM of a parser among them   *)
  Walks,     (* iterators                                                    *)
  Addresses, (* nodes                                                        *)
  Documents, (* what can be constructed or parsed: a sequence of nodes that
                refer to each other by their position, the root first        *)
  Null, EmptyString, (* nodes that always exist                              *)
  MaxItems   (* bound: elements or pairs of a container                      *)

VARIABLES
  hands, (* the node of each handle                                          *)
  walks, (* of each iterator, its object and the place it stands at, the
            number of a pair or 0 at the end; its object is Null at first    *)
  graph  (* the nodes: kind, text, and items, <<element>> or <<key, value>>  *)

svars == <<hands, walks, graph>>

Statics == {Null, EmptyString}
Inside(node) == UNION {ToSet(item) : item \in ToSet(node.items)}

(* The nodes of g that roots lead to. *)
Reach(g, roots) ==
  LET Near[n \in 0 .. Cardinality(DOMAIN g)] ==
        IF n = 0 THEN roots \cap DOMAIN g
        ELSE LET near == Near[n - 1]
             IN  near \cup ((UNION {Inside(g[p]) : p \in near}) \cap DOMAIN g)
  IN  Near[Cardinality(DOMAIN g)]

Roots(h, w) == {h[x] : x \in Handles} \cup {w[i].object : i \in Walks}

Live(h, w, g) == [p \in Reach(g, Roots(h, w)) |-> g[p]]

KindIn(g, p) ==
  IF p \in DOMAIN g THEN g[p].kind ELSE IF p = EmptyString THEN "string" ELSE "null"
TextIn(g, p) == IF p \in DOMAIN g THEN g[p].text ELSE Null

(* The document with its nodes at the addresses at. *)
Laid(doc, at) ==
  [p \in ToSet(at) |->
     LET node == doc[CHOOSE i \in DOMAIN doc : at[i] = p]
     IN  [node EXCEPT !.items = [i \in DOMAIN @ |-> [j \in DOMAIN @[i] |-> at[@[i][j]]]]]]

(* A pair in an object: it takes the place of the one with its name, or the
   place after the last. *)
PlaceOf(g, object, key) ==
  LET named == {i \in DOMAIN g[object].items :
                  TextIn(g, g[object].items[i][1]) = TextIn(g, key)}
  IN  IF named = {} THEN Len(g[object].items) + 1 ELSE CHOOSE i \in named : TRUE

(* An item takes place i of a container, whatever was there; the places skipped
   are null. *)
With(items, i, item) ==
  [n \in 1 .. (IF i > Len(items) THEN i ELSE Len(items)) |->
     IF n = i THEN item ELSE IF n <= Len(items) THEN items[n] ELSE <<Null>>]

(* An element is inserted at place i: those from there on are moved up by one. *)
Inserted(items, i, element) ==
  [n \in 1 .. (IF i > Len(items) THEN i ELSE Len(items) + 1) |->
     CASE n < i /\ n <= Len(items) -> items[n]
       [] n < i /\ n > Len(items) -> <<Null>>
       [] n = i -> <<element>>
       [] n > i -> items[n - 1]]

Become(h, w, g) == hands' = h /\ walks' = w /\ graph' = Live(h, w, g)

Init ==
  /\ hands = [x \in Handles |-> Null]
  /\ walks = [w \in Walks |-> [object |-> Null, at |-> 0]]
  /\ graph = [p \in {} |-> Null]

(***************************************************************************)
(* Steps, from a graph g                                                   *)
(***************************************************************************)
Make(g, x, doc) ==
  /\ hands'[x] \in Addresses \ DOMAIN g
  /\ \E at \in [DOMAIN doc -> Addresses \ DOMAIN g] :
       Become([hands EXCEPT ![x] = at[1]], walks,
              [p \in DOMAIN g \cup ToSet(at) |->
                 IF p \in DOMAIN g THEN g[p] ELSE Laid(doc, at)[p]])

Held == {hands[x] : x \in Handles}

(* What can be had: the nodes of handles, and those right inside of a node of
   a handle or an iterator. *)
Known(g) ==
  Statics \cup Held \cup UNION {Inside(g[p]) : p \in Roots(hands, walks) \cap DOMAIN g}

Hold(g, x) ==
  LET p == hands'[x]
  IN  Become([hands EXCEPT ![x] = p], walks, g) /\ p \in Known(g)

(* JValue.h of put(index): past the end, what is in between is null, and "Any
   elements >= index, are shifted up by 1". *)
Place(g, p, i, v) ==
  /\ KindIn(g, p) = "array"
  /\ Become(hands, walks, [g EXCEPT ![p].items = Inserted(@, i, v)])

(* What jobject.h has of jarray_set, "Any element already at position index gets
   overwritten".  It is no step of a handle. *)
Overwrite(g, p, i, v) ==
  /\ KindIn(g, p) = "array"
  /\ Become(hands, walks, [g EXCEPT ![p].items = With(@, i, <<v>>)])

Pair(g, p, k, v) ==
  /\ KindIn(g, p) = "object"
  /\ KindIn(g, k) = "string" /\ k # EmptyString
  /\ Become(hands, walks, [g EXCEPT ![p].items = With(@, PlaceOf(g, p, k), <<k, v>>)])

(* The same with a name that becomes the node k. *)
Named(g, p, name, k, v) ==
  LET named == [q \in DOMAIN g \cup {k} |-> IF q = k THEN Laid(name, <<k>>)[k] ELSE g[q]]
  IN  Pair(named, p, k, v)

(* An iterator stands at a pair of an object, or at the end of any value. *)
Walk(g, w) ==
  LET object == walks'[w].object
      at     == walks'[w].at
  IN  /\ Become(hands, [walks EXCEPT ![w] = [object |-> object, at |-> at]], g)
      /\ object \in Roots(hands, walks)
      /\ at > 0 => KindIn(g, object) = "object" /\ at <= Len(g[object].items)

Step(g) ==
  \/ \E x \in Handles : Hold(g, x)
  \/ \E w \in Walks : Walk(g, w)
  \/ /\ UNCHANGED <<hands, walks>>
     /\ \E p \in Held, v \in Held :
          \/ \E i \in 1 .. MaxItems : Place(g, p, i, v)
          \/ \E k \in Held : Pair(g, p, k, v)
          \/ \E k \in Addresses \ DOMAIN g, name \in Documents :
               Len(name) = 1 /\ Named(g, p, name, k, v)
  \/ \E x \in Handles, doc \in Documents : Make(g, x, doc)

Next == Step(graph)

Spec == Init /\ [][Next]_svars
================================================================================
