------------------------------ MODULE JSchemaStore -------------------------------
(***************************************************************************)
(* Who owns what a schema is made of (jschema.c, and the C++ handles of    *)
(* JSchema.cpp, JSchemaFile.cpp and JSchemaFragment.cpp).  A wrapper is a  *)
(* counted structure with the array of the schemas that a value must match *)
(* all together, its hierarchy.  A parse resolves the wrapper of its       *)
(* client in place, makes a wrapper for each nested value and gives up all *)
(* of them at its end.  A resolver hands out wrappers of which resolution  *)
(* takes the elements.                                                     *)
(*                                                                         *)
(* A text of a schema is its outermost node.  A node is a function from    *)
(* keywords to values: ref, extends, and inner, the node for the members   *)
(* or items of what matches; the nodes of a text differ from each other.   *)
(* An element is a node of one parsed text.  Memory does not run out.      *)
(***************************************************************************)
EXTENDS Integers, Sequences, FiniteSets, SequencesExt

CONSTANTS
  Nodes,       (* all nodes of an instance, with all they extend or nest      *)
  Texts,       (* the texts a client or a resolver can parse                  *)
  MaxParses,   (* bound: texts alive at once                                  *)
  MaxWrappers, (* bound: wrappers alive at once                               *)
  MaxHeld,     (* bound: references of a client to a wrapper, or to a resource *)
  MaxResources,(* bound: resources alive at once                              *)
  MaxDepth,    (* bound: nesting of values in a parse                         *)
  MaxElements, (* bound: elements of a schema before it is parsed with        *)
  MaxLeaked,   (* bound: elements leaked before a parse starts                *)
  NULL         (* no parse, no schema                                         *)

(* What a resolver does: it fails, parses a text for each request, or hands
   out references to a schema that a C client keeps.  A resolver of the C++
   wrapper may also return the schema of a mapped file and let go of the handle
   that keeps the file mapped; that one is left out. *)
Resolvers(schemas) == {[does |-> "fail"]}
                      \cup [does : {"parse"}, text : Texts]
                      \cup [does : {"lend"}, schema : schemas]

(* A parse that runs: its resolver, and its states. *)
Sessions == [resolver : Resolvers(Nat), states : Seq(Nat)]

ASSUME StoreConstants ==
  /\ Texts \subseteq Nodes
  /\ NULL \notin Texts /\ NULL \notin Nat /\ NULL \notin Sessions
  /\ {MaxParses, MaxWrappers, MaxHeld, MaxResources, MaxDepth,
      MaxElements, MaxLeaked} \subseteq Nat
  /\ MaxHeld > 0

VARIABLES
  heap,      (* counts: of each element that is allocated, its m_refCnt;
                wraps: the wrappers that are allocated;
                maps: the files that are mapped, by the number of their text;
                leaked: elements of arrays that nobody will release           *)
  held,      (* references to wrappers that C clients own                     *)
  resources, (* JSchema::Resource, shared by C++ handles                      *)
  session,   (* the parse that runs, or NULL                                  *)
  lent       (* history: a resolver has handed out a schema that it keeps     *)

vars == <<heap, held, resources, session, lent>>

-------------------------------------------------------------------------------
(* Elements and their counters. *)

Node(e) == e.node
Child(e, keyword) == [text |-> e.text, node |-> e.node[keyword]]

(* A node with all that it includes. *)
Family[n \in Nodes] ==
  {n} \cup (IF "extends" \in DOMAIN n THEN Family[n.extends] ELSE {})
      \cup (IF "inner" \in DOMAIN n THEN Family[n.inner] ELSE {})

(* A node, before it what it extends, before that what that extends, up to a
   reference or a node that extends nothing. *)
Bases[n \in Nodes] ==
  (IF "extends" \in DOMAIN n /\ "ref" \notin DOMAIN n
   THEN Bases[n.extends] ELSE <<>>) \o <<n>>

Includes(n, inside) ==
  \/ "extends" \in DOMAIN n /\ n.extends = inside
  \/ "inner" \in DOMAIN n /\ n.inner = inside

(* The nodes of a text are a tree. *)
ASSUME NodesAreTrees ==
  /\ IsFiniteSet(Nodes)
  /\ \A n \in Nodes : /\ "extends" \in DOMAIN n => n.extends \in Nodes
                      /\ "inner" \in DOMAIN n => n.inner \in Nodes
  /\ \A S \in (SUBSET Nodes) \ {{}} : \E n \in S : \A m \in S : ~Includes(n, m)
  /\ \A t \in Texts : \A m, n, inside \in Family[t] :
       Includes(m, inside) /\ Includes(n, inside) => m = n

OfText(number, nodes) ==
  [i \in DOMAIN nodes |-> [text |-> number, node |-> nodes[i]]]

Places(elements, e) == Cardinality({i \in DOMAIN elements : elements[i] = e})

(* Variant of Copied: without counting. *)
CopiedFree(counts, e) == counts

(* jvalue_copy *)
Copied(counts, e) == [counts EXCEPT ![e] = @ + 1]

(* jvalue_copy of each of several elements *)
AllCopied(counts, elements) ==
  [e \in DOMAIN counts |-> counts[e] + Places(elements, e)]

(* j_release: with the last reference to an element go those to what it
   contains.  Freed is what has its last reference here or in what is freed. *)
Inside(f, e) == f.text = e.text /\ f.node \in Family[e.node]
Encloses(e, f) == f.text = e.text /\ Includes(e.node, f.node)

Freed(counts, e) ==
  {f \in DOMAIN counts :
     /\ Inside(f, e)
     /\ \A g \in DOMAIN counts : Inside(g, e) /\ Inside(f, g) => counts[g] <= 1}

Released(counts, e) ==
  LET freed == Freed(counts, e)
  IN  [f \in DOMAIN counts \ freed |->
         IF f = e \/ \E g \in freed : Encloses(g, f) THEN counts[f] - 1 ELSE counts[f]]

AllReleased(counts, elements) ==
  LET after[n \in 0 .. Len(elements)] ==
        IF n = 0 THEN counts ELSE Released(after[n - 1], elements[n])
  IN  after[Len(elements)]

-------------------------------------------------------------------------------
(* Wrappers. *)

Unused(numbers) ==
  LET free == (1 .. Cardinality(numbers) + 1) \ numbers
  IN  CHOOSE n \in free : \A m \in free : n <= m
FreeText(h) == Unused(h.maps \cup {e.text : e \in DOMAIN h.counts})
FreeWrap(h) == Unused(DOMAIN h.wraps)

TextFits(h) == FreeText(h) <= MaxParses /\ FreeWrap(h) <= MaxWrappers

Put(f, x, y) == [z \in DOMAIN f \cup {x} |-> IF z = x THEN y ELSE f[z]]
Drop(f, x) == [z \in DOMAIN f \ {x} |-> f[z]]

(* jschema_wrap_prepare *)
Wrapped(h, elements, map) ==
  [h EXCEPT !.wraps = Put(@, FreeWrap(h), [cnt |-> 1, elements |-> elements, map |-> map])]

(* jschema_parse_ex, and jschema_parse_file when a file is mapped for it. *)
Parsed(h, text, mapped) ==
  LET number == FreeText(h)
      all    == [text : {number}, node : Family[text]]
      counts == [e \in DOMAIN h.counts \cup all |-> IF e \in all THEN 1 ELSE h.counts[e]]
      maps   == h.maps \cup (IF mapped THEN {number} ELSE {})
  IN  Wrapped([counts |-> counts, wraps |-> h.wraps, maps |-> maps, leaked |-> h.leaked],
              <<[text |-> number, node |-> text]>>, IF mapped THEN number ELSE 0)

Counted(h, w, cnt) == [h EXCEPT !.wraps[w].cnt = cnt]
Ref(h, w) == Counted(h, w, h.wraps[w].cnt + 1)

(* jschema_release_internal *)
Unref(h, w) ==
  LET wrap == h.wraps[w]
  IN  IF wrap.cnt > 1 THEN Counted(h, w, wrap.cnt - 1)
      ELSE [counts |-> AllReleased(h.counts, wrap.elements),
            wraps  |-> Drop(h.wraps, w),
            maps   |-> h.maps \ {wrap.map},
            leaked |-> h.leaked]

(* The last one first. *)
AllUnref(h, wraps) ==
  LET left[n \in 0 .. Len(wraps)] ==
        IF n = Len(wraps) THEN h ELSE Unref(left[n + 1], wraps[n + 1])
  IN  left[0]

-------------------------------------------------------------------------------
(* Resolution of an array of elements that the caller owns. *)

Resolution(ok, h, elements) == [ok |-> ok, heap |-> h, elements |-> elements]

SetElements(h, w, elements) == [h EXCEPT !.wraps[w].elements = elements]
SetCounts(h, counts) == [h EXCEPT !.counts = counts]
Leak(h, elements) == [h EXCEPT !.leaked = @ \o elements]

(* jarray_splice_append puts what it appends in front of the last element. *)
SpliceAppend(array, appended) ==
  IF array = <<>> THEN appended ELSE Front(array) \o appended \o <<Last(array)>>

Answered(h, resolver) ==
  IF resolver.does = "parse"
  THEN [heap |-> Parsed(h, resolver.text, FALSE), schema |-> FreeWrap(h)]
  ELSE [heap |-> Ref(h, resolver.schema), schema |-> resolver.schema]

(* Variant of Referred: the elements are taken over and left in their place. *)
ReferredShared(h, elements, resolver) ==
  LET answer == Answered(h, resolver)
      taken  == answer.heap.wraps[answer.schema].elements
      given  == SetCounts(answer.heap, Released(answer.heap.counts, Last(elements)))
  IN  IF resolver.does = "fail" THEN Resolution(FALSE, h, elements)
      ELSE Resolution(TRUE, Unref(given, answer.schema),
                      SpliceAppend(Front(elements), taken))

(* Variant of Referred: the reference is removed before it is resolved. *)
ReferredEarly(h, elements, resolver) ==
  LET given  == SetCounts(h, Released(h.counts, Last(elements)))
      answer == Answered(given, resolver)
      remote == answer.schema
      taken  == answer.heap.wraps[remote].elements
  IN  IF resolver.does = "fail" THEN Resolution(FALSE, given, Front(elements))
      ELSE IF taken = <<>>
           THEN Resolution(FALSE, Unref(answer.heap, remote), Front(elements))
           ELSE Resolution(TRUE, Unref(SetElements(answer.heap, remote, <<>>), remote),
                           SpliceAppend(Front(elements), taken))

(* resolveSchema, its reference: removed, and the resolved elements taken over;
   a schema that has none left cannot be spliced. *)
Referred(h, elements, resolver) ==
  LET answer == Answered(h, resolver)
      remote == answer.schema
      taken  == answer.heap.wraps[remote].elements
      given  == SetCounts(answer.heap, Released(answer.heap.counts, Last(elements)))
  IN  IF resolver.does = "fail" THEN Resolution(FALSE, h, elements)
      ELSE IF taken = <<>>
           THEN Resolution(FALSE, Unref(given, remote), Front(elements))
           ELSE Resolution(TRUE, Unref(SetElements(given, remote, <<>>), remote),
                           SpliceAppend(Front(elements), taken))

(* resolveSchema, its extensions: each is copied to a wrapper on the stack.
   When the innermost cannot be resolved, no array of these is released. *)
Extended(h, elements, resolver) ==
  LET first  == elements[1]
      bases  == OfText(first.text, Bases[Node(first).extends])
      base   == bases[1]
      copied == SetCounts(h, AllCopied(h.counts, bases))
      inner  == IF "ref" \in DOMAIN Node(base)
                THEN Referred(copied, <<base>>, resolver)
                ELSE Resolution(TRUE, copied, <<base>>)
  IN  IF inner.ok
      THEN Resolution(TRUE, inner.heap,
                      SpliceAppend(elements, inner.elements \o Tail(bases)))
      ELSE Resolution(FALSE, Leak(inner.heap, Tail(bases) \o inner.elements), elements)

Resolved(h, elements, resolver) ==
  IF elements # <<>> /\ "ref" \in DOMAIN Node(Last(elements))
  THEN Referred(h, elements, resolver)
  ELSE IF elements # <<>> /\ "extends" \in DOMAIN Node(elements[1])
       THEN Extended(h, elements, resolver)
       ELSE Resolution(TRUE, h, elements)

(* What element e asks of the next value is copied and resolved. *)
WithInner(m, e, resolver) ==
  LET inner == Child(e, "inner")
  IN  IF "inner" \notin DOMAIN Node(e) THEN m
      ELSE Resolved(SetCounts(m.heap, Copied(m.heap.counts, inner)),
                    Append(m.elements, inner), resolver)

(* jschema_key and push_next_array_state: the hierarchy for the next value, from
   what each element of the one around it asks of it.  The resolver may lend
   the wrapper around, which is then found without elements. *)
Gathered(h, around, resolver) ==
  LET after[n \in 0 .. Len(h.wraps[around].elements)] ==
        IF n = 0 THEN Resolution(TRUE, h, <<>>)
        ELSE LET elements == after[n - 1].heap.wraps[around].elements
             IN  IF after[n - 1].ok /\ n \in DOMAIN elements
                 THEN WithInner(after[n - 1], elements[n], resolver)
                 ELSE after[n - 1]
  IN  after[Len(h.wraps[around].elements)]

-------------------------------------------------------------------------------
(* The C API. *)

Init ==
  /\ heap = [counts |-> <<>>, wraps |-> <<>>, maps |-> {}, leaked |-> <<>>]
  /\ held = <<>>
  /\ resources = <<>>
  /\ session = NULL
  /\ lent = FALSE

Held(w) == IF w \in DOMAIN held THEN held[w] ELSE 0
Holds(w, n) ==
  held' = IF n = 0 THEN Drop(held, w) ELSE Put(held, w, n)

JschemaParse(text, mapped) ==
  /\ TextFits(heap)
  /\ heap' = Parsed(heap, text, mapped)
  /\ Holds(FreeWrap(heap), 1)
  /\ UNCHANGED <<resources, session, lent>>

JschemaCopy(w) ==
  /\ Held(w) \in 1..(MaxHeld - 1)
  /\ heap' = Ref(heap, w) /\ Holds(w, Held(w) + 1)
  /\ UNCHANGED <<resources, session, lent>>

(* A resolver's schema is released after the parse that uses it. *)
Lends(w) ==
  session # NULL /\ session.resolver.does = "lend" /\ session.resolver.schema = w

JschemaRelease(w) ==
  /\ Held(w) > IF Lends(w) THEN 1 ELSE 0
  /\ heap' = Unref(heap, w) /\ Holds(w, Held(w) - 1)
  /\ UNCHANGED <<resources, session, lent>>

-------------------------------------------------------------------------------
(* The C++ handles: JSchemaFragment, JSchemaFile, copies and destructors.  A
   file that holds no schema stays mapped like any other. *)

Resource(schema, map) == [cnt |-> 1, schema |-> schema, map |-> map]
FreeResource == Unused(DOMAIN resources)

NewResource(resource) ==
  /\ FreeResource <= MaxResources
  /\ resources' = Put(resources, FreeResource, resource)
  /\ UNCHANGED <<held, session, lent>>

JSchemaFragment(text) ==
  /\ TextFits(heap)
  /\ heap' = Parsed(heap, text, FALSE)
  /\ NewResource(Resource(FreeWrap(heap), 0))

JSchemaFile(text) ==
  /\ TextFits(heap)
  /\ LET number == FreeText(heap)
         mapped == [heap EXCEPT !.maps = @ \cup {number}]
         parsed == Parsed(heap, text, FALSE)
     IN  IF text = NULL
         THEN heap' = mapped /\ NewResource(Resource(NULL, number))
         ELSE /\ heap' = [parsed EXCEPT !.maps = @ \cup {number}]
              /\ NewResource(Resource(FreeWrap(heap), number))

CopyHandle(r) ==
  /\ resources[r].cnt < MaxHeld
  /\ resources' = [resources EXCEPT ![r].cnt = @ + 1]
  /\ UNCHANGED <<heap, held, session, lent>>

(* Variant of DropHandle: without a schema, the file is not unmapped. *)
DropHandleMapped(r) ==
  LET resource == resources[r]
      unmapped == [heap EXCEPT !.maps = @ \ {resource.map}]
  IN  IF resource.cnt > 1
      THEN /\ resources' = [resources EXCEPT ![r].cnt = @ - 1]
           /\ UNCHANGED <<heap, held, session, lent>>
      ELSE /\ resources' = Drop(resources, r)
           /\ heap' = IF resource.schema = NULL THEN heap
                      ELSE Unref(unmapped, resource.schema)
           /\ UNCHANGED <<held, session, lent>>

(* ~JSchema, ~MMapResource, ~Resource *)
DropHandle(r) ==
  LET resource == resources[r]
      unmapped == [heap EXCEPT !.maps = @ \ {resource.map}]
  IN  IF resource.cnt > 1
      THEN /\ resources' = [resources EXCEPT ![r].cnt = @ - 1]
           /\ UNCHANGED <<heap, held, session, lent>>
      ELSE /\ resources' = Drop(resources, r)
           /\ heap' = IF resource.schema = NULL THEN unmapped
                      ELSE Unref(unmapped, resource.schema)
           /\ UNCHANGED <<held, session, lent>>

-------------------------------------------------------------------------------
(* A parse: jschema_init, the states its handlers push and pop, and
   jschema_state_release.  Clients may call the API between its events. *)

(* The schemas a client can parse with: its own, and peek() of its handles. *)
Usable ==
  DOMAIN held \cup ({resources[r].schema : r \in DOMAIN resources} \ {NULL})

(* The resolver is asked when w is resolved. *)
Asks(w) ==
  LET elements == heap.wraps[w].elements
  IN  /\ elements # <<>>
      /\ \/ "ref" \in DOMAIN Node(Last(elements))
         \/ "ref" \in DOMAIN Bases[Node(elements[1])][1]

(* What a resolver lends is a schema of the client; to splice an array into
   itself is left out. *)
ResolversFor(w) ==
  {r \in Resolvers(DOMAIN heap.wraps) :
     r.does = "lend" => Held(r.schema) > 0 /\ (r.schema = w => ~Asks(w))}

JschemaInit(w, resolver) ==
  LET resolved == Resolved(heap, heap.wraps[w].elements, resolver)
      after    == SetElements(resolved.heap, w, resolved.elements)
  IN  /\ session = NULL
      /\ TextFits(heap) /\ Len(heap.leaked) <= MaxLeaked
      /\ Len(heap.wraps[w].elements) <= MaxElements
      /\ heap' = IF resolved.ok THEN Ref(after, w) ELSE after
      /\ session' = IF resolved.ok THEN [resolver |-> resolver, states |-> <<w>>] ELSE NULL
      /\ lent' = (lent \/ resolver.does = "lend")
      /\ UNCHANGED <<held, resources>>

States == session.states
Running == session # NULL /\ States # <<>>

SetStates(states) == session' = [session EXCEPT !.states = states]

(* A value begins inside another.  If nothing can match it, because resolution
   fails or its types exclude each other, the whole stack is destroyed. *)
Push(possible) ==
  LET gathered == Gathered(heap, Last(States), session.resolver)
      new      == FreeWrap(gathered.heap)
      wrapped  == Wrapped(gathered.heap, gathered.elements, 0)
  IN  /\ Running
      /\ Len(States) < MaxDepth
      /\ TextFits(heap) /\ Len(heap.leaked) <= MaxLeaked
      /\ IF gathered.ok /\ possible
         THEN heap' = wrapped /\ SetStates(Append(States, new))
         ELSE heap' = AllUnref(wrapped, Append(States, new)) /\ SetStates(<<>>)
      /\ UNCHANGED <<held, resources, lent>>

(* destroy_state of a value that is complete. *)
Pop ==
  /\ Running
  /\ heap' = Unref(heap, Last(States)) /\ SetStates(Front(States))
  /\ UNCHANGED <<held, resources, lent>>

(* Variant of Refuse: the states around the innermost one are forgotten. *)
RefuseInnermost ==
  /\ Running
  /\ heap' = Unref(heap, Last(States)) /\ SetStates(<<>>)
  /\ UNCHANGED <<held, resources, lent>>

(* destroy_branch of a value that is refused. *)
Refuse ==
  /\ Running
  /\ heap' = AllUnref(heap, States) /\ SetStates(<<>>)
  /\ UNCHANGED <<held, resources, lent>>

StateRelease ==
  /\ session # NULL
  /\ heap' = AllUnref(heap, States) /\ session' = NULL
  /\ UNCHANGED <<held, resources, lent>>

Next ==
  \/ \E t \in Texts : \E mapped \in BOOLEAN : JschemaParse(t, mapped)
  \/ \E w \in DOMAIN heap.wraps : JschemaCopy(w) \/ JschemaRelease(w)
  \/ \E t \in Texts : JSchemaFragment(t)
  \/ \E t \in Texts \cup {NULL} : JSchemaFile(t)
  \/ \E r \in DOMAIN resources : CopyHandle(r) \/ DropHandle(r)
  \/ \E w \in Usable : \E r \in ResolversFor(w) : JschemaInit(w, r)
  \/ \E possible \in BOOLEAN : Push(possible)
  \/ Pop \/ Refuse \/ StateRelease

Spec == Init /\ [][Next]_vars
-------------------------------------------------------------------------------
(* The variables hold values of their types. *)
TypeOK ==
  /\ \A e \in DOMAIN heap.counts : e.node \in Nodes /\ heap.counts[e] \in Nat
  /\ \A w \in DOMAIN heap.wraps :
       /\ heap.wraps[w].cnt \in Nat
       /\ ToSet(heap.wraps[w].elements) \subseteq DOMAIN heap.counts
  /\ DOMAIN held \subseteq DOMAIN heap.wraps
  /\ \A w \in DOMAIN held : held[w] \in 1..MaxHeld
  /\ \A r \in DOMAIN resources : resources[r].cnt \in 1..MaxHeld
  /\ session # NULL => ToSet(States) \subseteq DOMAIN heap.wraps
  /\ lent \in BOOLEAN

(* The cells of arrays of wrappers that hold e. *)
Cells(wraps, e) ==
  {c \in UNION {{w} \X DOMAIN wraps[w].elements : w \in DOMAIN wraps} :
     wraps[c[1]].elements[c[2]] = e}

(* The counter of an element is the number of cells that hold it, of arrays of
   wrappers and of those that a failed resolution of an extension left behind,
   and one for what contains it; none is freed before what contains it, and
   none stays without a reference (STACK_SCHEMA_WRAPPER, the transfers of
   resolveSchema and the releases of jschema.c). *)
ElementsCounted ==
  \A e \in DOMAIN heap.counts :
    /\ heap.counts[e] > 0
    /\ \A keyword \in DOMAIN Node(e) \cap {"extends", "inner"} :
         Child(e, keyword) \in DOMAIN heap.counts
    /\ heap.counts[e] =
         Cardinality(Cells(heap.wraps, e)) + Places(heap.leaked, e)
         + Cardinality({g \in DOMAIN heap.counts : Encloses(g, e)})

(* The counter of a wrapper is the number of its references: of C clients, of
   C++ resources, and of the states of the parse (jschema_copy and
   jschema_release, on every way a parse may end). *)
WrappersCounted ==
  \A w \in DOMAIN heap.wraps :
    heap.wraps[w].cnt =
      Held(w)
      + Cardinality({r \in DOMAIN resources : resources[r].schema = w})
      + (IF session = NULL THEN 0 ELSE Places(States, w))

(* A file is mapped as long as its one owner lives, a wrapper or a resource. *)
MapOwners(n) ==
  Cardinality({w \in DOMAIN heap.wraps : heap.wraps[w].map = n})
  + Cardinality({r \in DOMAIN resources : resources[r].map = n})

MapsOwned == \A n \in 1..MaxParses : MapOwners(n) = IF n \in heap.maps THEN 1 ELSE 0

(* A schema of a client without elements, which last_schema asserts not to meet
   and which matches every text, comes only of a resolver that hands out a
   schema it keeps (resolveSchema, its transfer). *)
EmptiedByLending == lent \/ \A w \in Usable : heap.wraps[w].elements # <<>>
================================================================================
