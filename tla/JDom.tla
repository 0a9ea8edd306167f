---------------------------------- MODULE JDom ----------------------------------
(***************************************************************************)
(* Building a document from parser events (jparse_stream.c): jdom_parse_ex *)
(* runs jsax_parse_internal, whose bouncing callbacks pass each event of   *)
(* yajl to the validator and then to the dom_ handlers.  The handlers grow *)
(* a tree of JSON values and keep their place in it with a chain of        *)
(* DomInfo contexts, whose m_value pointers are borrowed.                  *)
(*                                                                         *)
(* yajl is external: it calls back only in an order that is legal JSON and *)
(* may stop anywhere.  The validator is seen from outside: it accepts or   *)
(* refuses an event, and after a refusal has no state left.  The build is  *)
(* the Release build, without assertions.  What jobject_put and            *)
(* jarray_append do to a value is that of JObject and JArray, without      *)
(* their failures.                                                         *)
(***************************************************************************)
EXTENDS Naturals, Sequences, FiniteSets, TLC, SequencesExt

CONSTANTS
  Names,      (* strings that occur as keys                                 *)
  Strings,    (* strings that occur as values                               *)
  Others,     (* numbers and booleans                                       *)
  Empty,      (* the empty string, which is static                          *)
  JNull,      (* the value null, which is static                            *)
  Defaults,   (* some names, each with the default the schema gives it      *)
  Clients,    (* which error callbacks return true, for each kind of client *)
  MaxEvents,  (* bound: events read from the text                           *)
  MaxInjected, (* bound: defaults injected at the end of one object         *)
  NULL        (* the C null pointer                                         *)

Scalars == Strings \cup Others \cup {JNull}
Statics == {Empty, JNull}
Kinds == {"object", "array"}

(* A default is a scalar or a container of scalars.  It was itself built by
   jobject_put, so that no member of it has the empty key. *)
IsDefault(v) ==
  \/ v \in Scalars
  \/ v \in [kind : {"array"}, members : Seq(Scalars)]
  \/ /\ v = [kind |-> "object", members |-> v.members]
     /\ v.members \in [DOMAIN v.members -> Scalars]
     /\ IsFiniteSet(DOMAIN v.members) /\ DOMAIN v.members \subseteq Names \ {Empty}

(* Addresses are numbers; a static value is its own address. *)
ASSUME DomConstants ==
  /\ Empty \in Names /\ JNull \notin Names
  /\ NULL \notin Names \cup Scalars
  /\ Nat \cap {Empty, JNull, NULL} = {}
  /\ MaxEvents \in Nat /\ MaxInjected \in Nat
  /\ DOMAIN Defaults \subseteq Names /\ IsFiniteSet(DOMAIN Defaults)
  /\ \A k \in DOMAIN Defaults : IsDefault(Defaults[k])
  /\ Clients \subseteq SUBSET {"m_parser", "m_schema", "m_unknown"}

VARIABLES
  phase,     (* what jdom_parse_ex is doing                                 *)
  status,    (* why yajl_parse returned                                     *)
  handles,   (* the error callbacks that exist and return true              *)
  validator, (* "ready", or "failed" when its m_state is NULL               *)
  nest,      (* external: the containers yajl is in, outermost first        *)
  keyed,     (* external: yajl has read a key and not its value             *)
  whole,     (* external: yajl has read a complete value                    *)
  read,      (* number of events read                                       *)
  dom,       (* what the handlers work on: see Blank                        *)
  result,    (* the value jdom_parse_ex returned, NULL for null             *)
  (* History, read by no action: *)
  refused,   (* the validator has refused an event                          *)
  nameless,  (* a member without a name has been read                       *)
  starved    (* a container could not be allocated                          *)

yajl == <<nest, keyed, whole>>
history == <<refused, nameless, starved>>
vars == <<phase, status, handles, validator, yajl, read, dom, result,
          history>>

(***************************************************************************)
(* The values created, by address, those still allocated, the m_value of   *)
(* every DomInfo context from the top-level one to the current one, and    *)
(* whether the last handler returned 1.                                    *)
(***************************************************************************)
Blank == [heap |-> <<>>, live |-> {}, ctx |-> <<NULL>>, ok |-> TRUE]

-------------------------------------------------------------------------------
(* Values. *)

TextAt(d, n) == IF n \in DOMAIN d.heap THEN d.heap[n].text ELSE n

KindAt(d, n) == IF n \in DOMAIN d.heap THEN d.heap[n].kind
                ELSE IF n = Empty THEN "string" ELSE "other"

(* The items of a container are pairs of a key, NULL in an array, and a
   value; both were created after the container. *)
Pointed(h, n) ==
  DOMAIN h
    \cap UNION {{h[n].items[i][1], h[n].items[i][2]} : i \in DOMAIN h[n].items}

(* Each value with all that it holds. *)
Reach(h) ==
  LET R[n \in DOMAIN h] == {n} \cup UNION {R[p] : p \in Pointed(h, n)}
  IN  R

(* What j_release(n) frees, when nothing else refers to it. *)
Below(d, n) == IF n \in DOMAIN d.heap THEN Reach(d.heap)[n] ELSE {}

Release(d, ns) == [d EXCEPT !.live = @ \ UNION {Below(d, n) : n \in ns}]

Fresh(d) == Len(d.heap) + 1

Create(d, kind, text) ==
  [d EXCEPT !.heap = Append(@, [kind |-> kind, text |-> text, items |-> <<>>]),
            !.live = @ \cup {Fresh(d)}]

(* createOptimalString, createOptimalNumber, jboolean_create and jnull. *)
CreateScalar(d, s) ==
  IF s \in Statics THEN d
  ELSE Create(d, IF s \in Strings \cup Names THEN "string" ELSE "other", s)

ScalarAt(d, s) == IF s \in Statics THEN s ELSE Fresh(d)

ArrayAppend(d, a, v) == [d EXCEPT !.heap[a].items = Append(@, <<NULL, v>>)]

(* jobject_put(o, k, v): an empty key is refused and v stays with the caller;
   the pair with the same key is released and replaced in place. *)
ObjectPut(d, o, k, v) ==
  LET items == d.heap[o].items
      same  == {i \in DOMAIN items : TextAt(d, items[i][1]) = TextAt(d, k)}
  IN  IF k = Empty THEN d
      ELSE IF same = {} THEN [d EXCEPT !.heap[o].items = Append(@, <<k, v>>)]
      ELSE LET i == CHOOSE i \in same : TRUE
           IN  [Release(d, {items[i][1], items[i][2]})
                  EXCEPT !.heap[o].items[i] = <<k, v>>]

-------------------------------------------------------------------------------
(* The dom_ handlers: from what they find to what they leave. *)

Here(d) == d.ctx[Len(d.ctx)]
HasPrev(d) == Len(d.ctx) > 1
Parent(d) == d.ctx[Len(d.ctx) - 1]
ParentIs(d, kind) == KindAt(d, Parent(d)) = kind
HasKey(d) == Here(d) # NULL /\ KindAt(d, Here(d)) = "string"

SetHere(d, n) == [d EXCEPT !.ctx[Len(d.ctx)] = n]

Refuse(d) == [d EXCEPT !.ok = FALSE]

(* Variant of DomScalar: m_value still is the key after the put. *)
DomScalarKeepKey(d, s) ==
  LET c == CreateScalar(d, s)
  IN  IF ~HasPrev(d) THEN Refuse(d)
      ELSE IF Here(d) = NULL /\ ParentIs(d, "array")
      THEN ArrayAppend(c, Parent(d), ScalarAt(d, s))
      ELSE IF HasKey(d) /\ ParentIs(d, "object")
      THEN ObjectPut(c, Parent(d), Here(d), ScalarAt(d, s))
      ELSE Refuse(d)

(* dom_null, dom_boolean, dom_number and dom_string. *)
DomScalar(d, s) ==
  LET c == CreateScalar(d, s)
  IN  IF ~HasPrev(d) THEN Refuse(d)
      ELSE IF Here(d) = NULL /\ ParentIs(d, "array")
      THEN ArrayAppend(c, Parent(d), ScalarAt(d, s))
      ELSE IF HasKey(d) /\ ParentIs(d, "object")
      THEN SetHere(ObjectPut(c, Parent(d), Here(d), ScalarAt(d, s)), NULL)
      ELSE Refuse(d)

(* dom_object_start and dom_array_start: the new context is pushed first, then
   the container joins its parent, then the context it was read in borrows
   it. *)
DomStart(d, kind) ==
  LET n      == Fresh(d)
      pushed == [Create(d, kind, NULL) EXCEPT !.ctx = Append(@, NULL)]
      joined == IF ~HasPrev(d) THEN pushed
                ELSE IF ParentIs(d, "array") THEN ArrayAppend(pushed, Parent(d), n)
                ELSE IF HasKey(d) THEN ObjectPut(pushed, Parent(d), Here(d), n)
                ELSE Refuse(IF kind = "array" THEN Release(pushed, {n}) ELSE pushed)
  IN  IF joined.ok THEN [joined EXCEPT !.ctx[Len(d.ctx)] = n] ELSE joined

DomObjectStart(d) == DomStart(d, "object")
DomArrayStart(d)  == DomStart(d, "array")

(* dom_object_key. *)
DomKey(d, k) ==
  IF Here(d) # NULL \/ ~HasPrev(d) \/ ~ParentIs(d, "object") THEN Refuse(d)
  ELSE SetHere(CreateScalar(d, k), ScalarAt(d, k))

(* Variant of DomEnd: the context below keeps its m_value. *)
DomEndKeep(d, kind) ==
  IF Here(d) # NULL \/ ~ParentIs(d, kind) THEN Refuse(d)
  ELSE [d EXCEPT !.ctx = Front(@)]

(* dom_object_end and dom_array_end: only the top-level context keeps the
   container as its m_value. *)
DomEnd(d, kind) ==
  LET popped == [d EXCEPT !.ctx = Front(@)]
  IN  IF Here(d) # NULL \/ ~ParentIs(d, kind) THEN Refuse(d)
      ELSE IF HasPrev(popped) THEN SetHere(popped, NULL)
      ELSE popped

DomObjectEnd(d) == DomEnd(d, "object")
DomArrayEnd(d)  == DomEnd(d, "array")

(* An event of yajl's, or one that jsax_parse_inject makes up. *)
Event(op, arg) == [op |-> op, arg |-> arg]

Handle(d, e) ==
  CASE ~d.ok          -> d
    [] e.op = "value" -> DomScalar(d, e.arg)
    [] e.op = "key"   -> DomKey(d, e.arg)
    [] e.op = "start" /\ e.arg = "object" -> DomObjectStart(d)
    [] e.op = "start" /\ e.arg = "array"  -> DomArrayStart(d)
    [] e.op = "end" /\ e.arg = "object"   -> DomObjectEnd(d)
    [] e.op = "end" /\ e.arg = "array"    -> DomArrayEnd(d)

ValueEvents(vs) == [i \in DOMAIN vs |-> Event("value", vs[i])]

(* The order in which the elements of an array are injected. *)
Delivered(v) ==
  IF v \in Scalars \/ v.kind = "object" THEN v
  ELSE [v EXCEPT !.members = Reverse(@)]

(* The events for the members of a default that is a container. *)
MemberEvents(v) ==
  IF v.kind = "array" THEN ValueEvents(Delivered(v).members)
  ELSE LET names == SetToSeq(DOMAIN v.members)
       IN  [i \in 1 .. 2 * Cardinality(DOMAIN v.members) |->
              IF i % 2 = 1 THEN Event("key", names[(i + 1) \div 2])
              ELSE Event("value", v.members[names[i \div 2]])]

HandleAll(d, es) ==
  LET after[n \in 0 .. Len(es)] ==
        IF n = 0 THEN d ELSE Handle(after[n - 1], es[n])
  IN  after[Len(es)]

(* jsax_parse_inject_internal, for values that hold only scalars. *)
HandleValue(d, v) ==
  IF v \in Scalars THEN Handle(d, Event("value", v))
  ELSE Handle(HandleAll(Handle(d, Event("start", v.kind)), MemberEvents(v)),
              Event("end", v.kind))

(* jsax_parse_inject: the key and its default go to the handlers as if they
   had been read, past the validator. *)
Inject(d, k) == HandleValue(Handle(d, Event("key", k)), Defaults[k])

InjectAll(d, ks) ==
  LET after[n \in 0 .. Len(ks)] ==
        IF n = 0 THEN d ELSE Inject(after[n - 1], ks[n])
  IN  after[Len(ks)]

(* The defaults missing from the object that is about to end; the keys of the
   object are those the validator has seen, except that the empty key is never
   recorded as seen. *)
Missing(d) ==
  LET items == d.heap[Parent(d)].items
  IN  DOMAIN Defaults \ {TextAt(d, items[i][1]) : i \in DOMAIN items}

(* What may be injected, in order.  An injected key is not recorded as seen, so
   another schema of the hierarchy may inject it again; schemas that give a
   default for the same key give the same one. *)
Injections(d) == UNION {[1 .. n -> Missing(d)] : n \in 0 .. MaxInjected}

-------------------------------------------------------------------------------
(* One event: yajl calls my_bounce_<event>, which asks the validator and then
   calls the handler. *)

Legal(op, arg) ==
  LET inner == IF nest = <<>> THEN "none" ELSE nest[Len(nest)]
  IN  /\ ~whole
      /\ \/ op \in {"value", "start"} /\ (inner = "object" => keyed)
         \/ op = "key" /\ inner = "object" /\ ~keyed
         \/ op = "end" /\ inner = arg /\ ~keyed

Advance(op, arg) ==
  /\ nest' = CASE op = "start" -> Append(nest, arg)
               [] op = "end"   -> Front(nest)
               [] OTHER        -> nest
  /\ keyed' = (op = "key")
  /\ whole' = (nest' = <<>> /\ op # "key")

(* Variant of Bounce: what the validator says is not looked at. *)
BounceUnchecked(op, arg, d, passes) ==
  /\ refused' = (refused \/ ~passes)
  /\ validator' = IF passes THEN validator ELSE "failed"
  /\ dom' = Handle(d, Event(op, arg))
  /\ IF dom'.ok THEN UNCHANGED <<phase, status>>
     ELSE phase' = "stopped" /\ status' = "canceled"

(* The validator has run, leaving the handlers' state d, and passes the event
   or not.  A refusal cancels the parse unless m_schema returns true. *)
Bounce(op, arg, d, passes) ==
  /\ refused' = (refused \/ ~passes)
  /\ validator' = IF passes THEN validator ELSE "failed"
  /\ dom' = IF passes \/ "m_schema" \in handles THEN Handle(d, Event(op, arg))
            ELSE Refuse(d)
  /\ IF dom'.ok THEN UNCHANGED <<phase, status>>
     ELSE phase' = "stopped" /\ status' = "canceled"

Reading(op, arg) ==
  /\ phase = "parsing"
  /\ read < MaxEvents
  /\ Legal(op, arg)
  /\ read' = read + 1
  /\ Advance(op, arg)
  /\ UNCHANGED <<handles, result>>

(* A validator that has failed is asked again: m_state is dereferenced. *)
AskFailed == /\ validator = "failed"
             /\ phase' = "undefined"
             /\ UNCHANGED <<status, validator, dom, refused>>

ReadScalar(s) ==
  /\ Reading("value", s)
  /\ UNCHANGED <<nameless, starved>>
  /\ \/ AskFailed
     \/ /\ validator = "ready"
        /\ \E passes \in BOOLEAN : Bounce("value", s, dom, passes)

ReadKey(k) ==
  /\ Reading("key", k)
  /\ nameless' = (nameless \/ k = Empty)
  /\ UNCHANGED starved
  /\ \/ AskFailed
     \/ /\ validator = "ready"
        /\ \E passes \in BOOLEAN : Bounce("key", k, dom, passes)

ReadStart(kind) ==
  /\ Reading("start", kind)
  /\ UNCHANGED <<nameless, starved>>
  /\ \/ AskFailed
     \/ /\ validator = "ready"
        /\ \E passes \in BOOLEAN : Bounce("start", kind, dom, passes)

(* The new context or the new container cannot be allocated. *)
StartFails(kind) ==
  /\ Reading("start", kind)
  /\ validator = "ready"
  /\ dom' = Refuse(dom)
  /\ phase' = "stopped"
  /\ status' = "canceled"
  /\ starved' = TRUE
  /\ UNCHANGED <<validator, refused, nameless>>

ReadEndArray ==
  /\ Reading("end", "array")
  /\ UNCHANGED <<nameless, starved>>
  /\ \/ AskFailed
     \/ /\ validator = "ready"
        /\ \E passes \in BOOLEAN : Bounce("end", "array", dom, passes)

(* jschema_obj_end injects defaults first, and may refuse after some; an
   injection the handlers refuse is a refusal. *)
ReadEndObject ==
  /\ Reading("end", "object")
  /\ UNCHANGED starved
  /\ \/ AskFailed /\ UNCHANGED nameless
     \/ /\ validator = "ready"
        /\ \E ks \in Injections(dom), passes \in BOOLEAN :
             LET d == InjectAll(dom, ks)
             IN  /\ nameless' = (nameless \/ Empty \in ToSet(ks))
                 /\ passes => d.ok
                 /\ Bounce("end", "object", [d EXCEPT !.ok = TRUE], passes)

(* jsax_parse_internal gives up before yajl is called: there is no usable
   schema, or no validator. *)
NoValidation ==
  /\ phase = "parsing"
  /\ read = 0
  /\ phase' = "stopped"
  /\ status' = "not run"
  /\ UNCHANGED <<handles, validator, yajl, read, dom, result, history>>

(* yajl_parse returns: after a complete value, at the end of the text, or
   where the text is no JSON. *)
TextEnds ==
  /\ phase = "parsing"
  /\ phase' = "stopped"
  /\ status' \in IF whole THEN {"ok"} ELSE {"insufficient data", "error"}
  /\ UNCHANGED <<handles, validator, yajl, read, dom, result, history>>

-------------------------------------------------------------------------------
(* The end of jdom_parse_ex. *)

(* jsax_parse_internal returns true. *)
ParsedOK == \/ status = "ok"
            \/ status = "insufficient data" /\ "m_parser" \in handles
            \/ status \in {"canceled", "error"} /\ "m_unknown" \in handles

Unbalanced == Len(dom.ctx) > 1

(* The keys that wait for a value in some context. *)
Pending == {n \in ToSet(dom.ctx) : n # NULL /\ KindAt(dom, n) = "string"}

(* Variant of Finish: a parse whose error was handled delivers what there is. *)
FinishUnbalanced ==
  /\ phase = "stopped"
  /\ phase' = "done"
  /\ LET d == IF Unbalanced THEN Release(dom, Pending) ELSE dom
     IN  IF ParsedOK
         THEN result' = dom.ctx[1] /\ dom' = d
         ELSE result' = NULL /\ dom' = Release(d, {dom.ctx[1]})
  /\ UNCHANGED <<status, handles, validator, yajl, read, history>>

(* Variant of Finish: the keys that wait in contexts are forgotten. *)
FinishKeepKeys ==
  /\ phase = "stopped"
  /\ phase' = "done"
  /\ IF ParsedOK /\ ~Unbalanced
     THEN result' = dom.ctx[1] /\ UNCHANGED dom
     ELSE result' = NULL /\ dom' = Release(dom, {dom.ctx[1]})
  /\ UNCHANGED <<status, handles, validator, yajl, read, history>>

(* Variant of Finish: after a failure the value released is returned. *)
FinishReturnFreed ==
  /\ phase = "stopped"
  /\ phase' = "done"
  /\ result' = dom.ctx[1]
  /\ LET d == IF Unbalanced THEN Release(dom, Pending) ELSE dom
     IN  dom' = IF ParsedOK /\ ~Unbalanced THEN d ELSE Release(d, {dom.ctx[1]})
  /\ UNCHANGED <<status, handles, validator, yajl, read, history>>

(* Contexts left over mean failure: their pending keys are released, then
   whatever was built. *)
Finish ==
  /\ phase = "stopped"
  /\ phase' = "done"
  /\ LET d == IF Unbalanced THEN Release(dom, Pending) ELSE dom
     IN  IF ParsedOK /\ ~Unbalanced
         THEN result' = dom.ctx[1] /\ dom' = d
         ELSE result' = NULL /\ dom' = Release(d, {dom.ctx[1]})
  /\ UNCHANGED <<status, handles, validator, yajl, read, history>>

-------------------------------------------------------------------------------
Init ==
  /\ phase = "parsing"
  /\ status = "none"
  /\ handles \in Clients
  /\ validator = "ready"
  /\ nest = <<>>
  /\ keyed = FALSE
  /\ whole = FALSE
  /\ read = 0
  /\ dom = Blank
  /\ result = NULL
  /\ refused = FALSE
  /\ nameless = FALSE
  /\ starved = FALSE

Next ==
  \/ \E s \in Scalars : ReadScalar(s)
  \/ \E k \in Names : ReadKey(k)
  \/ \E kind \in Kinds : ReadStart(kind) \/ StartFails(kind)
  \/ ReadEndArray
  \/ ReadEndObject
  \/ NoValidation
  \/ TextEnds
  \/ Finish

Spec == Init /\ [][Next]_vars

-------------------------------------------------------------------------------
(* Properties. *)

(* Every variable keeps its type: addresses point to values that were created
   later, contexts hold addresses or NULL, and only allocated values, static
   ones or NULL are pointed to from the contexts. *)
TypeOK ==
  /\ phase \in {"parsing", "stopped", "done", "undefined"}
  /\ status \in {"none", "ok", "canceled", "error", "insufficient data", "not run"}
  /\ handles \in Clients
  /\ validator \in {"ready", "failed"}
  /\ nest \in Seq(Kinds)
  /\ read \in 0 .. MaxEvents
  /\ {keyed, whole, refused, nameless, starved} \subseteq BOOLEAN
  /\ dom.live \subseteq DOMAIN dom.heap
  /\ \A n \in DOMAIN dom.heap : \A p \in Pointed(dom.heap, n) : p > n
  /\ dom.ctx # <<>>
  /\ phase # "done" => ToSet(dom.ctx) \subseteq dom.live \cup Statics \cup {NULL}
  /\ result \in dom.live \cup {NULL}

(* The addresses n's items point to, with repetition. *)
Places(p) == {c \in UNION {{n} \X (DOMAIN dom.heap[n].items) \X {1, 2} : n \in dom.live} :
                dom.heap[c[1]].items[c[2]][c[3]] = p}

(* Nothing leaks and nothing is freed twice: while the text is read, the
   values allocated are those in the tree under the top-level context and the
   keys that wait for a value; at the end, those of the document returned.  A
   member without a name is the exception: jobject_put refuses it, and its
   value leaks.  No value is in two places, so that its release frees it once. *)
Ownership ==
  /\ \A p \in dom.live : Cardinality(Places(p)) <= 1
  /\ LET owned == IF phase = "done" THEN Below(dom, result)
                  ELSE UNION {Below(dom, n) : n \in {dom.ctx[1]} \cup Pending}
     IN  /\ owned \subseteq dom.live
         /\ ~nameless => dom.live = owned

(* What the comments of DomInfo say: as long as events are handled, the chain
   of contexts mirrors the nesting of the text.  m_prev->m_value is the
   container that is open, in the container open around it, and m_value is the
   key when a value for it comes next, and NULL otherwise. *)
ContextMirrorsText ==
  phase = "parsing" =>
    /\ Len(dom.ctx) = Len(nest) + 1
    /\ \A i \in DOMAIN nest : KindAt(dom, dom.ctx[i]) = nest[i]
    /\ ~nameless => \A i \in 2 .. Len(nest) :
                      dom.ctx[i] \in Pointed(dom.heap, dom.ctx[i - 1])
    /\ nest # <<>> => (IF keyed THEN HasKey(dom) ELSE Here(dom) = NULL)

(* The handlers refuse nothing that is legal, except a value that is not in a
   container: a parse is canceled only for that, for a refusal of the
   validator or for want of memory. *)
CanceledForCause ==
  status = "canceled" => refused \/ starved \/ (nest = <<>> /\ dom = Refuse(Blank))

(* A refusal by the validator ends the parse without a document unless the
   client's m_schema takes responsibility for it; only then can the parser run
   into the validator that has no state left. *)
RefusalIsFinal ==
  /\ refused /\ "m_schema" \notin handles =>
       phase \in {"stopped", "done"} /\ result = NULL
  /\ phase = "undefined" => refused /\ "m_schema" \in handles

(* The document each address is the root of. *)
Trees(d) ==
  LET T[n \in DOMAIN d.heap] ==
        LET node   == d.heap[n]
            sub(p) == IF p \in DOMAIN d.heap THEN T[p] ELSE p
            key(i) == TextAt(d, node.items[i][1])
        IN  CASE node.kind = "array"  ->
                   [kind |-> "array",
                    members |-> [i \in DOMAIN node.items |-> sub(node.items[i][2])]]
              [] node.kind = "object" ->
                   [kind |-> "object",
                    members |-> [k \in {key(i) : i \in DOMAIN node.items} |->
                                   sub(node.items[CHOOSE i \in DOMAIN node.items :
                                                    key(i) = k][2])]]
              [] OTHER -> node.text
  IN  T

Tree(d, n) == IF n \in DOMAIN d.heap THEN Trees(d)[n] ELSE n

(* The open container at ctx[i] as a frame: its items but for the container
   open in it, and the name under which a value is awaited. *)
FrameIn(d, i) ==
  LET c     == d.ctx[i]
      items == d.heap[c].items
      inner == d.ctx[i + 1]
      full  == Tree(d, c)
      at    == {j \in DOMAIN items : items[j][2] = inner}
  IN  IF i + 1 = Len(d.ctx)
      THEN [kind |-> full.kind, members |-> full.members,
            name |-> IF inner = NULL THEN NULL ELSE TextAt(d, inner)]
      ELSE IF full.kind = "array"
      THEN [kind |-> "array", name |-> NULL,
            members |-> SubSeq(full.members, 1, Len(items) - 1)]
      ELSE IF at = {}
      THEN [kind |-> "object", name |-> Empty, members |-> full.members]
      ELSE LET k == TextAt(d, items[CHOOSE j \in at : TRUE][1])
           IN  [kind |-> "object", name |-> k,
                members |-> [m \in DOMAIN full.members \ {k} |-> full.members[m]]]

(* What the handlers have built, as the reader of documents has it. *)
FramesOf(d) == [i \in 1 .. Len(d.ctx) - 1 |-> FrameIn(d, i)]
DocOf(d)    == IF Len(d.ctx) > 1 THEN NULL ELSE Tree(d, d.ctx[1])

FramesNow == IF phase = "done" THEN <<>> ELSE FramesOf(dom)
DocNow    == DocOf(dom)
AnswerNow == Tree(dom, result)

Document == INSTANCE JDocument WITH
  Defaults  <- [k \in DOMAIN Defaults \ {Empty} |-> Defaults[k]],
  frames    <- FramesNow,
  doc       <- DocNow,
  delivered <- phase = "done",
  answer    <- AnswerNow

(* The builder, working in place on borrowed pointers, implements the reader of
   documents: the client gets the document the text describes, whole, or null,
   and a missing key looks as if it had come with its default
   (SchemaExtensions.txt:90-92).  An array among the defaults is an exception:
   its elements come in reverse order (Delivered), so that the claim is made
   for defaults that read the same both ways. *)
DefaultsSymmetric == \A k \in DOMAIN Defaults : Delivered(Defaults[k]) = Defaults[k]

DocumentSpec == Document!Spec
================================================================================
