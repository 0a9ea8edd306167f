------------------------------ MODULE JValidator --------------------------------
(***************************************************************************)
(* The schema validator (jschema.c): a stack of states that follows the    *)
(* nesting of a text, one handler per parser event.  A state holds the     *)
(* hierarchy of schemas its value must match, from the most general one,   *)
(* the types still possible, the keys seen in an object and the items      *)
(* counted in an array.  The first refusal destroys the whole stack.       *)
(*                                                                         *)
(* A schema is a function from the keywords it has to their values.  The   *)
(* text is written by the environment, one legal event at a time, and goes *)
(* on after a refusal, so that each verdict can be held against the whole  *)
(* document.  The resolver returns a schema of its own for each reference. *)
(* The build is the Release build, without assertions.                     *)
(***************************************************************************)
EXTENDS Integers, Sequences, FiniteSets, SequencesExt

CONSTANTS
  Schemas,   (* the schemas of an instance, with all they extend            *)
  Remote,    (* names the resolver knows, and what each one resolves to     *)
  Tops,      (* the schemas a client validates against                      *)
  Keys,      (* names of members                                            *)
  Scalars,   (* values that are not containers                              *)
  MaxEvents, (* bound: containers, names and scalars in a text              *)
  NULL       (* no value                                                    *)

ASSUME ValidatorConstants ==
  /\ Tops \subseteq Schemas
  /\ MaxEvents \in Nat
  /\ NULL \notin Keys
  /\ \A v \in Scalars : v.is \in {"string", "number", "boolean", "null"}
  /\ \A v \in Scalars : v.is = "number" => v.plain \in BOOLEAN
  /\ \A n \in DOMAIN Remote : Remote[n] \in Schemas

VARIABLES
  client,  (* the schema the client parsed                                  *)
  schema,  (* m_validation of the client's schema, resolved                 *)
  states,  (* the schema states, innermost last; none when m_state is NULL  *)
  refused, (* a handler returned false                                      *)
  frames,  (* the text: containers that are open, outermost first           *)
  doc,     (* the text: <<>>, or <<the document>> once it is complete        *)
  written  (* the text: number of its events, ends of containers left out   *)

text == <<frames, doc, written>>
vars == <<client, schema, states, refused, text>>

-------------------------------------------------------------------------------
(* Resolution of a hierarchy, the empty sequence for a failure. *)

Failed == <<>>

(* jarray_splice_append puts what it appends in front of the last element. *)
SpliceAppend(array, appended) ==
  LET at == IF array = <<>> THEN 0 ELSE Len(array) - 1
  IN  IF appended = <<>> THEN Failed
      ELSE SubSeq(array, 1, at) \o appended \o SubSeq(array, at + 1, Len(array))

(* A reference may only stand beside a description. *)
Referred(s) ==
  IF s.ref \in DOMAIN Remote /\ DOMAIN s \subseteq {"ref", "description"}
  THEN <<Remote[s.ref]>> ELSE Failed

(* resolveSchema for s alone, as when s is extended by another schema. *)
Ancestry[s \in Schemas] ==
  IF "ref" \in DOMAIN s THEN Referred(s)
  ELSE IF "extends" \in DOMAIN s
       THEN SpliceAppend(<<s>>, Ancestry[s.extends])
       ELSE <<s>>

(* resolveSchema: a reference at the end of the hierarchy is replaced; if
   there is none, what its first schema extends is spliced in. *)
Resolve(array) ==
  IF "ref" \in DOMAIN Last(array)
  THEN SpliceAppend(Front(array), Referred(Last(array)))
  ELSE IF "extends" \in DOMAIN array[1]
       THEN SpliceAppend(array, Ancestry[array[1].extends])
       ELSE array

-------------------------------------------------------------------------------
(* Types.  A number that is not an integer needs both of its bits. *)

NumTypes == {"integer", "number"}
AllTypes == NumTypes \cup {"string", "boolean", "object", "array", "null"}

ParseType(name) ==
  IF name = "number" THEN NumTypes
  ELSE IF name \in AllTypes THEN {name} ELSE AllTypes

TypesOf(names) == UNION {ParseType(name) : name \in names}

(* The last schema up to number i that has a keyword, or 0. *)
LastWith(hierarchy, keyword, i) ==
  Max({0} \cup {j \in 1..i : keyword \in DOMAIN hierarchy[j]})

(* The types of the last "type" up to schema i. *)
TypesAt(hierarchy, i) ==
  LET typed == LastWith(hierarchy, "type", i)
  IN  IF typed = 0 THEN {} ELSE TypesOf(hierarchy[typed].type)

(* Schema i widens what a schema before it allows, or allows what it bars. *)
Clash(hierarchy, i) ==
  LET Before(keyword) == LastWith(hierarchy, keyword, i - 1)
  IN  \/ /\ "type" \in DOMAIN hierarchy[i] /\ Before("type") # 0
         /\ ~(TypesAt(hierarchy, i) \subseteq TypesAt(hierarchy, i - 1))
      \/ /\ "disallowed" \in DOMAIN hierarchy[i] /\ Before("disallowed") # 0
         /\ ~(TypesAt(hierarchy, Before("disallowed")) \subseteq TypesAt(hierarchy, i))

(* determinePossibilities: each schema must narrow what the schemas before it
   allow.  What "disallowed" lists is never read: it stands for the types of
   the last "type" before it. *)
Possibilities(hierarchy) ==
  LET last   == Len(hierarchy)
      barred == LastWith(hierarchy, "disallowed", last)
  IN  IF \E i \in 1..last : Clash(hierarchy, i)
      THEN [allowed |-> {}, disallowed |-> AllTypes]
      ELSE [allowed    |-> IF LastWith(hierarchy, "type", last) = 0 THEN AllTypes
                           ELSE TypesAt(hierarchy, last),
            disallowed |-> IF barred = 0 THEN {} ELSE TypesAt(hierarchy, barred)]

(* Variant of State: the count of items is not set. *)
StateUnset(hierarchy) ==
  [allowed    |-> Possibilities(hierarchy).allowed,
   disallowed |-> Possibilities(hierarchy).disallowed,
   schemas    |-> hierarchy, seenKeys |-> {}, numItems |-> NULL, opened |-> FALSE]

State(hierarchy) ==
  [allowed    |-> Possibilities(hierarchy).allowed,
   disallowed |-> Possibilities(hierarchy).disallowed,
   schemas    |-> hierarchy,
   seenKeys   |-> {},
   numItems   |-> 0,
   opened     |-> FALSE]

-------------------------------------------------------------------------------
(* The handlers, from a stack of states to the next; <<>> when they refuse or
   when the root value is complete. *)

Outcome(ok, stack) == [ok |-> ok, stack |-> stack]
Refusal == Outcome(FALSE, <<>>)
Pop(stack) == Outcome(TRUE, Front(stack))

(* push_new_state *)
Push(stack, hierarchy) ==
  LET s == State(hierarchy)
  IN  IF s.disallowed = AllTypes \/ s.allowed = {} THEN Refusal
      ELSE Outcome(TRUE, Append(stack, s))

(* One schema more in the hierarchy of a value; m is what has been gathered
   so far, with whether gathering it failed. *)
Gathered == [ok |-> TRUE, array |-> <<>>]

Gather(m, array) ==
  IF array = Failed THEN [m EXCEPT !.ok = FALSE] ELSE [m EXCEPT !.array = array]

GatherResolved(m, s) == Gather(m, Resolve(Append(m.array, s)))

(* additionalProperties: absent or true adds nothing, false fails. *)
GatherAdditional(m, s) ==
  IF "additional" \notin DOMAIN s \/ s.additional.is = "true" THEN m
  ELSE IF s.additional.is = "false" THEN [m EXCEPT !.ok = FALSE]
  ELSE GatherResolved(m, s.additional.schema)

(* Variant of GatherItem: the last schema of a tuple is not used. *)
GatherItemShort(m, s, n) ==
  IF "items" \in DOMAIN s /\ s.items.is = "object"
  THEN Gather(m, SpliceAppend(m.array, Ancestry[s.items.schema]))
  ELSE IF "items" \in DOMAIN s /\ n < Len(s.items.schemas)
       THEN GatherResolved(m, s.items.schemas[n])
       ELSE GatherAdditional(m, s)

(* What s asks of item number n. *)
GatherItem(m, s, n) ==
  IF "items" \in DOMAIN s /\ s.items.is = "object"
  THEN Gather(m, SpliceAppend(m.array, Ancestry[s.items.schema]))
  ELSE IF "items" \in DOMAIN s /\ n <= Len(s.items.schemas)
       THEN GatherResolved(m, s.items.schemas[n])
       ELSE GatherAdditional(m, s)

Property(s, k) ==
  IF "properties" \in DOMAIN s /\ k \in DOMAIN s.properties
  THEN s.properties[k] ELSE NULL

(* What s asks of the member k. *)
GatherMember(m, s, k) ==
  IF Property(s, k) # NULL THEN GatherResolved(m, Property(s, k))
  ELSE GatherAdditional(m, s)

(* Nothing more is gathered after a failure. *)
ItemHierarchy(hierarchy, n) ==
  FoldLeft(LAMBDA m, s : IF m.ok THEN GatherItem(m, s, n) ELSE m,
           Gathered, hierarchy)

MemberHierarchy(hierarchy, k) ==
  FoldLeft(LAMBDA m, s : IF m.ok THEN GatherMember(m, s, k) ELSE m,
           Gathered, hierarchy)

(* Variant of NextStateSimple: the start of an array counts as its item. *)
NextStateUnopened(stack) ==
  LET here == Last(stack)
      n    == here.numItems + 1
      item == ItemHierarchy(here.schemas, n)
  IN  IF here.allowed = {"array"}
      THEN IF item.ok
           THEN Push(Append(Front(stack), [here EXCEPT !.numItems = n]), item.array)
           ELSE Refusal
      ELSE Outcome(TRUE, stack)

(* getNextStateSimple: in an open array, a value is its next item. *)
NextStateSimple(stack) ==
  LET here == Last(stack)
      n    == here.numItems + 1
      item == ItemHierarchy(here.schemas, n)
  IN  IF "array" \in here.allowed /\ here.opened
      THEN IF item.ok
           THEN Push(Append(Front(stack), [here EXCEPT !.numItems = n]), item.array)
           ELSE Refusal
      ELSE Outcome(TRUE, stack)

(* getNextState: the only type that is left is that of the value. *)
NextState(stack, type) ==
  LET next == NextStateSimple(stack)
      here == Last(next.stack)
  IN  IF ~next.ok \/ type \in here.disallowed \/ type \notin here.allowed
      THEN Refusal
      ELSE Outcome(TRUE, Append(Front(next.stack), [here EXCEPT !.allowed = {type}]))

(* A handler that checks the hierarchy of a scalar and then pops its state. *)
Checked(next, Accepts(_)) ==
  IF next.ok /\ Accepts(Last(next.stack).schemas) THEN Pop(next.stack) ELSE Refusal

(* jschema_obj *)
Obj(stack) == NextState(stack, "object")

(* jschema_arr *)
Arr(stack) ==
  LET next == NextState(stack, "array")
      here == Last(next.stack)
  IN  IF next.ok
      THEN Outcome(TRUE, Append(Front(next.stack), [here EXCEPT !.opened = TRUE]))
      ELSE Refusal

(* jschema_key *)
Key(stack, k) ==
  LET here  == Last(stack)
      value == MemberHierarchy(here.schemas, k)
  IN  IF value.ok
      THEN Push(Append(Front(stack), [here EXCEPT !.seenKeys = @ \cup {k}]), value.array)
      ELSE Refusal

(* jschema_obj_end: a key that is missing is optional or has a default, which
   goes to the handlers of the client, which accept it, and not to the
   validator; a key that was seen may require another one.  Of a list of
   required keys no element is looked at. *)
RequiredSeen(required, seen) == required.is = "string" => required.key \in seen

KeysComplete(s, seen) ==
  "properties" \in DOMAIN s =>
    \A k \in DOMAIN s.properties :
      LET p == s.properties[k]
      IN  IF k \in seen
          THEN "required" \in DOMAIN p => RequiredSeen(p.required, seen)
          ELSE \/ "optional" \in DOMAIN p /\ p.optional
               \/ "default" \in DOMAIN p

ObjEnd(stack) ==
  IF \A i \in DOMAIN Last(stack).schemas :
       KeysComplete(Last(stack).schemas[i], Last(stack).seenKeys)
  THEN Pop(stack) ELSE Refusal

(* The values of a keyword along a hierarchy, as found from its start. *)
Along(hierarchy, keyword) ==
  [i \in DOMAIN SelectSeq(hierarchy, LAMBDA s : keyword \in DOMAIN s) |->
     SelectSeq(hierarchy, LAMBDA s : keyword \in DOMAIN s)[i][keyword]]

(* A lower bound must not rise along a hierarchy, an upper one not fall. *)
Falling(bounds) == \A i \in 1..(Len(bounds) - 1) : bounds[i] >= bounds[i + 1]
Rising(bounds) == \A i \in 1..(Len(bounds) - 1) : bounds[i] <= bounds[i + 1]

(* jschema_arr_end *)
ArrEnd(stack) ==
  LET here  == Last(stack)
      least == Along(here.schemas, "minItems")
      most  == Along(here.schemas, "maxItems")
  IN  IF /\ Falling(least) /\ \A i \in DOMAIN least : here.numItems >= least[i]
         /\ Rising(most)   /\ \A i \in DOMAIN most : here.numItems <= most[i]
      THEN Pop(stack) ELSE Refusal

(* An enum of the hierarchy lists the value. *)
Listed(hierarchy, v) ==
  \A i \in DOMAIN Along(hierarchy, "enum") : v \in Along(hierarchy, "enum")[i]

(* jschema_str: lengths are compared along the hierarchy; a string that is too
   short or too long is only logged, and a pattern is not tried. *)
Str(stack, v) ==
  Checked(NextState(stack, "string"),
          LAMBDA h : /\ \A i \in DOMAIN Along(h, "minLength") :
                          Along(h, "minLength")[i] <= Along(h, "minLength")[1]
                     /\ \A i \in DOMAIN Along(h, "maxLength") :
                          Along(h, "maxLength")[i] >= Along(h, "maxLength")[1]
                     /\ Listed(h, v))

(* jschema_bool and jschema_null *)
Bool(stack, v) == Checked(NextState(stack, "boolean"), LAMBDA h : Listed(h, v))
Null(stack, v) == Checked(NextState(stack, "null"), LAMBDA h : Listed(h, v))

(* jnumber_create_converted leaves its number marked as a raw one without
   text, and jnumber_compare takes that for zero, whatever the number is. *)
Converted(v) == [v EXCEPT !.halves = 0]

(* jschema_num: of the minima only the first is held against the number. *)
NumberListed(h, v) ==
  \A i \in DOMAIN Along(h, "enum") :
    \E e \in Along(h, "enum")[i] :
      e.is = "number" /\ e.halves = Converted(v).halves

WithinLimits(h, v) ==
  LET least == Along(h, "minimum")
      most  == Along(h, "maximum")
  IN  /\ Falling(least)
      /\ Rising(most)
      /\ least # <<>> => least[1] >= Converted(v).halves
      /\ \A i \in DOMAIN most : most[i] >= Converted(v).halves

(* An integer is plain: written without decimals, "1.0" having some, and
   without an exponent but zero. *)
Num(stack, v) ==
  LET next == NextStateSimple(stack)
      here == Last(next.stack)
  IN  IF /\ next.ok
         /\ here.disallowed \cap NumTypes = {}
         /\ "integer" \in here.allowed
         /\ "number" \notin here.allowed => v.plain
         /\ WithinLimits(here.schemas, v)
         /\ NumberListed(here.schemas, v)
      THEN Pop(next.stack) ELSE Refusal

Scalar(stack, v) ==
  CASE v.is = "string"  -> Str(stack, v)
    [] v.is = "number"  -> Num(stack, v)
    [] v.is = "boolean" -> Bool(stack, v)
    [] v.is = "null"    -> Null(stack, v)

-------------------------------------------------------------------------------
(* The text, written by the environment as far as yajl accepts it. *)

Frame(kind) == [kind |-> kind, name |-> NULL, members |-> <<>>]

Open == frames # <<>>
Top == Last(frames)
Ready == IF Open THEN Top.kind = "object" => Top.name # NULL ELSE doc = <<>>
Room == written < MaxEvents

Placed(f, v) ==
  [kind |-> f.kind, name |-> NULL,
   members |-> Append(f.members, IF f.kind = "array" THEN v
                                 ELSE [name |-> f.name, value |-> v])]

(* The value v, complete, takes its place in the container outside. *)
Place(outer, v) ==
  IF outer = <<>> THEN frames' = <<>> /\ doc' = <<v>>
  ELSE frames' = Append(Front(outer), Placed(Last(outer), v)) /\ UNCHANGED doc

(* The handler for an event runs unless the parser has been stopped. *)
Handle(outcome) ==
  /\ IF refused THEN UNCHANGED <<states, refused>>
     ELSE states' = outcome.stack /\ refused' = ~outcome.ok
  /\ UNCHANGED <<client, schema>>

OnObjStart ==
  /\ Ready /\ Room
  /\ frames' = Append(frames, Frame("object")) /\ written' = written + 1
  /\ UNCHANGED doc
  /\ Handle(Obj(states))

OnArrStart ==
  /\ Ready /\ Room
  /\ frames' = Append(frames, Frame("array")) /\ written' = written + 1
  /\ UNCHANGED doc
  /\ Handle(Arr(states))

OnKey(k) ==
  /\ Open /\ Room
  /\ Top.kind = "object" /\ Top.name = NULL
  /\ frames' = Append(Front(frames), [Top EXCEPT !.name = k])
  /\ written' = written + 1
  /\ UNCHANGED doc
  /\ Handle(Key(states, k))

OnScalar(v) ==
  /\ Ready /\ Room
  /\ Place(frames, v) /\ written' = written + 1
  /\ Handle(Scalar(states, v))

OnEnd(kind, outcome) ==
  /\ Open
  /\ Top.kind = kind /\ Top.name = NULL
  /\ Place(Front(frames), [is |-> kind, members |-> Top.members])
  /\ UNCHANGED written
  /\ Handle(outcome)

OnObjEnd == OnEnd("object", ObjEnd(states))
OnArrEnd == OnEnd("array", ArrEnd(states))

(* jschema_init, for a schema that resolves. *)
Init ==
  /\ client \in Tops
  /\ schema = Resolve(<<client>>)
  /\ schema # Failed
  /\ states = <<State(schema)>>
  /\ refused = FALSE
  /\ frames = <<>> /\ doc = <<>> /\ written = 0

(* The client parses another text, at the end of this one or after a refusal,
   with the schema as the parse before has left it: resolved, in place. *)
Again ==
  /\ doc # <<>> \/ refused
  /\ schema' = Resolve(schema)
  /\ schema' # Failed
  /\ states' = <<State(schema')>>
  /\ refused' = FALSE
  /\ frames' = <<>> /\ doc' = <<>> /\ written' = 0
  /\ UNCHANGED client

Next ==
  \/ OnObjStart \/ OnObjEnd \/ OnArrStart \/ OnArrEnd
  \/ \E k \in Keys : OnKey(k)
  \/ \E v \in Scalars : OnScalar(v)
  \/ Again

Spec == Init /\ [][Next]_vars
-------------------------------------------------------------------------------
(* The names of the members of an object. *)
NamesIn(v) == {v.members[i].name : i \in DOMAIN v.members}

(* The variables hold values of their types (the states of jschema.c). *)
TypeOK ==
  /\ refused \in BOOLEAN
  /\ written \in 0..MaxEvents
  /\ \A i \in DOMAIN states :
       /\ states[i].allowed \subseteq AllTypes
       /\ states[i].disallowed \subseteq AllTypes
       /\ states[i].seenKeys \subseteq Keys
       /\ states[i].numItems \in Nat

(* Until it refuses, the validator's stack has a state for each container that
   is open and one for a value that must come, and each state knows of its
   container what the text has given it: its kind, its keys, its items, a
   nested container not counted twice (getNextStateSimple, jschema_key and the
   pops of jschema_obj_end and jschema_arr_end). *)
AwaitedValue == Ready /\ (Open => Top.kind = "object")

SeesFrame(s, f, inner) ==
  /\ s.allowed = {f.kind}
  /\ s.opened = (f.kind = "array")
  /\ f.kind = "array" => s.numItems = Len(f.members) + inner
  /\ f.kind = "object" =>
       s.seenKeys = NamesIn(f) \cup (IF f.name = NULL THEN {} ELSE {f.name})

StackFollowsText ==
  IF refused THEN states = <<>>
  ELSE /\ Len(states) = Len(frames) + (IF AwaitedValue THEN 1 ELSE 0)
       /\ \A i \in DOMAIN frames :
            SeesFrame(states[i], frames[i], IF i < Len(frames) THEN 1 ELSE 0)
================================================================================
