------------------------------- MODULE JValidity --------------------------------
(***************************************************************************)
(* When a document matches a schema, over whole documents and without the  *)
(* validator's stack, its order of events or its resolution in place; and  *)
(* what the validator promises in these terms.                             *)
(***************************************************************************)
EXTENDS JValidator

(* A schema with all that it extends, the most general one first. *)
RECURSIVE Whole(_)
Whole(s) == IF "ref" \in DOMAIN s THEN Whole(Remote[s.ref])
            ELSE IF "extends" \in DOMAIN s THEN Append(Whole(s.extends), s)
            ELSE <<s>>

Wholes(ss) == FlattenSeq([i \in DOMAIN ss |-> Whole(ss[i])])

(* What a schema says of values it does not name: <<>>, a schema, or nothing
   is permitted. *)
Permits(s) == "additional" \in DOMAIN s => s.additional.is # "false"

Others(s) ==
  IF "additional" \in DOMAIN s /\ s.additional.is = "object"
  THEN <<s.additional.schema>> ELSE <<>>

NamesItem(s, n) ==
  "items" \in DOMAIN s /\ (s.items.is = "object" \/ n <= Len(s.items.schemas))

OfItem(s, n) ==
  IF ~NamesItem(s, n) THEN Others(s)
  ELSE IF s.items.is = "object" THEN <<s.items.schema>> ELSE <<s.items.schemas[n]>>

NamesKey(s, k) == "properties" \in DOMAIN s /\ k \in DOMAIN s.properties

OfMember(s, k) == IF NamesKey(s, k) THEN <<s.properties[k]>> ELSE Others(s)

(* A hierarchy of schemas is one when types narrow along it. *)
Narrows(h) ==
  \A i, j \in DOMAIN Along(h, "type") :
    i < j => TypesOf(Along(h, "type")[j]) \subseteq TypesOf(Along(h, "type")[i])

(* "An integer must be a simple integer" (jschema.c:1673). *)
TypeOf(v) == IF v.is # "number" THEN v.is
             ELSE IF v.plain THEN "integer" ELSE "number"

(* A member that an object must have, and the member that one asks for. *)
Mandatory(p) == ~("optional" \in DOMAIN p /\ p.optional) /\ "default" \notin DOMAIN p

Asks(p) == "required" \in DOMAIN p /\ p.required.is = "string"

(* The value v by itself, without what it contains, matches what s asks of its
   type, its members and items, and its value. *)
Matches(s, v) ==
  /\ "type" \in DOMAIN s => TypeOf(v) \in TypesOf(s.type)
  /\ "enum" \in DOMAIN s /\ v.is \notin {"array", "object", "number"} => v \in s.enum
  /\ v.is = "array" =>
       /\ "minItems" \in DOMAIN s => s.minItems <= Len(v.members)
       /\ "maxItems" \in DOMAIN s => Len(v.members) <= s.maxItems
       /\ \A n \in DOMAIN v.members : NamesItem(s, n) \/ Permits(s)
  /\ v.is = "object" =>
       /\ "properties" \in DOMAIN s =>
            /\ {k \in DOMAIN s.properties : Mandatory(s.properties[k])}
                 \subseteq NamesIn(v)
            /\ \A k \in NamesIn(v) \cap DOMAIN s.properties :
                 Asks(s.properties[k]) => s.properties[k].required.key \in NamesIn(v)
       /\ \A k \in NamesIn(v) : NamesKey(s, k) \/ Permits(s)

(* What the value v contains, each with the hierarchy it must match. *)
Part(schemas, v) == [schemas |-> Wholes(FlattenSeq(schemas)), value |-> v]

Parts(h, v) ==
  IF v.is = "array"
  THEN {Part([i \in DOMAIN h |-> OfItem(h[i], n)], v.members[n]) :
          n \in DOMAIN v.members}
  ELSE IF v.is = "object"
  THEN {Part([i \in DOMAIN h |-> OfMember(h[i], v.members[n].name)], v.members[n].value) :
          n \in DOMAIN v.members}
  ELSE {}

(* The value v, with what it contains, matches each schema of h. *)
RECURSIVE Conforms(_, _)
Conforms(h, v) ==
  /\ Narrows(h)
  /\ \A i \in DOMAIN h : Matches(h[i], v)
  /\ \A part \in Parts(h, v) : Conforms(part.schemas, part.value)

(* The keywords by which the code refuses values that they allow: a number is
   held against limits and lists of values as if it were zero (Converted), and
   of limits that follow each other along a hierarchy, of numbers, of items and
   of lengths, the narrower ones are refused and the wider ones are not; the
   list of types that are not allowed is never read (Possibilities). *)
Misread(h, v) ==
  LET Has(keyword) == Along(h, keyword) # <<>>
  IN  \/ Has("disallowed")
      \/ v.is = "number" /\ (Has("minimum") \/ Has("maximum") \/ Has("enum"))
      \/ v.is = "string" /\ (Len(Along(h, "minLength")) > 1 \/ Len(Along(h, "maxLength")) > 1)
      \/ v.is = "array" /\ ~(Falling(Along(h, "minItems")) /\ Rising(Along(h, "maxItems")))

RECURSIVE Doubtful(_, _)
Doubtful(h, v) ==
  Misread(h, v) \/ \E part \in Parts(h, v) : Doubtful(part.schemas, part.value)

-------------------------------------------------------------------------------
(* A text whose document does not match the schema, and all that the schema
   extends, is refused, and no other text is, wherever in the text the decision
   falls and however many texts the schema has been used for (all handlers of
   jschema.c together, and resolveSchema, which changes the schema of the
   client).  Two things are left out, because there the code does not do what
   its own messages say (jschema.c:1710, "number is too small", is reached with
   numbers that are not).  Matching asks nothing of limits and lists of values
   for numbers, of lengths of strings, of lists of values for containers, of
   lists of required names and of types that are not allowed: texts that
   violate these are accepted.  And a text that is Doubtful may be refused
   though it matches. *)
Verdict ==
  doc # <<>> => /\ ~Conforms(Whole(client), doc[1]) => refused
                /\ refused => \/ ~Conforms(Whole(client), doc[1])
                              \/ Doubtful(Whole(client), doc[1])
================================================================================
