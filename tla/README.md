# pbnjson in TLA+

pbnjson is a JSON library in C with a C++ wrapper: it parses text into a DOM of
reference-counted values, validates it against a JSON schema while parsing, lets
a client build and change values, converts numbers and prints. This directory
holds TLA+ models of it, TLC configurations that check them on small instances,
and TLAPS proofs for every instance. Sources are named as in the repository
(`src/pjson_c/jobject.c` and so on).

## The system

| component | state it keeps | operations | talks to |
| --- | --- | --- | --- |
| JSON objects (`jobject.c`) | a chain of 8-slot bucket tables; a doubly linked ring through the used slots | create, put, set, get, remove, iterate, remove at iterator, destroy | releases keys and values |
| JSON arrays (`jobject.c`) | a 16-cell small bucket, a grown big bucket, size, capacity | create (with a hint), put, set, append, insert, remove, splice, destroy | releases and copies elements, moves them between arrays |
| references (`jobject.c`) | a count per value; `null` and the empty string are static and uncounted | `jvalue_copy`, `j_release` | the containers, every client |
| DOM builder (`jparse_stream.c`) | the stack of open containers, the key that waits for its value | one callback per parser event | puts into objects and arrays |
| SAX layer (`jparse_stream.c`) | parser handle, validator state, error callbacks | bounces each event: validate, then hand on; injects defaults | YAJL, validator, DOM builder |
| schema validator (`jschema.c`) | a stack of schema states, keys seen, possibilities of a union | one check per event | schemas, error callbacks |
| schema resolution (`jschema.c`) | a schema tree shared by count, resolved in place | parse, resolve `$ref` and `extends`, copy, release | arrays (splice), resolver callback |
| numbers (`num_conversion.c`) | none | text to int32, int64, double and back, with error flags | values, validator |
| generator (`jgen_stream.c`) | yajl_gen handle | begin/end of containers, keys, values, finish | YAJL |
| C++ wrapper (`pjson_cxx`) | counted references, mapped schema files | values, parsers, schemas | everything above |

The library is single-threaded: there are no locks, and reference counts are
plain integers. What is hard is of another kind:

* **long legal call sequences** on the hash table, whose lookups, ring and
  chain of tables each rely on what the other operations left behind;
* **ownership**: `put` takes a reference over, `set` copies, a splice transfers
  or copies, and every failing step has to say who owns what then;
* **partial failures**: an allocation that fails, a key that is refused, a
  callback that stops the parser half way;
* **callbacks in order**: validation, handlers and error callbacks run inside
  each other for every event, and the outcome of one decides on the next;
* **shared state**: resolved schemas are shared and changed in place;
* **numeric edges**: index -1, empty sequences, overflow found after the fact.

What makes each part correct:

* objects: a map with insert/replace semantics; an iteration visits each pair
  once; each reference is released once; destruction ends;
* arrays: lists; nothing is lost, nothing is released twice, unused cells are
  empty;
* DOM builder: the value built is the one the events describe, the stack is empty
  at the end, and nothing is leaked when parsing stops anywhere;
* SAX layer and validator: an input is accepted exactly when it is valid for the
  supported keywords; no handler runs after a refusal; the validator's stack
  follows the nesting;
* resolution: it ends, each reference gets the schema it names, and
  resolving one does not change another;
* numbers: exact when they fit, the documented flag and clamped value when not;
* generator: what it prints is well-formed, or the caller learns that it is not.

The code does not do all of this. [Disagreements](#disagreements) lists where it does not, and
what the properties leave out for it.

## Modules

| module | is | extends |
| --- | --- | --- |
| `JMap` | what an object promises: a map with an order | |
| `JObject` | the hash table, its ring and iterators, ownership of pairs | |
| `JObject_proofs` | theorems about `JObject` | `JObject`, TLAPS |
| `JList` | what arrays promise: lists | |
| `JArray` | cells, capacity, splicing, ownership of elements | |
| `JArray_proofs` | theorems about `JArray` | `JArray`, `SeqLemmas`, TLAPS |
| `JDocument` | what parsing into a DOM promises: the whole document or null | |
| `JDom` | the DOM builder behind the bouncing callbacks of the SAX layer | |
| `JDom_proofs` | theorems about `JDom` | `JDom`, `SeqLemmas`, TLAPS |
| `JValidator` | the handlers of the schema validator, and what they resolve | |
| `JValidity` | when a document matches a schema, without stack or events | `JValidator` |
| `JValidator_proofs` | theorems about `JValidator` | `JValidator`, `SeqLemmas`, TLAPS |
| `SeqLemmas` | lemmas about sequences as stacks, records of them and patches to them | TLAPS |
| `JSchemaStore` | counters of schemas, wrappers, handles and mapped files | |
| `JSchemaStore_proofs` | theorems about `JSchemaStore` | `JSchemaStore`, `SeqLemmas`, TLAPS |
| `JDecimal` | exact decimals with infinities | |
| `JNumber` | numbers and their conversions | `JDecimal` |
| `JNumeral` | what texts of numbers mean | `JNumber` |
| `JGenerator` | the stream and `jvalue_tostring` over the printer of YAJL | |
| `JGenerator_proofs` | theorems about `JGenerator` | `JGenerator`, `SeqLemmas`, TLAPS |
| `JShared` | what C++ handles promise: shared values that live while reached | |
| `JHandle` | `JValue`, `ObjectIterator` and `JDomParser` over counted values | |
| `JHandle_proofs` | theorems about `JHandle` | `JHandle`, `SeqLemmas`, TLAPS |
| `JCompare` | `JValue::operator==` on the values of handles | `JHandle` |
| `MCJ...` | instances for TLC | the module of that name |

`JObject` implements `JMap`, `JArray` implements `JList`, `JDom` implements
`JDocument`, and `JHandle` implements `JShared`; each of these is an
`INSTANCE ... WITH` a refinement mapping and a property of a run.

All modules model the **Release build**: `assert` is compiled out, so an
operation does what its statements do.

They compose along what each promises. `JDom` and `JHandle` use objects as maps
in the order of their ring and arrays as lists, which `JObject` and `JArray` show
they are. Ownership is counted per container in `JObject` and `JArray` (the
references a container owns: `jobject_put`, which takes the caller's over, and
`jobject_set`, which copies it, then are one action), is unique in `JDom`,
where a value under construction has one owner, and is the counter `m_refCnt`
itself in `JHandle` and `JSchemaStore`, where values are shared. The validator's
verdicts are free in `JDom` and computed in `JValidator`; who owns the hierarchies
it computes is in `JSchemaStore`.

### JObject

A slot is a pair of a table's number and a bucket. `key` and `val` are the
entry, `next` and `prev` the links, with `Start` for `&m_start`.
`Stops`, `Find` and `Compared` are the walk of `jobject_find` and
`jobject_insert_internal` along a key's bucket: where it may stop, what it
returns, and which keys it compares on its way. The actions:

| action | code |
| --- | --- |
| `Replace`, `Fill`, `Extend`, `ExtendFails` | the ways `jobject_insert_internal` ends: an equal key, an empty slot, a new table, no memory |
| `Remove` | `jobject_remove` |
| `IterInit`, `IterNext`, `IterEnd` | a client's loop (`jobject_size`, printing, the C++ iterators) |
| `IterRemove` | `jobj_iter_remove` |
| `Destroy`, `DestroyStep`, `DestroyEnd` | the last `j_release`: `j_destroy_object`, one step per pair |
| `UseFreed` | a released key is read: undefined behaviour, and the model stops there |

`order`, `seen`, `assoc`, `lost` and `refilled` are history: no action reads
them. `refilled` records that a slot which was still on the ring was linked
again, which only happens after `jobject_remove`.

`JMap` knows neither tables nor links: a map, the key that an iteration meets after each key,
and three steps (`Replace`, `Add`, `Release`). The refinement mapping takes the map from the lookups
and the order from the ring, `Successor(k)` being the key of the entry that the links of what
`Find(k)` returns lead to. So `MapSpec` says that the two structures always show one map, that a
replacement keeps its place, and that nothing but a put changes either. That an iteration
goes by the first puts is what the code does; `jobject.h` promises no order. A
put that finds no memory leaves the map as it is, though its caller is told otherwise.

There are two specifications. `BuildSpec` is what the library itself, its parser
and its wrapper do: no caller in the repository outside the tests uses
`jobject_remove`. `Spec` is all that the C API offers. Between `IterInit`
and `IterEnd` only iterator calls are made, as `jobject.h` demands.

### JArray

`ar[x]` is an array's size, capacity and cells. The two buckets are one row of
cells, because which of them an index addresses makes no difference. Cells that
were never allocated hold `Junk`, cells that `realloc` just added `NULL`.
A call is a composition of operators on the state `Now`
(`PutUnsafe`, `RemoveUnsafe`, `InsertAbove`, `Expand`), as the functions in the
code call each other. `Spliced` runs the three loops of `jarray_splice`, which overwrite,
remove and insert: `Iteration` is what one round of each does, and `Loop` runs it from
round to round.
`lost` counts references whose last pointer was overwritten or freed. `ListSpec`
is restricted to calls that keep what `jobject.h` promises: memory suffices, an
insertion is within the array, a transfer takes the source's last elements, and
`jarray_splice_append` has an empty target.

`JList` states each call as `jobject.h` documents it, `SpliceAppend` as an append at the end.
`Lists` is stronger than that every step is some step of `JList`: `DocumentedCall` pairs each call with
the one of the same name and the same arguments, so that a call cannot pass for another one.
`Spec` is every call whose arguments pass the checks.

`jarray_create_var` puts its elements into an array created with a hint of 1,
so it is `New(1)` and puts. `jarray_splice_inject` is `Splice` with the whole
source.

### JDom

One call of `jdom_parse_ex`. The variable `dom` is what the handlers work on: the
values created so far, by address (`heap`), those still allocated (`live`), and
the `m_value` of each `DomInfo` on the chain (`ctx`, current one last). A handler is
an operator from one such record to the next (`DomScalar`, `DomStart`, `DomKey`,
`DomEnd`), so that the events of the text and those that `jsax_parse_inject`
makes up for defaults go through the same definitions, the latter one after the
other (`InjectAll`, `HandleValue`) inside the one step that ends an object.

| action | code |
| --- | --- |
| `ReadScalar`, `ReadKey`, `ReadStart`, `ReadEndArray` | yajl calls `my_bounce_...`: the validator passes or refuses the event, a refusal goes to `m_schema`, then the handler runs |
| `ReadEndObject` | the same, with the defaults that `jschema_obj_end` injects before its verdict |
| `StartFails` | no memory for a container or its context |
| `NoValidation` | `jsax_parse_internal` returns before yajl is called |
| `TextEnds` | `yajl_parse` returns: a whole value, a text that is cut off, or one that is no JSON |
| `Finish` | the error callbacks and results of `jsax_parse_internal`, then the cleanup of `jdom_parse_ex` |

yajl is external: `nest`, `keyed` and `whole` only say which event may come next.
The validator is seen from outside: any event may be refused, and since each
`jschema_` function sets `m_state` to NULL when it refuses, `validator` becomes
"failed" and the next event that asks it ends in "undefined" (a NULL pointer is
dereferenced). That happens exactly when a client's `m_schema` accepts a refusal
and the text goes on (`RefusalIsFinal`).

`JDocument` reads the same events into a document made of values: a frame per
open container, placed in its parent when it closes. `JDom` implements it in
place (`DocumentSpec`): the refinement mapping cuts the open path out of the tree,
turning each open container into a frame. Its defaults are those of the schema as
they are written; the code delivers arrays reversed (`Delivered`), so the refinement is claimed
for defaults that read the same both ways (`DefaultsSymmetric`).

A key that was injected is not recorded as seen, so that a further schema of the
hierarchy may inject it again: `Injections` are sequences of up to `MaxInjected` missing keys, with
repetitions. Schemas that give a default for the same key are taken to give the same one
(`Defaults` is a function).

### JValidator and JValidity

A schema is a function from the keywords it has to their values. `states` is the
linked stack of `m_state`, innermost last: each state has the hierarchy of schemas
a value must match (`m_schema->m_validation`, the most general first), the types
still allowed, the keys seen and the items counted. The text (`frames`, `doc`) is
written by the environment, one event at a time as YAJL would, and goes on after a
refusal so that each verdict can be held against the whole document.

| action | code |
| --- | --- |
| `OnObjStart`, `OnArrStart` | `jschema_obj`, `jschema_arr`: `getNextState` |
| `OnKey` | `jschema_key`: the hierarchy of the member is gathered and pushed |
| `OnScalar` | `jschema_str`, `jschema_num`, `jschema_bool`, `jschema_null` |
| `OnObjEnd`, `OnArrEnd` | `jschema_obj_end`, `jschema_arr_end` |
| `Handle` | a handler is called, and its refusal destroys the whole stack |
| `Again` | the next parse with the same schema, resolved in place by the last one |

The operators under them are those of the code: `Resolve` and `Ancestry`
(`resolveSchema`), `Possibilities` (`determinePossibilities`), `Gather...` (the loops
over a hierarchy in `jschema_key` and `push_next_array_state`), `KeysComplete`,
`WithinLimits` and so on.

A number is `plain` when its text has neither a fraction nor an exponent, `1` and not `1.0`:
only such a one is an integer for `jschema_num` (`jschema.c:1661-1677`).

`JValidity` defines `Conforms(h, v)` by recursion on the value, without a stack, an
order of events or resolution in place, for the keywords that the code looks at. `Verdict`
relates it to the validator in both directions:

* a document that does not conform is refused;
* a document that is refused does not conform, or is `Doubtful`: it has a value for which the
  code misreads a keyword (`Misread`), by which it may refuse what conforms.

`Misread` is the list of what the code gets wrong: numbers that have limits or a list of values,
limits that get narrower along a hierarchy, and `disallowed`, which is never read. `Conforms` does not
claim that such keywords have an effect, and `Verdict` does not claim that they have none.

### JSchemaStore

`heap` has the counter of each element of a parsed schema (`counts`), the wrappers
with their counts and arrays (`wraps`), the mapped files (`maps`) and what nobody
will release any more (`leaked`). `held` is what C clients own, `resources` what C++
handles share (`JSchema::Resource`), `session` the parse that runs. `Resolved` is
`resolveSchema` with every `jvalue_copy`, `j_release` and transfer in it; a resolver
fails, parses a text per request, or lends a schema that it keeps.
`lent` is history. A resolver that returns the schema of a mapped file and drops its handle of it
is left out (`Resolvers`): that would unmap a file whose schema is in use. Between the events of a parse, clients may copy and release
what they have.

### JNumber, JNumeral and JDecimal

`parseJSONNumber` goes over a text once, so `JNumber` reads a character per step:
`scan` has the variables of that function, and what the accessors answer is an
operator on `scan`. Words have `Width` bits. Signed overflow is undefined: a digit
that overflows wraps, or (`blind`) the compiler has removed the test that would have
seen it. Whether a text has an `e` at all or ends there, one byte more is read (`num_conversion.c:250`):
at the end of the text it is the byte behind it, whatever that is (`beyond` in `Marks`).
Doubles are exact decimals that become infinite or zero out of their range;
rounding is left out. `JNumeral` reads the whole text at once (`Meant`, `IsJSON`)
and states what the accessors promise of it.

### JGenerator

A stream is its printer: a depth, a state per depth and the tokens written. `Given`
is one call of `yajl_gen`; the result codes are ignored, as `jgen_stream.c` does.
`ToStringAppend` is `jvalue_to_string_append`, a printer from each printer; `Through` is
the loop over the items or members. The values a client prints come in `Layers`: a value
contains values of earlier layers only. Beyond `MaxDepth` the depth is still
counted and the states read are none of the printer's. `Read` is the reference: the
text that calls make, one by one, against the grammar. Of calls that leave a container open or a name
without its value, `TextFollowsCalls` says what has been written so far, and nothing of what `finish`
returns.

### JHandle and JShared

`heap` has the allocated values with `m_refCnt`, `hand` the `m_jval` of each
`JValue`, `walk` the position of each `ObjectIterator`. Every operator of the C++
classes is an action made of `Copied`, `Released` and the temporaries the C++ code
creates and destroys, in that order. `lost` counts references that a refused `put`
or `append` was given and nobody releases. `JShared` has no counters: nodes nobody
leads to are gone. The refinement maps the graph to what the handles and iterators
reach. `JShared` has `put` at an index as `JValue.h` documents it, an insertion. The code replaces,
so that `SharedSpec` has one exception by name: `PutOver`, a `put` at an index in use, is the
`Overwrite` that `jobject.h` documents for `jarray_set`. `CompareSpec` of `JCompare` adds `operator==`.

## Runs

| run | checks | shows |
| --- | --- | --- |
| `object_build` | `TypeOK`, `Findable`, `LookupExact`, `Ownership`, `MapSpec`, `DestroyTerminates` | under `BuildSpec` the tables and the ring of an object show one map, and it is destroyed completely |
| `object_api` | `RingOK`, `IterationExact`, `LoneLookupExact` | what remains true with removals |
| `object_remove` | `LookupExact`, violated | removal hides colliding keys |
| `array_list` | `Lists` | array calls do what they are documented to do |
| `array_api` | `TypeOK`, `OutsideEmpty`, `Ownership`, `NothingLost` | ownership under every call, failures included |
| `dom_parse` | `TypeOK`, `Ownership`, `ContextMirrorsText`, `CanceledForCause`, `RefusalIsFinal`, `DocumentSpec` | parsing yields the whole document or null, and owns exactly what it built, wherever it stops |
| `schema_validate` | `TypeOK`, `StackFollowsText`, `Verdict` | the validator refuses what does not conform, and nothing else but what is doubtful, text after text |
| `schema_store` | `TypeOK`, `ElementsCounted`, `WrappersCounted`, `MapsOwned`, `EmptiedByLending` | schemas, wrappers and mapped files are counted exactly |
| `numbers` | `TypeOK`, `AcceptsNumbers`, `IntegersExact`, `DoublesExact`, `ComparesExactly`, `AccessorsAgree` | conversions of numbers whose parts fit into words are exact or flagged |
| `generate` | `TypeOK`, `ToStringExact`, `TextFollowsCalls` | the text is that of legal calls or of the value |
| `handles` | `TypeOK`, `Counted`, `SharedSpec` | reference counting is invisible to the C++ client; only `put` at an index in use does not do as documented |
| `handles_compare` | `ElementsRemain`, violated | comparing containers takes references away |

Every property of a passing run has a mutant: a variant of one of the model's
definitions, as a plausible bug would make it, that the run must reject. The
variants stand before the definitions they are of.

### Bounds

* `object_build` has four keys, three of them in one bucket, and up to three tables:
  a chain that grows twice, a lookup that passes two other keys, an allocation
  that fails at the end of the chain (once per reference, `MaxLost`), and a key that
  collides with none. Two values tell a replacement from what it replaces.
  `object_api` has one collision and two tables, enough for an emptied slot before a
  used one, a slot linked twice, and a use of a released key.
* `array_list` and `array_api` have two arrays of 2 cells that grow to 3 (`Bucket`,
  `MaxCells`): a cell inside the first allocation, one added by `realloc`, and a
  size for which it fails. Splices then cover fewer, as many and more elements
  than they remove, from the beginning, middle and end of a source. `MaxIndex` lets
  a put skip a cell and one miss the last cell altogether (`array_api`). One value and the null
  tell positions apart: a wrong shift in a list that looks the same after it is found in
  another one. The real bucket sizes (8
  and 16) change nothing in the control; the proofs of `JObject` hold for any.
* `dom_parse` reads texts of up to six events with two names and the empty one: a
  container as the value of a name and its replacement by a second member of that
  name, three levels of nesting, and a text that stops at each of these points.
  Defaults are an array, the same from either end, and an object of scalars, so that an
  injection opens and closes a container of either kind; up to two are injected
  when an object ends (`MaxInjected`), also twice the same. The clients (`MCClients`) accept no error,
  schema errors only, all others, or all.
* `schema_validate` has texts of up to five events (ends not counted) with two
  names and a scalar of each type, `1` and `1.0` among them, and 15 schemas: tuples that are open or closed,
  lists with bounds inherited from another list, members required, optional, with a
  default or required by each other, two levels of extension, references that
  resolve or do not, a child that widens its parent, limits and lists of numbers.
  Texts follow each other, so that a schema is resolved twice.
* `schema_store` has two wrappers and two parsed texts alive at once, one
  resource, two references to each, and two nested values: each owner of a wrapper can
  be the last. The bounds are asked before a step; what a resolver parses inside it comes
  on top. Texts are plain, a reference, an extension that nests a reference,
  and an extension of an extension of a reference, which can fail half way. A parse
  starts when nothing has been leaked (`MaxLeaked`) and the schema has at most two
  elements, since each failure leaks and each parse of an extended schema splices
  more in.
* `numbers` has words of 8 and 5 bits. Their greatest values end in 7 and 5, that of
  an `int64_t` in 7 as well, so that the tests that compare with a tenth of it
  meet the same cases. Digits are 0, 1, 2, 7 and 8; texts have up to six
  characters, with sign, point, exponent and its sign: 128, 127 and -128 with
  trailing zeros, a fraction or an exponent.
* `generate` has room for two open containers (`MaxDepth` 3), six calls, and values
  of up to one level more.
* `handles` has three handles (one the parser's), two iterators, three addresses,
  documents `{}`, `"b"` and `{"a": []}`, containers of up to two items, and one
  lost reference: a handle, an iterator and a container that share a value, in each
  order of letting go.

Deadlock is checked for arrays, the generator and handles, whose clients can always
go on. It is not for the others: an object ends destroyed, a parse returns, a
text of a number ends, and a schema run is cut off by its bounds.

Symmetry is used where values, arrays, addresses, handles or iterators are only
stored, compared and counted, and never in the run with a liveness property.

Fairness. The only liveness property is that destruction ends. It assumes weak
fairness of `DestroyStep` and `DestroyEnd`: they are the iterations of one `for`
loop inside one call, so nothing else can run before the loop is over. Nothing is
assumed of the client, which need not finish an iteration or release anything; and
every other operation of the library is a single call, so nothing else waits.

### Disagreements

Two runs show that the code does not do what its documentation says:

* **A lookup after a removal** (`object_remove`). `jobject.h` says
  `jobject_containskey` is true if and only if the object has the key. Put two
  keys of one bucket, remove the first, look up the second: `jobject_find`
  (`jobject.c:616`) stops at the slot that `jobject_remove` emptied
  (`jobject.c:690`). The emptied slot also ends iterations early, since
  it stays on the ring without a key: `IterationExact` has to exclude `Holes`.
* **A comparison** (`handles_compare`). `JValue::operator==` wraps what is in the two
  containers in temporary `JValue`s, whose constructor takes a reference over that
  these pointers do not come with (`JValue.cpp:232`, `258`), against `jobject.h:415`.
  Its destructor releases the element while the container still has it.

Others were met while modelling. The models have them as the code does, and the
properties are stated with them in mind:

In objects and arrays:

* `jarray_splice_append` passes `jarray_size(array) - 1`, the index of the last
  element, where `jobject.h:522` has it append: what is appended comes before the last element. The
  schemas that a resolver or an extension contributes to a hierarchy are ordered by this.
  `ListSpec` leaves a target that is not empty out.
* `jobject_put` returns true although the table for the pair could not be allocated, where
  `jobject.h:280-281` has it return true if the association was made. `MapSpec` has the map stay as it
  is, and `Ownership` counts the pair as lost; what the caller is told is in neither.
* `jobject_create_var` does not look at the keys it is given, and stores an empty one,
  which `jobject_put` refuses. `JObject` has no empty key.

In parsing:

* `jobject_put` refuses an empty key and leaves the value to its caller; the
  handlers ignore the result (`jparse_stream.c:190`, `353`), and the value leaks. The
  `Ownership` of `JDom` therefore requires that nothing leaks only when no such
  member was read.
* The elements of a default that is an array are injected from the last to the first
  (`jparse_stream.c:886`), where `SchemaExtensions.txt:90-92` wants a missing key to look as
  if it had come in with its default. `DocumentSpec` is claimed for defaults that read the
  same both ways.
* The validator drops its state when it refuses. When `m_schema` accepts the refusal, the next
  event dereferences it: `RefusalIsFinal` permits that outcome ("undefined").

In validation:

* The limits of numbers are held against zero: `jnumber_create_converted`
  (`jobject.c:1740`) marks its number as a raw one without text. The test for a minimum
  is the wrong way round besides (`jschema.c:1709`), so that "number is too small" is reached
  with numbers that are not. Lists of values meet the same zero.
* Limits that narrow those of an extended schema are refused, of numbers, items and lengths
  (`jschema.c:1375`, `1393`, `1696`), with the message that the child is more generic.
* The list of disallowed types is never read, a list of required names is never looked at,
  and lengths of strings are compared and only logged.

  `Matches` asks nothing of these keywords, and `Misread` lists those by which
  something is refused that should not be.

In numbers:

* 9223372036854775808 is read as 9223372036854775800 without a flag: the digit that
  overflows becomes an exponent of one (`num_conversion.c:140`), which the test where
  the exponent is applied lets pass, although `jobject.h:897` has `CONV_OK` mean that
  the number is accurate. -9223372036854775808, which a word can hold, is read as
  -9223372036854775800 in the same way. `IntegersExact`, `DoublesExact` and `ComparesExactly` are
  restricted to numbers whose parts fit into words (`Fits`): they are claimed up to the greatest word
  and its negative, and not one beyond.
* "-0.5" is read as the double 0.5 without a flag: the sign is that of the integer part,
  which is zero. `DoublesExact` and `ComparesExactly` leave such numbers out (`Signless`).
* A text that ends after its `e` is read one byte beyond its end (`num_conversion.c:250-252`), and may
  be taken for a number. `AcceptsNumbers` makes no claim of it.

In the generator:

* `finish` reports `GEN_OK` although a name has no value or a container inside is still open,
  where `jgen_stream.h:48-51` has unmatched pairs, those of child objects too, cause an error.
  `TextFollowsCalls` makes no claim of what `finish` returns then.
* A value with more containers inside each other than YAJL has room for is given a malformed text,
  where `jobject.h:124` has `jvalue_tostring` return NULL on an error. `ToStringExact` is claimed for
  those that fit.

In the wrapper:

* `JValue::operator==` compares a number with itself where it means to
  compare two (`JValue.cpp:250`), and two containers are equal only when they are the
  same one, against `JValue.h:171-180`.
* `JValue::put` with an index replaces the element there, although `JValue.h:310-315` says that
  those above move up. `SharedSpec` names it as its exception (`PutOver`). When it is
  refused, the copy made for it is lost, as is `append`'s.

Assertions of Debug builds contradict what the Release build does: that the slot
just stored is the last of the ring (`jobject.c:477`, false when an earlier pair is
replaced); the bounds of a splice's source during a transfer (`jobject.c:1311` and
`1345`, while the source's size shrinks); that cells beyond the end are empty at
destruction (`jobject.c:924`, false after a transfer from the middle, as
`OutsideEmpty` says); that an injected default is an object (`jparse_stream.c:942`);
that a schema has an element left (`last_schema`, false for one that a resolver
lent, as `EmptiedByLending` says).

## Proofs

### JObject_proofs

For every set of keys and values, every finite set of buckets, every hash function
and every number of tables:

| theorem | property | of |
| --- | --- | --- |
| `TypesHold` | `TypeOK` | `BuildSpec` |
| `PairsFindable` | `Findable` | `BuildSpec` |
| `LookupsExact` | `LookupExact` | `BuildSpec` |
| `OwnershipHolds` | `Ownership` | `BuildSpec` |
| `ImplementsMap` | `MapSpec` | `BuildSpec` |
| `RingHolds` | `RingOK` | `Spec` |
| `IterationsExact` | `IterationExact` | `Spec` |
| `LoneLookupsExact` | `LoneLookupExact` | `Spec` |

The only assumption is `ObjectConstants`: there is at least one table, buckets
are finite, each key hashes to a bucket, and `Start`, `NULL`, slots, keys and values are
told apart.

None of the properties is inductive. `Findable`, for one, says nothing
of which slots are empty: from a state where a pair is found although a later
table holds the same key, a step could break it. For clients that build, read and
destroy, the inductive invariant `IInv` adds what the code maintains without saying so:

* `Chain`: a pair sits in its key's bucket of an allocated table, and that
  bucket is taken, by other keys, in every table before it;
* `Associated`: the value in a slot is the one last associated with its key, and
  a key without a slot has none;
* `Linked`: the ring threads exactly the slots with a pair (`IsRing`,
  `OnRing = Stored`);
* `Progress`: the iterator stands at some position of the ring and has visited
  the slots before it; a destruction stands at the first one;
* `Ownership` itself.

`FindStored` and `FindMissing` say what `Find` returns under `Chain`;
`LinkRing` and `UnlinkRing` are the correctness of `ladd` and `ldel` on a
ring of any length, at any place of it. Then there is one lemma per action (`FillInv`,
`ExtendInv`, `ReplaceInv`, ..., `DestroyEndInv`), `StepInv` collects them, and each theorem
follows from `Invariance`. For the refinement, `OrderFollows` reads the
order of the abstract map off the ring under `IInv`, and `StepMaps` maps every step: a replacement to
`Replace`, a new pair to `Add`, `Destroy` to `Release`, everything else to a stutter.

With `jobject_remove` and `jobj_iter_remove`, `Chain` and `Linked` fail: an emptied slot
may hide a key that sits further down the chain, stays on the ring, and may be linked a
second time. What is left, `ApiInv`, is inductive for `Spec`:

* `Closed`: the links of a node that was ever linked, and the iterator of a loop, lead
  to such nodes only, so that no loop follows a null link even once the ring is broken;
* `Placed`: a key sits in its bucket of an allocated table, a key without collisions in
  the first table, and an entry that `jobj_iter_remove` left behind still has its key,
  so that `jobject_put` does not fill it;
* `LoneAssociated`: the slot of a key without collisions tells what is associated with it;
* `Threaded`: until a slot is linked twice, the ring threads every pair, no entry left
  behind, and only slots of allocated tables (a slot of a new table is on no ring);
* `Visiting`: the position of the iterator in a loop, destruction included.

### JArray_proofs

For `Spec`, that is for every call, those that fail or lose elements included, for any
finite number of arrays, any values and any sizes of buckets, memory and splices:

| theorem | property |
| --- | --- |
| `TypeCorrect` | `TypeOK` |
| `BeyondTheEnd` | `OutsideEmpty` |
| `OneReferencePerCell` | `Ownership` |
| `LossNeedsACause` | `NothingLost` |
| `ArraysAreLists` (for `ListSpec`) | `Lists`, the refinement of `JList` |

The assumptions are those of `ArrayConstants`: the arrays are finitely many, an array has
at least one cell and no more than memory allows, and values, the JSON null, `NULL` and
`Junk` are told apart.

`Ownership` is about a number of cells, and an insertion or removal moves any number of
them. `TurnCount` shows once that moving the cells `lo .. hi` of an array by one
changes the number of cells with a value `v` only by what the overwritten cell held and what
the vacated one holds now, by a bijection of the others. `TurnOwned`, `RiseOwned` and
`StillOwned` turn this into: `Sound`, the types with `Ownership`, holds after a store, a
removal or an insertion that counts references as the code does. `Clean` (no cell
beyond the end holds anything) comes with it, since `Ownership` alone does not say that
what `jarray_put_unsafe` overwrites beyond the end is nothing, or that a destroyed array
frees no held value.

A splice has intermediate states that no client sees. They need not satisfy `OutsideEmpty`:
a transfer empties cells of the source from the front while its size shrinks from the back.
`Mid` says what a splice has done after `d` elements: the source has exactly the cells
`b .. b + d - 1` empty and `d` elements fewer, a third array is untouched, and nothing
is lost unless memory ran out. `OverwriteFacts`, `InsertionFacts` and `RemovalFacts` keep
`Mid` for one iteration of each loop, `LoopKeeps` takes it through a loop of any length (by
the first iteration that would break it, `LeastOf`), and `SpliceFacts` concludes that the
source is `Clean` again exactly when the transfer reached its end. `IInv` adds to `Sound`
that arrays are `Clean` unless `split`, and that nothing is lost unless `split` or
`exhausted`; there is one lemma per action (`PutKeeps`, ..., `RenewKeeps`).

`ArraysAreLists` is about `ListSpec`, whose client inserts within an array, has memory for it,
transfers the last elements only and appends by a splice to an empty array only. What `jarray_get` returns of an array is the sequence
`Shown`, and `Patched` (`SeqLemmas`) is a sequence with `w` in the place of `k` elements; a put,
an insertion and a removal each replace one stretch of cells, and `ShownPatched` turns this
into a patch of the sequence (`PutShown`, `InsertShown`, `RemoveShown`, `RenewShown`). For a splice,
`Mid` also keeps `Aimed`: after `d` elements, of which `z` took the place of an element of the
target, the target has those `d` elements of the source in the place of `z` of its own, so
that each of the three loops extends the patch by one element (`SpliceShown`). `ListInv`, which is `IInv`
without `split`, is invariant under `ListSpec`, and `PutMaps`, ..., `SpliceMaps` map each action to the one
of `JList` that documents it.

### JValidator_proofs

For `Spec`, for all schemas, whatever the resolver returns and however long and
deep the texts are:

| theorem | property |
| --- | --- |
| `ValidatorTypes` | `TypeOK` |
| `StackFollows` | `StackFollowsText` |

The assumptions are those of `ValidatorConstants`: scalars are of the four kinds,
`NULL` is no key, and the number of events is bounded. What the hierarchies of
schemas are, which folds and recursive functions compute, plays no part: the
theorem holds for any hierarchy a state may have been given.

`StackFollowsText` is not inductive. It says nothing of the state of a value that
must come next, so a state that is open already, or has keys, could sit there and
make the next container's state wrong. `IInv` adds that this state is `Untouched`;
that each container around an open one waits for its value (`Text`); and that states
and frames are records of their types. A value that begins leaves the stack as
`Inside` describes it, whether its state was pushed by the key before it or is
pushed now for an item (`Entered`, `Typed`); a container turns that into `Opened`, a
scalar and an end into `Around`. `ScalarOutcome`, `ObjOutcome`, `ArrOutcome`,
`KeyOutcome` and `EndOutcome` say so of the handlers, and one lemma per action
(`StartStep`, `KeyStep`, `ScalarStep`, `EndStep`, `AgainStep`) adds the text.

### JDom_proofs

For `Spec`, for all names, values and clients, any finite number of defaults and texts
of any length and depth:

| theorem | property |
| --- | --- |
| `ContextsMirror` | `ContextMirrorsText` |
| `CancelsForCause` | `CanceledForCause` |
| `RefusalsFinal` | `RefusalIsFinal` |
| `OwnershipHolds` | `Ownership` |
| `TypesHold` | `TypeOK` |
| `DocumentsAreBuilt` | `DocumentSpec` |

The assumptions are those of `DomConstants`: addresses, which are numbers, are told
apart from `NULL` and the static values, the names with defaults are finitely many,
and each default is a scalar or a container of scalars (`IsDefault`). `DocumentsAreBuilt` assumes
`DefaultsSymmetric` besides.

`ContextMirrorsText` does not carry itself through a step. A container joins its
parent by `jobject_put` on the borrowed pointer of the context below, and that could
overwrite a pair on the chain: nothing in the property keeps two contexts from
borrowing the same container. `Chain` adds that they are all different, `Mirrors` that
the current context waits for what the text has next, and `Placed` that the handlers'
state is a record of its type in which no handler has refused. `Keeps` then says of
every operation on values what a context may rely on: values are added, and at most one
container's items change.

`Ownership` speaks of the trees under certain roots, and a tree says nothing of how it was
built. What carries it is local: `Tidy` says that every value alive is held by one other
or is a root, that no root is held, and that whatever a live value holds is alive. `IsHeap`
adds the order of creation, a value being newer than the one it is in, so that there is no cycle and
`Reach`, a recursion over a heap, is defined (`ReachesExist`, `ReachIs`). `Rewired` is the
surgery on such a heap that appending and replacing are, and `FreedBelow` says that
releasing a replaced value frees its tree and nothing else. `Kept` names the roots while
the handlers run: the top-level context and the key that waits. `HeldOnce` and `FitOwned` get
`Ownership` back: a live value that nobody holds is a root, and going up from any other
ends at one (`AliveReached`).

`Good` is `Placed` and `Kept`. One lemma per handler (`ScalarGood`, `KeyGood`, `StartGood`,
`EndGood`) takes `Good` for one nesting of containers to `Good` for the next.

An injection handles many events in one step. Its intermediate states are those of a
recursive function of the number of events handled; since the induction theorems cannot
be used, `EventStepsExist` and `InjectionStepsExist` show that these functions
exist, and `RunGood` and `InjectAllGood` that all of their states are `Good`, by looking at
the first that is not (`LeastOf`). `ContainerGood` and `InjectGood` are then about
one default, whatever it is.

`IInv` is `Going` while the text is read, and afterwards what the end of the parse needs
to know: that a refusal nobody answered for (`Unanswered`) stopped it inside a
container or before there was a value, so that no callback that lets the parse
pass (`ParsedOK`) can deliver one. When the text stops anywhere, `Settled` lists what
`jdom_parse_ex` still has to release, and `Handed` that afterwards only the document is left.
`CanceledForCause` and `RefusalIsFinal` follow from `IInv`.

`DocumentsAreBuilt` is the refinement of `JDocument`. `Tree` turns an address into the document it is the root
of, by a recursion over the heap. Since a value is newer than the one it is in, this recursion has one solution (`GrowsExist`,
`TreesAre`), so `MembersAt` may unfold it where a handler works, and `SameTrees` says that a change of one
container leaves every tree alone that does not lead to it.

`IInv` is too weak here, because it says who owns a value and not which item it is. A frame is the contents of an
open container *without* the child that is open, which the mapping finds in the parent's items. `Own` adds
that no two pairs of an object have the same key (`Keyed`), that nothing but the container around it
holds an open container (`Guarded`), that in an array the open child is the last (`LastOpen`),
and that the key that waits is a name. `Own` is kept because `jobject_put`
replaces the pair of an equal key (`Slot`, `PutAdds`) and `jarray_append` adds at the end.

Each handler has a lemma that says which frames it leaves and that `Own` holds again: `ScalarOwn`, `KeyOwn`,
`StartOwn` and `EndOwn`. The one for a container that opens is the longest. Putting a container under a key that is
there already releases the old value when the new one opens, and the frame
of the parent is then its old members without that name, as `JDocument` opens it; under the empty key, the container is not put
anywhere. `InjectAllAt` does the same for an
injection, for any number of defaults and elements, by the functions of `InjectionStepsExist`: the frame has joined the
defaults whose names it lacks, each as it is delivered, which `DefaultsSymmetric` makes as it is written. A
default that is injected again replaces an equal one. Then there is one lemma per step of `JDocument` (`ValueMaps`,
`NameMaps`, `OpenMaps`, `CompleteMaps`, `CloseMaps`, `DeliverMaps`); a refused or bounced event is a stutter
(`StillMaps`). `Following` keeps `Own` while the text is read, and afterwards that a parse that stopped inside a
container or before any value has nothing to deliver.

### JSchemaStore_proofs

For `Spec`, for all texts, however their nodes nest and extend each other, and for every
interleaving of clients, C++ handles and a parse with any resolver:

| theorem | property |
| --- | --- |
| `WrappersCountedHolds` | `WrappersCounted` |
| `MapsOwnedHolds` | `MapsOwned` |
| `EmptiedByLendingHolds` | `EmptiedByLending` |
| `ElementsCountedHolds` | `ElementsCounted` |
| `TypesHold` | `TypeOK` |

The assumptions are `StoreConstants` (texts are nodes, `NULL` is none of the rest, bounds are
numbers, a client may hold at least one reference) and `NodesAreTrees`: nodes are
finitely many, what they include is in them without a cycle, and inside one text an element has one
container. A parsed text is a tree, so each one satisfies it.

The first half is about wrappers. `IInv` is `Sound` (types, and each wrapper's counter is
the number of its references), `Owned` (a mapped file has an owner, and no two wrappers or
resources have the same) and `Fed` (without lending, what a client can use has
elements). It is inductive without a word on the counters of elements: a
resolution touches the wrappers' arrays, but neither their counts nor their maps (`KeptThrough`).

The second half is about elements. A resolution copies, transfers and releases
elements in many small steps, and in between some are in no wrapper: they are in a
local array, or in one that was taken out to be spliced in elsewhere. `Balanced(h, X, loose)` says
that the counters are right when the wrappers `X` are left out and the elements `loose` are on
their way. Each step of `resolveSchema` and of the loops around it keeps it with its own `X` and
`loose` (`EvenCopied`, `EvenReleased`, `BalancedMoved`, `ReferredBalanced`,
`ExtendedBalanced`, `ResolvedBalanced`, `GatheredBalanced`), and between two steps of the specification nothing
is on its way (`Settled`). A release frees the part of a tree whose counters are one all the way up from
the element released (`Freed`), and `EvenReleased` shows that the counters of what remains are then right.
The models' folds and recursive functions are taken step by step, as functions that are shown to exist
(`ReleaseStepsExist`, `UnrefStepsExist`, `GatherStepsExist`).

The proof made `ElementsCounted` say more than it did: that what an element contains is
allocated as long as it is.

### JGenerator_proofs

For `Spec`, for any strings and other values, any depth and any number of calls:

| theorem | property |
| --- | --- |
| `TypesHold` | `TypeOK` |
| `TextFollowsCallsHolds` | `TextFollowsCalls` |
| `ToStringExactHolds` | `ToStringExact` |

The assumptions are `GeneratorConstants` (the printer has room for a depth at least,
a stream can be given a call, brackets and separators are no strings) and `ValuesNest`: a
value is an array, an object or a scalar, and what it contains is of an earlier layer.

`TextFollowsCalls` is about the state on top. A bracket that closes uncovers the state below it, so
`Follows` relates the printer's states at every depth to the places that the calls have
open: `Level` says which states a container may be left in while another is open
in it. `GivenIs` and `Accepted` show that a legal call is never refused, and `FollowsAtom`,
`FollowsOpen` and `FollowsClose` that it keeps `Follows`. `Made` adds what is true of illegal calls:
the depth is at most the number of openings, and the brackets of the text are balanced
against it as long as there is room.

`ToStringExact` is about values of any layer. `Exact(cs, h)` says that the calls `cs` are those of a
value wherever one may come, and that the printing `h` takes every printer that follows
to one that follows. `ExactContainer` shows it for a container whose items satisfy it, taking
them one by one (`Carried`, `CarriedAll`), and `ExactAll` goes up the layers.

### JHandle_proofs

For `Spec`, for any finite number of handles, iterators and addresses, any documents that are
trees and any size of containers:

| theorem | property |
| --- | --- |
| `TypesHold` | `TypeOK` |
| `CountedHolds` | `Counted` |
| `ValuesAreShared` | `SharedSpec` |

The assumptions are `HandleConstants` (the static values are two, and at no address; sets and bounds
are finite), `DocumentsAreTrees`: what a parse or a constructor makes is a tree, each node
but its root in one place of one container, and `DocumentNodes`: a node of a document is a record
of the fields that `JShared` knows.

The two properties need each other: that a handle's value is alive is known from its count, and a
count is right only as long as nothing points to what was freed. In between, an operator of
the C++ classes goes through states that satisfy neither: a temporary has a reference, or
what an item held is being released while the item is still in its place. `Good(h, X, o)` says of a heap `h`
that its counts are right when the places `X` are left out and the references from outside the heap are `o`, a
number for each address. There is one lemma for each operation the actions are made of, and it says
what becomes of `X` and `o`: `CopiedGood` adds one to `o`, `ReleasedGood` takes one away, `CreatedGood`
adds the root of a tree, `GivenUp` moves the references of a place from the heap to `o` and
`OverwrittenGood` moves those of an item back in, which together are `StoredGood`. `AssignedGood`,
`AdoptedGood`, `TakenGood`, `StoodGood` and `DerefGood` compose them in the order of the code's temporaries.

`j_release` frees a whole part of the heap, which the model takes as the last of a number of rounds. `FreedFixed` shows
that these rounds come to a fixed point within as many as there are values, and `FreedGood`
that nothing outside refers to what is freed and that the count of each value that remains is above the
references it loses.

`IInv` is `Good(heap, {}, Held(hand, walk, lost))`, the references from outside being those of
handles, iterators and refused calls, with the types and the places of the iterators. These outlive
every step, since a container never becomes shorter while somebody leads to it (`Grown`). There is one lemma per
action (`MadeKept`, `ParseRefusedKept`, ..., `DerefKept`).

`ValuesAreShared` is the refinement of `JShared`, and rests on `IInv` for one thing, `Tied`: before and after each
step, handles, iterators and containers lead to values that are there. `Graph(heap, hand, walk)` is what a client
sees. `BecomesLive` is the heart of it: any graph that agrees with the new heap wherever both
have a node, and leads nowhere else, becomes what the client sees once the nodes nobody leads to
are taken away. So the counts need not be followed: copies and releases only prune
(`Prunes`, with a lemma for each operation the actions are made of), `LaidShows` extends the graph by a document and
`StoringLive` by an item. Reachability is, in both modules, the last of a number of rounds; `UnderClosed` and
`UnderLeast` show that it is the least closed set. There is one lemma per action again
(`HoldMaps`, `WalkMaps`, `MadeMaps`, ..., `PutNamedMaps`); a refused `put` and `append` are stuttering steps,
and a `put` at an index in use is `PutOver`.

### Only model-checked

* `DestroyTerminates`, since liveness is out of the prover's reach.
* `Verdict` of `JValidity`, which is defined by `RECURSIVE` operators that the prover does not
  take, and what `JCompare` says of `operator==`, for the same reason.
* `JNumeral`, which holds a scan of a text, digit by digit, against its decimal value: an induction over
  the text and the arithmetic of decimals.

## Not modelled

* Objects and arrays: the experimental backward iterator, `jvalue_duplicate` (no caller
  but itself), `SPLICE_NOCHANGE` (the client counts references itself), splicing an
  array into itself, calls whose argument checks fail, and the contents of keys: equal
  strings are one model value, and the hash is a constant.
* Parsing: `jdom_parse_file`, whose failures are those of the file system (it also
  unmaps what a failed `mmap` returned), the text of the input that the root keeps for
  printing, allocation failures other than a container's, and defaults that nest
  deeper than one level.
* Schemas: texts that are no schema (`jschema_parse` returns null), and memory that
  runs out in resolution.
* Numbers: rounding of doubles, and printing.
* The C++ wrapper: `put` of a key on a value that is no object, which only an assertion
  meets, and the copies of a file's contents.
* YAJL beyond what the library relies on: the lexer, escapes, buffers. The V8 binding
  (glue to an engine, not built by default). Logging.

## What is left of the plan

The plan was to model objects, arrays, parsing, validation, schemas, numbers, the
generator and the wrapper, in this order, and to prove what holds for all
constants about objects, arrays, the validator, the DOM builder, the schema store, the
generator and the handles. What would come next:

1. `JDom` with `JValidator`'s verdicts in place of free ones, which needs one schema
   language for both and defaults that nest.
2. Doubles with a mantissa of a few bits instead of exact decimals.
