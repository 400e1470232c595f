# TLA+ models of the OData C++ client

These modules specify the part of this library that decides what a program
that uses it sees and writes: how a client obtains the metadata of its service
and shares it, how it reads results in pages, how it works out and keeps edit
links, how values travel to the application and back, how queries are built,
how metadata is read and resolved, which classes the code generator makes of
it, and what these classes make of values. TLC checks the properties on small
instances; TLAPS proves the most important ones for every value of the
constants. `PROJECT.json` names, for each definition, the lines of source it
translates, and lists all runs, mutants, theorems and hazards.

Paths below are relative to the repository. `src/` is the library's code,
`include/odata/` its headers.

## 1. Inventory

Everything asynchronous in the library is a chain of `pplx` continuations that
run on a pool of threads. **No lock is taken anywhere in the library.** So two
calls that overlap, also two that one thread makes without waiting for the
first, interleave at each access to a member.

| Part | State it keeps | Operations | What makes it correct |
|---|---|---|---|
| Client, metadata (`src/client/odata_client.cpp`) | `m_model` of each client; `m_model_cache`, one map for the process | `get_model`, and `get_entities`, `get_data_from_server`, operations and `send_data_to_server`, each of which fetches the model first and then calls itself again | A model is the client's own service's; nothing is encoded or decoded without one; a model is fetched once, and kept as long as values point into it |
| Client, pages (same file) | the payloads in the continuations that wait | the same reads, which follow next links recursively and wait with `get()` inside a continuation | All values, once, in order, or an exception; no pool without a free thread |
| Paged query executor (`codegen/odata_entityset_query_executor.h`) | the caller's `next_link_url`, captured by reference | `execute_paged_query` | No page is skipped, and when calls are awaited none is repeated |
| Service context (`codegen/odata_service_context.h`) | the edit link in each generated object | add, update, delete, related and reference calls | A link is one the service gave for this object; writes hit no other entity; a returned status was earned |
| HTTP client (`communication/http_implement.h`) | `m_client`, `client_config` | `getOrCreateClient`, under every request | Every request carries the credentials and the settings chosen in time |
| EDM reader (`src/edm/edm_model_reader.cpp`) | the model; pointers to the current schema, container, set, type, operation | a handler for the begin and the end of each element | What is declared is filed, whole, where it belongs, and no pointer is null |
| EDM resolver (`src/edm/edm_model_utility.cpp`) | the types, base types and bindings of the model | one pass over schemas, types, operations, container | Every declared type becomes a live pointer to it, in any order of the maps |
| JSON reader, links (`src/core/odata_json_reader.cpp`, `odata_context_url_parser.cpp`) | the frames of nested objects | headers, entities, nested and expanded properties | A link leads to the entity it was made for; nothing is dropped or mistyped |
| JSON reader and writers, values (same, `odata_json_writer.cpp`, parameter writers) | the value tree | read, set, write; arguments of operations | What nobody changed is not changed; what is written reads back |
| Query builder (`codegen/odata_query_path.h`, `odata_query_builder.h`) | a tree of raw pointers, options | options, keys, `expand`, evaluation, deletion | The expression means what was asked; the tree is walked and freed safely |
| Code generation tool (`tools/codegentool`) | the lists of classes of each schema, the names of enumerators | collect, name, merge, write | Every type that can have a class has one, after its base; what is written for a supported model compiles |
| Generated classes (`codegen/code_generation.h`, `code_generation_helper.h`) | members, edit link, static maps of creators | `from_value`, `to_value`, `load_...` | An object is of the type that was read, and an update writes what the program edited and nothing else |
| Executors of one value, filter expressions, property map, conversions, XML stream | none that lasts | one conversion or lookup each | |
| Samples, tests | | | users of the library |

How they interact: an application builds a query (query builder) and executes
it (executor), which calls the client; the client gets its model (EDM reader,
then resolver, over the XML stream), sends the request (HTTP client), decodes
the answer with the model (JSON reader) and follows next links; the executor
makes objects of the values (generated classes). The service context takes an
object back to a value, which the JSON writer encodes, and addresses it by the
edit link that the JSON reader, or an earlier answer, has left in the object.
The pieces of state that cross these borders are the model, the next link and
the edit link, and most hazards are about one of these three. Before any of
this, the code generation tool reads the model of a service once and makes the
classes an application is compiled with; the service may have moved on since.

What is hard here: the unlocked members above; waiting inside continuations;
references to the caller's variables that outlive a call; the retry of every
operation after `get_model`; requests applied whose answers are lost; links
that are computed, from several sources, when the service leaves them out;
the asymmetry between a reader that keeps escapes and a writer that escapes
nothing; the state machine of an XML reader that does not look at its stack;
raw pointers overwritten by a second `expand`; hash maps whose order decides
what the generator writes first; classes that know less than the service, and
continuations that write to objects through plain pointers. `PROJECT.json`, "hazards",
lists 40, each at its line, with the properties that would catch it.

## 2. Plan

Done, in this order:

1. `ServiceModels`, `ClientModel`: every other call stands on it. Refinement,
   liveness, races; proved.
2. `PagedRead`, `Paging`: the reads under it, with the thread pool. Refinement,
   liveness.
3. `PagedQuery`: the caller's link; proved.
4. `ServiceContext`: writes and links; proved.
5. `EdmReader`, then `EdmResolver`: the model itself; both proved.
6. `HttpClient`: the other unlocked member; proved.
7. `EditLinks` and `JsonWire`: the algorithms of the readers and writers; both
   proved.
8. `QueryPath` and `QueryReading`: the tree of a query and its text; proved.
9. `PagedRequests`: paged queries over the lazily made client; proved to
   implement both of its parts.
10. `CodeGenerator`: the classes made of a model; proved.
11. `EntityObjects`: the program that uses them; what it reads and loads is proved.

Next:

12. Composition of `ClientModel` with `HttpClient` for a first request, and of
    `Paging` with `ClientModel` for a client destroyed while pages are read.
13. Operations of generated classes, over `JsonWire`'s arguments and results.

## 3. Modules

Each `MC` module instantiates the module in its name. Operators and actions
marked as mutants in a comment are wrong on purpose: they are plausible bugs
that stand beside what they would replace, used to see that a property notices,
and are no part of any specification.

### ClientModel and ServiceModels

A client is a row of `m_model`, the static map is `m_model_cache`. A call `o`
has a program counter `pc[o]`, and a step is one access to shared memory:

| Action | Code |
|---|---|
| `Call`, `CheckModel` | the guard `if (!m_model)` at the head of each operation |
| `CheckOwnModel`, `FindInCache`, `Adopt` | `get_model`: its own member, then the map, then the assignment |
| `AnswerMetadata`, `MetadataFails` | the request for `$metadata`; only its status is looked at, and thrown |
| `ParseMetadata`, `ParseForever` | `schema_from_response` takes any body: what is no CSDL makes an empty or partial model, or the XML loop never ends |
| `PublishModel`, `BeginCacheStore`, `EndCacheStore` | `m_model = ...`, and the store in the map, whose beginning and end are two steps because other threads can run between them |
| `GotModel` | the continuation that calls the operation again |
| `Send`, `Answer`, `Finish`, `FinishFails` | the request itself and what becomes of its answer |
| `Destroy` | the end of a client, whose model goes unless the map has it |
| `Crash` | two accesses to one unlocked object that overlap, one a write: undefined behaviour, which may end the process or have no effect |

Callers may wait for each call before they make the next, or not: any call may
start at any time, and the history variable `overlapped` remembers whether one
did while another was under way. Properties of callers that wait are stated for
the behaviours in which it is false. The other histories (`parsed`, `fetches`,
`warm`) are marked as such.

`ServiceModels` is what the two caches promise: models are published, a client
comes to hold one of its own service, the cache shares one a client holds.

### Paging and PagedRead

`payloads[r]` is the stack of continuations that wait in `get()`; each of them
counts as a busy thread. `FollowLink` calls again, `ReturnLast` ends the
innermost call, `Resume` is a `get()` that returns, `Throw` one that throws.
`Typed` reads (`get_entities`) and untyped ones differ, as in the code, on a
next link that is the service root. `PagedRead` is the read they implement: all
values in order, or none.

### PagedQuery

`link` is the caller's string. `Call` reads it, `Deliver` writes it from the
continuation, `Fail` throws and leaves it. `DeliverNothing` is an answer with a
good status that is no JSON: it is read as a payload without values and without
a next link, so it empties the caller's link. The history `blank` remembers that
this happened, and `overlapped` is the same history as in `ClientModel`.

### ServiceContext

Addresses are paths of sets, navigation properties and keys. `link[o]` is the
edit link of object `o`; `task[o]` the call in progress, with the address
computed from a link when it was made. The service (`Insert`, `Upsert`,
`Modify`, `Refer`, `DeletedByOther`) is the environment: it may apply a request
and lose the answer (`Serve` to `refused`), refuse it, answer with or without a
`Location`. `Return` is the continuation that writes the link. `own[o]`, a
history, is what the service has ever given for `o`.

### EdmReader

An element is a begin and an end; `stack` is the element stack of the parser,
which the handlers do not consult, and the `m_current_...` variables are the
members they do. A document may break off anywhere (`EndOfStream`): the parse
then ends as if it were complete or, where `libxml2` cannot go on and returns -1,
never (`"endless"`). Inputs are documents CSDL allows, so that `PointersAreSet`
is about the reader.

### EdmResolver

One step visits one type, operation, container or binding, in any order within
a schema, since the maps are unordered. `type[p]` is what `m_type` of property
`p` points to, with weak pointers that can expire (`kept`).

### HttpClient

`Check`, `SetCredentials`, `Construct`, `Store` and `Use` are the accesses of
`getOrCreateClient`; `Configure` is the application's change of the
configuration, possible whenever its thread is free. A call that found its model
in the cache sends its request on a pool thread, which is how requests overlap;
`overlapped` remembers that one did.

### PagedRequests

The composition of `PagedQuery` and `HttpClient`: a call that finds a link is a
request under the same name (`CallPage`), its answer can come when that request
was sent (`AnswerPage`), and other operations (`Other`) share the client.

### EditLinks

`Receive` chooses a request, the metadata level and the expansions;
`ReadHeader` parses the context URL (`ParseSegment`) and makes the first frames;
each `ReadEntity` decodes one object and puts frames for those nested in it
before the others, in one order of each collection: no link depends on it.
`Sent` is the payload as a tree, in which `ReadIsWhatWasSent` finds what must be
read, at any depth. `Keys` are the key strings there may be. `ComputedLink` is `compute_edit_link` with its cases. `MCEditLinks` takes its
metadata and store from the model the repository's tests use, reduced to the
places where containment, derived types, bindings and singletons meet.

### JsonWire

A text is a name and a number of escapes. JSON, and a value the client holds, is
a tree: a function from paths, which are sequences of names of members and numbers
of items, to what stands there. `Read`, `SetString`, `SetValue`, `Update`,
`Serve` and `Invoke` are the steps of several clients and a service. The reader and
the writer of the code go down a value recursively; what they make of one place
depends on the type that is passed down to it, so here `Kinds` gives every path
what its type says it holds, `ReadEntity` is `ReadMember` or `ReadElement` at every
path the types know, and `Written` is `WriteNode` at every path that can be written
together with all above it. `Stripped` (the quotation marks go, the escapes stay)
and `Quoted` (quotation marks come, nothing is escaped) are what happens to a text.
`Marked` is the `#` the writer puts before a type name, in the value itself and
not in a copy.

### QueryPath and QueryReading

`path[p]` holds the pointers and options of a path. `Expand` overwrites the
sibling of its argument, as the code does; `Evaluate` sorts options in place
and makes the expression, which is a recursive function over the paths it
visits; `Delete` follows the pointers. Where these lead (`Reach`) is the least
set that is closed under them. A text is a sequence of tokens: a segment of a
path, the text of an option, or a sign of the grammar. `QueryReading` is the
grammar by which a service reads it back, independent of how it was made:
`Then` is what one more token makes of the query, or item of an `$expand`, that
is being read, with those it is within; what fits nowhere is refused
(`Refused`), and so is a query that ends too early (`ReadQuery`). It is wider than
OData's grammar in one place: it takes keys within an item of `$expand`. The builder
writes the keys of a path wherever the path stands, and a service refuses them
there, so a caller must not give keys to a path it expands.

### CodeGenerator

A model is a record of types, properties, operations and containers; the text of
the files is not modelled, only which classes they have, in which order, and
whether the macros of `code_generation.h` and a C++ compiler accept them.

| Action | Code |
|---|---|
| `GiveUp`, `BeginSchema`, `EndSchema` | `begin_initialize_code_gen_info`, schema after schema |
| `AddEnum`, `AddClass`, `EndClasses` | `initialize_class_info`: a hash map iterated in any order until nothing is added |
| `NameEnumerator` | the names of enumerators, made different within a schema |
| `Merge` | the lists of all schemas put into the namespace of the container |
| `Write` | the writer, which gives up at a fifth key |
| `Compile` | the compiler (external): `Compiles` says what must hold of classes, members, operations and enumerators |

An action is taken for any element that can be next, so every order of every map
is a behaviour. `KeyLimit`, `ImportLimit`, `FunctionLimit` and `ActionLimit` are
the macros there are.

`Compiles` is also about names: the tool writes those of the model as they are,
but properties in lower case, in front of, behind and inside names of its own. A
name is the sequence of its parts between underscores, a property carries the names
it takes in its class (`takes`), a type its own in lower case. `Reserved` are the
names that are taken before the tool writes any: keywords, what the headers and the macros declare.
In one namespace are classes, containers, the functions `create_..._from_...`
that are named after classes in lower case (`Creators`), and the enumerators, which are unscoped
(`NamespaceFits`, `EnumeratorFits`); in one class its members and operations
(`PropertyFits`, `OperationFits`); in one container the queries and imports
(`ContainerFits`). Left out are names of types and containers with underscores, and
types named as the bases of all classes (`type_base`, `odata_service_context`).

### EntityObjects

Extends `CodeGenerator`: a program is compiled with the classes of one
model and makes calls. `Call` is a task of `pplx`; `Query` and `Load` are
answered (`Answer`) with what the service has then, and the continuation
(`Continue`) makes objects. `Creates` is `create_instance_from_entity` and
`_from_complex`, `FromValue` and `ToValue` are the macros that copy members,
class after class. `Enumerator` is the read of a text that may be unknown;
`Stray` is a member the constructor leaves as the memory was, whose text when
written is a nondeterministic choice. Complex values lie in one another up to
`MaxNesting` deep, and what is made of them is a recursive function over those
that are there (`Contained`). A continuation that looks for a type
which is not in the static map of creators inserts it: `Continue` begins the
insertion, `Insert` ends it, and a continuation on another thread that looks
into that map in between may crash the process (`Racing`). A load whose object
has been released may too. `Update` makes the payload when it is called; `Apply`
is the service, which refuses a payload with a text it does not know. Any call
may `Fail`: the client throws on another status, and no object is made or set. A
load may also be answered in no JSON (`AnswerNothing`), which empties the property
without an error. `Change` and `Relink` are other clients.

Simplified: the object on the other side of a navigation is known by its entity
only, and has no members; a load asks for the navigation property itself (the
query builder it can be given replaces that path and is not modelled); where the
update goes is the subject of `ServiceContext`; unknown texts are read as zero,
taken to be the value of the first enumerator. `fresh` and `hurried` are
histories: which navigation properties were loaded one load at a time, with a
good answer, and not relinked since, and whether a call was made or an object released while
another call was under way.

## 4. Runs

| Run | Instance | What it shows |
|---|---|---|
| `client_model` | 2 clients of one service and 1 of another, 2 calls that may overlap, fairness | `OwnService`, `RequestHasModel`, `FetchesOnce`, and that `ClientModel` implements `ServiceModels`; `CallsComplete` and `ParsedReachesCache`; for callers that wait, `OneModelPerService`, `ValuesKeepTheirModel` and `AwaitedCallsAreDefined`: no race is left and no weak pointer expires |
| `paging` | 2 reads, one of each kind, up to 3 pages of 0 to 2 values, 5 threads, fairness | `NothingLost`, that `Paging` implements `PagedRead`, `ReadsComplete` |
| `paged_requests` | 2 pages, 3 calls that may overlap, another request, 2 settings | `NoPageSkipped`, `PagesAreAuthenticated`, `ChoicesHold`; `EachPageOnce` and `OneClientWhenAwaited` for callers that wait |
| `service_context` | 2 objects, 2 new keys, paths shorter than 4 | `LinksAreOwn`, `WritesHitOwn`, `AddedIsEditable` |
| `edm_reader` | documents of up to 6 elements, 2 names | `FiledWhole`, `NothingDropped`, `PointersAreSet` |
| `edm_resolver` | 6240 models of 2 schemas | `TypesResolved`, `BindingsAreRight` |
| `edit_links` | 12 entities, depth 3, up to 4 expanded properties | `LinksLeadHome`, `ReadIsWhatWasSent`, `ReadIsEditable`, `OnlyUnboundContextsCrash` |
| `edit_links_singleton` | depth 1, 1 expanded property | violated: see section 7 |
| `json_wire` | 2 clients, 2 documents, 1 edit each, 2 updates | `UneditedStays` |
| `json_wire_one` | 1 client, 49 documents, operations | `ArgumentsArrive`, `ReadCanBeWritten`, `WrittenReadsBack` |
| `query_path` | 1 builder, 3 paths, 2 options or keys, 3 expansions | `TreeIsSafe`, `ExpressionSaysWhatWasAsked` |
| `generated_objects` | 20 models, every order of their maps; with the classes of one, 3 calls, 1 edit, 1 change by another client | `ClassesGenerated`, `SupportedModelsCompile`; `ReadsKeepTheType`, `LoadsAreCurrent`, `OnlyEditsAreWritten` |

Types are no property of a run of their own: they are part of the inductive
invariants proved for `ClientModel`, `PagedQuery`, `ServiceContext`,
`EdmResolver`, `HttpClient`, `CodeGenerator`, `EntityObjects`, `QueryPath` and `JsonWire`.
Together the passing runs fire every action of every module.

### Why the bounds are enough

- *Calls and clients.* Two accesses that race are those of two calls, on one
  client or, in the map, on two. Another client of the same service is needed
  for a model that is shared, and a second service for one that could be filed
  under the wrong URL. Two calls are one after the other or overlap at any step.
  A third one adds orders, which the theorems about `ClientModel` cover: they
  hold for any number of calls.
- *Pages and threads.* A first, a middle and a last page are the three cases of
  a continuation. With `R` reads of `P` pages, `R * (P - 1)` continuations can
  wait at once: 2 * (3 - 1) + 1 = 5 threads are the least pool that cannot run out, and
  with one less every thread waits for an answer that none is left to handle. The pool of `pplx` has 40 threads, so
  this is a limit applications can meet.
- *Objects and keys.* A link is worked out from that of at most one other object,
  so two objects make every pair; two keys are a re-created entity beside the old
  one; paths of three segments are a set, a key and a navigation property, whose
  links no longer fit a fourth. The theorems have no such bounds.
- *EDM.* A container, a set in it and a type beside it, each with a member, take
  six elements with their schema. Two schemas make both orders of a type and its
  user; the resolver's theorems have no such bounds.
- *Links.* Containment in containment below a derived type is depth three. Two
  accounts whose instruments have the same key catch a link that forgets where
  it is.
- *Values.* One special character and texts with no and one escape tell what is
  escaped from what is not and from what is escaped twice; derived and declared
  types at the top and one below, in a property and in a collection, are all the
  places the writer treats differently. Two updates are the least for one to
  overtake another.
- *Models and objects.* One of the models has all the generator supports: two
  enumerations with a name in common, a chain of three entity types, a complex
  type and one derived from it, a key, a nullable property, a collection, a
  navigation, an operation and an import; a complex value of the store lies in
  another (`MaxNesting` = 1). Each of the others goes one step
  beyond it in one respect, so that `Supported` is seen to be no wider than it
  may be; the theorems hold for all models. Of the objects, an entity two steps
  from the expected class is the least that is read as nothing; a query, a load
  and an update are one of each kind of call, and two queries with an update or
  a load after them are the least for a stale write or a race on a map.
- *Queries.* Two siblings below one path, or a chain of three, is every shape of
  the links between two paths; both fit three paths. The theorems have
  no such bounds.

Where a run says `CHECK_DEADLOCK FALSE` (`json_wire`, `json_wire_one`,
`query_path`, `generated_objects`), the program really ends: clients that threw,
updates used up, builders deleted, a program that has made its calls. The other
modules end in an explicit step that changes nothing, so that a state where something waits for ever is reported.

### Fairness

`ClientModel` has weak fairness for the steps of each call and for the network,
as long as the process runs: `pplx` runs a ready continuation, and `cpprest`
ends each request with an answer, an error or a timeout. Nothing says which of
these comes, so `CallsComplete` means an end, not success; and a call whose
metadata the XML loop cannot read is the one that has no end. `Paging` has weak
fairness for the network and strong fairness for the continuations of a read:
whether one can run depends on whether a thread is free, which comes and goes,
and the queue of the pool is served in order. Neither assumes a free
thread: that one becomes free is what `ReadsComplete`, and the check for
deadlock, show for a pool of sufficient size.

## 5. What is proved

| Module | Theorems |
|---|---|
| `ClientModelProofs` | `TypeCorrect`, `ModelsAreOfTheirService`, `RequestsHaveModels`, `OneFetchPerCall`, `ModelSettles`, `Refinement`; for callers that wait, `OneModelForAwaitedCalls`, `AwaitedValuesKeepTheirModel`, `AwaitedCallsDoNotRace` |
| `PayloadProofs` | of pages, `NoValueIsLost`, `ReadsAllPages`; of values, `WireInvariant`, `WhatIsNotSetStays`, `UpdatesReadBack`, `WhatIsReadCanBeWritten`, `ArgumentsAlwaysArrive` |
| `ServiceContextProofs` | of the calls, `EditLinksAreOwn`, `UpdatesHitTheirEntity`, `AddedObjectsAreEditable`, `ReturnedCallsWereApplied`; of the queries, `QueriesAreSound`, `TreesAreSafe`, `ExpressionsAreKept`, `ExpressionsSayWhatWasAsked` |
| `EdmReaderProofs` | `NoNullPointer`, `DeclarationsAreWhole`, `DeclarationsAreKept` |
| `EdmResolverProofs` | `TypeCorrect`, `NamesAreResolved`, `BindingsAreDeclared` |
| `EditLinksProofs` | `Invariant`, `LinksDoLeadHome`, `EverythingSentIsRead`, `WhatIsReadIsEditable`, `OtherPayloadsAreSafe` |
| `PagedRequestsProofs` | of the http client, `ClientTypeCorrect`, `EveryRequestIsAuthenticated`, `EarlyChoicesHold`, `AwaitedRequestsShareAClient`, `ClientSettles`; of paged queries over it, `ImplementsPagedQuery`, `ImplementsHttpClient`, `NoPageSkippedOverClient`, `PagesInOrderOverClient`, `EveryPageIsAuthenticated` |
| `EntityObjectsProofs` | of the tool, `ListsAreSound`, `EveryClassIsGenerated`, `SupportedModelsDoCompile`; of the programs made with it, `ProgramsAreGenerated`, `ObjectsAreSound`, `EveryReadKeepsTheType`, `EveryLoadIsCurrent` |

They hold for any number of clients, services, calls, objects, keys, pages,
types, schemas, elements of a document, requests, models, builders and paths, for any store
and depth of expansions, and for values nested to any depth. The assumptions on constants are those the modules
name: every client has a service (`ServiceOfAssumption`), call kinds are those
of the code (`KindsAssumption`), null is no model and no client
(`NullAssumption`), there is a page (`PagesAssumption`), what a page carries is
a sequence (`ValuesAssumption`), names of sets and
properties are no numbers (`NamesAssumption` of `ServiceContext`), documents
are well formed and no type is named by one of the special values
(`DocumentsAssumption`, `NamesAssumption` of `EdmResolver`) and types are finitely
many (`TypesAssumption`), the default is a
setting and a credential is there or not (`DefaultAssumption`,
`CredentialAssumption`), calls are requests (`CallsAssumption`), and the models
the generator is given are well formed (`ModelsAssumption`: names of types are
strings and none of the special values, a base is of the same kind as what
derives from it, no enumeration has a label twice). A service a program calls
holds entities of types of its model, whose links lead to entities it holds, and
is asked for those (`StoresAssumption`). The path of a builder is none of those
made to be expanded, paths are finitely many, and null is no path
(`PathsAssumption`, `NoneAssumption`); types of options are numbers, as the values
of an `enum` are (`OptionsAssumption`); and a token is a segment, an option or a sign, never two
of these (`TokensAssumption`), as in a URL whose names and values are escaped:
the code escapes none, so this is what its callers have to keep to. `EditLinks` assumes of its
environment that qualified names are no names of properties, sets or singletons,
as they have a dot (`NamesAssumption`); that properties and entities are finitely
many; that each entity stands where the model has a place for entities, at an
address made of a set or singleton and of navigation properties or casts of the
type before them (`StoreAssumption`, `AddressAssumption`); and that what one
property of an entity refers to is in one collection, the one it is bound to if
it is bound to a set (`RefsAssumption`). `JsonWire` assumes that the type of the
entity exists, that a property holds a primitive, an enumeration, an object or a
collection of these, and that none is called `@type` (`PropertiesAssumption`);
that what the service starts with has the shape its types say, names derived
types only and names them with a `#`, while it may have members no type knows, types
the client does not know, and null anywhere else (`DocumentsAssumption`); that texts
are set to primitives and enumerations (`TextsAssumption`), and that a value is set to a property
whose type it suits (`SettingsAssumption`). The code checks neither of the last two: they are what
an application has to keep to. Clients, operations and the two bounds are any. One of these limits the models:
a containing property has no name of a set or singleton, since the parser of
context URLs takes such a name for the set wherever it stands. TLC evaluates all
of them.

`ReturnedCallsWereApplied` (a status the service context returns is one of an
applied request) and `ClientSettles` (an HTTP client that no request is about
to replace stays) are proved and not model-checked as well.

None of the safety properties is inductive as it stands. What each needs:

- **ClientModel**, `IInv`. "One fetch per call" says nothing of a call that has
  fetched and is back at its start. `FetchedOrModelled` adds that a call which
  fetched has no answer yet, has ended, or has given its client a model that is
  never taken away again, so the retried operation cannot fetch once more. `FoundIsOwn` says that what a
  call is about to assign was parsed from the client's own service: without it
  an assignment could break `OwnService`. `WarmStaysWarm` keeps calls that found
  a model off the slow path. `Refinement` maps `parsed`, `m_model` and
  `m_model_cache` to the abstract variables; each action is a publication, a
  hold, a share or a stutter, and `OwnService` is what makes the holds and
  shares allowed ones.
  For callers that wait, `Awaited`: one call is in progress and its client is
  alive; a model that exists is in the map, or the call is about to put it there
  and the map has none for that service. So there is one per service, nothing
  that points into it can expire, and no two accesses can meet.
- **Paging**, `IInv`. `NothingLost` says nothing of what a reply carries once it
  is looked at, nor what kind of thing a nested task holds; `Accounted` adds
  both, and that a read that is not done has no outcome. The rest is about
  `FlattenSeq`: a page appended to the pages comes last in their values
  (`FlattenAppend`), so `FollowLink` moves values from the reply to the stack and
  `Resume` from the stack to the result. `FlattenSeq` is a recursive function;
  what it computes is found by looking at the first place where the opposite
  would hold (`Least`). `ReadsAllPages` maps `ServePage` and `Complete` to the
  steps of `PagedRead`, the others to stutters. Neither needs a bound on the
  pages or on the threads, nor that the failed outcome is no sequence.
- **JsonWire**, `WInv`. The properties compare two ends of a journey; the invariant
  says what travels. What is stored has the shape its types say (`Conforms`). What a
  client holds (`HeldOf`) suits its types and is, but for the properties set,
  what it read. An update on its way was written from such a value, which is still
  known, whatever has been stored since. Every step keeps this since reading
  and writing keep the tree a tree and every path of its kind (`ReadIsTree`,
  `WrittenIsTree`, `SameKinds`, `WrittenConforms`), and since a merge of two
  such trees is one: what comes from either has the kind it had there
  (`MergedKinds`, `MergedConforms`). Replacing is merging with the entity of which
  all properties are null (`ReplaceIsMerge`). `Kinds` is a recursive function; that there is
  one for every tree is shown for trees of any depth by the least depth where there is none
  (`WalkExists`), and that two trees agree by the shortest path where they do not. The properties follow
  from what reader and writer make of a node one after the other: an unescaped
  special text gets an escape and loses it again (`RoundTrip`); what was sent is
  read back (`SentReadsBack`), and what was not set is what was read (`UneditedPart`).
  Only here it is seen that derived types matter: an update names the type of every
  object it goes into, so the service merges only objects of one type, and a member
  keeps its kind. The writers take the kind of the first item for all items of a collection,
  which is right since all have the same (`FirstItem`).
- **PagedQuery.** `AskedInOrder`: a page is asked for only when all before it
  were returned, since a link that was emptied by an answer that is no JSON names none. That is why a late answer, which may set the link *back*, can
  never set it past a page. For callers that wait, `OneAtATime` adds that the one
  call under way has asked for the page the link still names, so that its page
  is the next one.
- **ServiceContext.** The address of a write is computed when the call is made
  and used when it is served, after others have changed links and store.
  `CallInv` ties the address of a call in progress to what its object owns,
  `AnswerInv` what an answer carries to where the service applied the call,
  `LinkInv` is the property itself. Links are compared as paths of any length.
- **QueryPath.** `TreeIsSafe` says what calls do, not what the pointers are.
  `TreeInv`: as long as nothing was expanded twice, the pointers of a path that is
  there are exactly the list of what was expanded from it, all of it there, and
  what was expanded from a deleted path is deleted. So a path has one pointer to
  it at most (`OnePointer`), and no destructor runs twice; what is beneath a
  builder is alive; and a circle is beneath no builder, since each path in one has
  its owner there and a builder has none. That deleting takes whole lists
  is a matter of the first sibling that is treated unlike its parent
  (`FreedTogether`): there is none. It holds for options of one type given twice,
  too, though the property excludes them.
  `ExpressionSaysWhatWasAsked` compares a text with what calls asked before it was
  made. `PathsKept`: a path has the keys that were asked of it and its options in
  some order, since sorting has been there at any time before. Options of
  different types have one order only (`OneOrder`), so what sorting leaves is
  the order the property names (`SortedIsInOrder`); and the list of pointers that the
  evaluation walks is the list of what was expanded (`SiblingsAreAsked`, by
  `TreeInv`). What is left is between the text and the tree, both recursive functions
  over the paths below a builder. There are such functions, and what is true of
  them is found from the bottom up: a path has fewer paths beneath it than the one it
  was expanded from (`VisitedAreRanked`). `Says` is the claim about an item:
  wherever an item may stand, within whatever has been read, reading its text
  adds its tree to the items and nothing else (`ItemIsRead`, `AllSay`). It
  needs the parenthesis that closes the clauses of an item: without it the next item
  would be read as one of its clauses.
- **EdmResolver.** `SlotInv` describes the pass half done: slots visited are
  resolved, others as they were read, and what is still to be visited is among
  what the current step iterates. The end of the pass is then the case where
  nothing is left; nothing about the order is used. `BindInv`: a base pointer is
  null or right, and right once its type was visited; a binding that was tried has
  bound what it names, by itself or by another that names it too. A walk along
  the base pointers is compared with the walk along the declared names: it goes
  as far as what was visited, and all the way where derived types come first.
- **EdmReader.** The handlers never look at the element stack, so the invariant is
  what the stack and the pointers have to do with each other: CSDL puts each kind
  that a pointer stands for at one depth, so at most one such element is open
  and the pointer is its object, or null if there is none (`PointsTo`, `Nested`). That
  members land in the right declaration is a matter of order: objects are
  numbered as they begin, those open increase along the stack, and nothing that
  began after an open one lies outside it (`Numbered`, `Placed`).
- **EditLinks.** A link is worked out from the base of a JSON object, which was
  worked out from a URL one object above. `BaseLeadsHome`: the base of every object
  still to be decoded is the address of its entity or, where a key is to be
  appended, of the collection that holds it, and there is a base unless the
  property is neither contained nor bound (`BaseKnown`). `SentInv`: what was sent is what was
  read and what stands within the objects still to be decoded, a tree of any
  depth, so that when none is left all was read. What the URL parser makes
  of an address, segment by segment, is a lemma (the type of the last
  navigation property, at any length), which fails for a parser that
  looks for a segment among the properties of entity types only.
- **HttpClient.** `ConfiguredBeforeUse` says that whoever has passed the check
  has put the credentials in the configuration before constructing a client
  from it, and that any client made, stored or not, carries them.
  `SettingIsFirst` says that a setting nobody changed late is still the first.
  `Alone`: until the application overtakes a request, at most one is on its way,
  and one client served all that were sent.
- **PagedRequests.** Every step of the composition is a step or a stutter of both
  parts, so what is proved of them holds in it. `PagesAreAuthenticated` relates
  the two: `AnsweredWasSent` says that a call which has left its page behind
  has had its own request sent.
- **CodeGenerator.** `ListInv`: a list is `Sound` (each class once, after its
  base, of the right schema) while it grows, and `Closed` (nothing can be added)
  when the map was iterated without an addition; `TotalInv`: merging one more
  schema keeps both, since a base is always of the same schema. `NamesInv`: of
  the enumerators that kept their names no two of a schema have the same, and the
  others have the name of their enumeration before their own. With labels of one part the
  latter differ in length from the former, and from each other in one of two
  parts. That a name clashes with none of the classes there are follows from its
  clashing with none there may be (`FewerNames`, `FewerMembers`). That every type of a supported model is listed follows from a set: of
  the types left out, one would have a base that is not.
- **EntityObjects.** A program runs with the complete list of classes
  (`ProgramsAreGenerated` takes it from the tool), so the only type next to a
  class that has no creator is one of another schema. `TaskInv` says what each
  kind of call carries while the service, other clients and other calls go on,
  also when it fails, `ObjectInv` that an object is made once, when its query ends, and of the type of
  its entity; types of entities never change, links do. `Current` is why a fresh
  property stays right: one load of it at most is under way, and when it has been
  answered it carries what the service links now, since relinking ends the
  freshness. `WaitsInv`: in a program that waits, one call is in flight and its
  object is there, so no two continuations meet in a map and none writes to an
  object that was released. `Lineage` is a recursive function, and what is
  used of it is that it solves its equation (`LineagesExist`: the types all closed
  sets share do).

Model-checked only: liveness (`CallsComplete`, `ParsedReachesCache`,
`ReadsComplete`), which needs fairness; and `OnlyEditsAreWritten`, whose proof
would need that what is read and written of a complex value of any depth is that
value, by induction over data. It is claimed for stores like the run's: values
that suit their properties, complex values nested less than `MaxNesting` deep
and of types that have a class. `StoresAssumption` does not say all of that, so
the property is not claimed for every store the constants admit.

## 6. What the properties say about the code

Some hold only under a condition, and the condition is part of the result:

- Without locks, overlapping first calls may fetch the metadata several times,
  replace one model by another, and are formally undefined. The models of
  values stay alive, and the memory is accessed in order, for callers that wait
  for each call (`client_model`).
- An answer to `$metadata` with a good status and a body that is no CSDL is no
  error. Its empty or partial model goes to the client and into the cache, where
  every later client of the service finds it; or, with `libxml2`, the parse
  never ends, and neither does the call (`CallsComplete` names this end).
  `OwnService` and `RequestHasModel` say whose model a client has, not that it is
  complete.
- A caller of `execute_paged_query` that does not wait may see a page twice,
  never miss one, as long as every page that comes with a good status is JSON. One
  that is not is read as an empty last page: the link is emptied without an
  error, and the pages left are never read.
- A setting of the HTTP client is used only when it is chosen before the first
  request.
- A navigation is bound when no derived type is declared in a schema after the
  container's (`DerivedTypesFirst` in `BindingsAreRight`). In other models the
  resolver does not find bindings of inherited navigations, without any error.
- Links lead home except when a context has a select list with a slash in it,
  for values of properties bound to a singleton (section 7) and for entities
  that belong to no set. The reader follows a null pointer on one kind of
  payload: one that gives a context for an expanded property the model has no
  binding for.
- A value that is read, left alone and sent back stays as it was, except for a
  null among texts in a collection, and for properties of types the client does
  not know when the entity is replaced. An entity with an infinite number in it
  cannot be sent back. Arguments of operations must not be null.
- A path must not be expanded twice (`WellUsed`). If it is, evaluation may not
  end and deletion may free twice. A path that is expanded must have no keys.
- A type has no class when its base is of another schema, or has none itself,
  without any error from the tool. The files compile for models of one schema
  whose enumerators have no underscore, with no more keys and parameters than
  there are macros for, and whose names C++ can take and keep apart (`Supported`):
  none is a keyword, a macro or a name of the headers, which a property may become in
  lower case; no two properties of a class are the same in lower case; no two types with
  a base are, since their creators would be one function with two bodies; no enumerator
  is named as a class or a creator, also with the name of its enumeration before it;
  no operation is named as a member or as what is made of one; no parameter as a class
  or twice; and no operation as a query of the container. The tool checks none of it.
- An update of a generated object writes what the program edited and nothing
  else, except for enumerators that the classes do not know or renamed, complex
  values whose type is not the expected one or next to it, members that were not
  selected, and values that another client has changed since they were read: an
  update carries no version. Objects are of the type the service said, or not
  read at all when it is further than one step from the class asked for.
- Loads say what the service links when they are made one at a time and answered
  in JSON; a load that fails keeps what there was. A program
  that releases an object while it is loaded, or overlaps calls that meet unknown
  types, may crash.

## 7. Finding

`edit_links_singleton` checks what `tests/e2e/singleton_tests.cpp:92` says: an
entity that a singleton holds has the singleton's own URL as its link, also when
it is read as the value of an expanded property. `handle_extract_entity_property`
(`src/core/odata_json_reader.cpp:428`) sets `is_collection` in the branch for
singletons as it does before it, so the link gets a key: `DefaultStoredPI(9)`.
TLC's trace asks for something with a property bound to a singleton expanded,
reads the header, and reads the entities.

## 8. Not modelled

- *Operations of generated classes*: their macros append arguments to a request
  and call an executor; how arguments travel is in `JsonWire`.
- *Executors of complex, enumeration and primitive values and of none*: one call
  and one conversion; what can go wrong is in the client, the reader and the
  classes.
- *Filter expressions*: operators that append text to text; what they should
  produce is wording.
- *Numbers, dates, binaries and their formats*: conversions over unbounded
  domains. A number is a text that is or is not a numeral.
- *Lifetimes of the caller's own variables* captured by reference: the modules
  keep them alive; the hazards list where the code relies on it.
- *The second way to compute an edit link* in the entity model builder.
- *The text of generated files*, which class has which member being all that
  compilation depends on; *samples and tests*.
- *The service*: as much of it as its answers need, any of which may be an
  error, late or lost.
