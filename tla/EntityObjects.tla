---------------------------- MODULE EntityObjects -----------------------------
(***************************************************************************)
(* The program that uses the generated classes: objects made from what a   *)
(* service answers, edited, sent back by odata_service_context, and whose  *)
(* navigation properties are loaded.  Answers are handled by continuations *)
(* on the threads of a pool, at the same time.                             *)
(***************************************************************************)
EXTENDS CodeGenerator

CONSTANTS
    Stores,     \* services for some of the models: [entities, labels, queries]
    Tasks,      \* the calls the program can make; an object is known by its query
    Values,     \* what the program sets members of primitive types to
    MaxChanges, \* bound: how often other clients change the service
    MaxEdits,   \* bound: how many properties are edited, of the objects that are there
    MaxNesting, \* bound: how deep complex values lie in one another
    Null

\* An entity of a store is [type, fields, links]: fields maps the properties that
\* are not null to their values, links the navigation properties to sequences of
\* entities.  The value of an enumeration is its text, as a sequence of parts like
\* its labels; labels has the texts the service takes, which may be more than the
\* model had when the classes were generated, and flags joined by commas.  A
\* complex value is [type, fields].  queries has what the program may ask for:
\* [entity, class, selected, expand], an entity as one of a class, with some of its
\* properties, and with its links or without.
WellStored(m, s) ==
    /\ \A e \in DOMAIN s.entities :
          LET entity == s.entities[e]
          IN  /\ entity = [type |-> entity.type, fields |-> entity.fields, links |-> entity.links]
              /\ entity.type \in Of(Models[m], "entity")
              /\ \A p \in DOMAIN entity.links : Listed(entity.links[p]) \subseteq DOMAIN s.entities
    /\ \A q \in s.queries : q.entity \in DOMAIN s.entities /\ q.class \in Models[m].types
ASSUME StoresAssumption ==
    /\ {MaxChanges, MaxEdits, MaxNesting} \subseteq Nat
    /\ \A m \in DOMAIN Stores : m \in DOMAIN Models /\ WellStored(m, Stores[m])

VARIABLES
    program,    \* "none", "running" or "crashed"
    classes,    \* the generated classes
    store,      \* the entities the service holds
    objects,    \* the object of each query
    tasks,      \* the calls
    inserted,   \* the null entries of _derived_*_creator_map, by <<class, name>>
    changes,    \* how often other clients have changed the service
    hurried     \* whether the program did not wait for a call to end

program_vars == <<program, classes, store, objects, tasks, inserted, changes, hurried>>
vars == <<generator_vars, program_vars>>

Idle == [step |-> "idle"]

\* What stands for an object where there is none or it was released; no object has
\* such a class.
NoObject == [class |-> NoType]
Released == [class |-> Void]

Init ==
    /\ GeneratorInit
    /\ program = "none"
    /\ classes = {}
    /\ store = [e \in {} |-> Null]
    /\ objects = [t \in Tasks |-> NoObject]
    /\ tasks = [t \in Tasks |-> Idle]
    /\ inserted = {}
    /\ changes = 0
    /\ hurried = FALSE

\* The tool is gone when the program it made starts.
Start ==
    /\ Quit
    /\ model \in DOMAIN Stores
    /\ store' = Stores[model].entities
    /\ program' = "running"
    /\ classes' = Listed(total)
    /\ UNCHANGED <<objects, tasks, inserted, changes, hurried>>

-----------------------------------------------------------------------------
(* Objects and values *)

\* A class and those it derives from.
Lineage(c) ==
    LET up[t \in Model.types] ==
            {t} \cup IF Model.base[t] = NoType THEN {} ELSE up[Model.base[t]]
    IN  up[c]

\* A class reads and writes its own members after those of its base.
AllMembers(c) == UNION {Members(d) : d \in Lineage(c)}
Mapped(c) == {p \in AllMembers(c) : Prop(p).type \notin Of(Model, "entity")}
Navigations(c) == {p \in AllMembers(c) : Prop(p).type \in Of(Model, "entity")}

\* The values of a property, and the complex ones in some fields.
Items(p, v) == IF Prop(p).collection THEN Listed(v) ELSE {v}
IsEnum(p) == Prop(p).type \in Of(Model, "enum")
IsComplex(p) == Prop(p).type \in Of(Model, "complex")
ComplexIn(fields) == UNION {Items(p, fields[p]) : p \in {q \in DOMAIN fields : IsComplex(q)}}

\* All that S leads to.
Closure(S, Inside(_)) ==
    LET reached[n \in 0 .. MaxNesting] ==
            IF n = 0 THEN S ELSE reached[n - 1] \cup UNION {Inside(x) : x \in reached[n - 1]}
    IN  reached[MaxNesting]

\* Mutant: no type derives from another.
CreatesOnly(c, type) == type = c

\* What create_instance_from_entity and _from_complex make of a value of a type
\* where class c is expected: an object of that type when c is its class or the
\* base of it, and else nothing.
Creates(c, type) == type = c \/ (type \in classes /\ Model.base[type] = c)

\* Members that were not read: what the constructor gives them.  It leaves those
\* of enumerations as the memory was.
Stray == 0
\* Mutant: a nullable member is like any other.
DefaultOfType(p) ==
    IF Prop(p).collection THEN <<>> ELSE IF IsComplex(p) THEN Null ELSE IF IsEnum(p) THEN Stray ELSE 0
Default(p) ==
    IF Prop(p).collection THEN <<>>
    ELSE IF Prop(p).nullable \/ IsComplex(p) THEN Null
    ELSE IF IsEnum(p) THEN Stray ELSE 0

\* A text that is no enumerator of the class is read as the value zero.
Enumerator(e, text) ==
    IF text \in Listed(names[e]) THEN CHOOSE i \in DOMAIN names[e] : names[e][i] = text ELSE 1

\* The complex values that are looked at where class c is read, each with the class
\* expected of it.
ComplexOf(c, fields) ==
    UNION {{Prop(p).type} \X Items(p, fields[p]) :
              p \in {q \in Mapped(c) \cap DOMAIN fields : IsComplex(q)}}
Contained(c, fields) ==
    Closure(ComplexOf(c, fields),
            LAMBDA x : IF Creates(x[1], x[2].type) THEN ComplexOf(x[2].type, x[2].fields) ELSE {})

\* made has the objects of complex values.
ReadElement(p, v, made) ==
    IF IsEnum(p) THEN Enumerator(Prop(p).type, v)
    ELSE IF ~IsComplex(p) THEN v
    ELSE IF Creates(Prop(p).type, v.type) THEN made[v] ELSE Null
ReadMember(p, v, made) ==
    IF Prop(p).collection THEN [i \in DOMAIN v |-> ReadElement(p, v[i], made)]
    ELSE ReadElement(p, v, made)
ReadMembers(c, fields, made) ==
    [p \in Mapped(c) |-> IF p \in DOMAIN fields THEN ReadMember(p, fields[p], made) ELSE Default(p)]
FromValue(c, fields) ==
    LET made[v \in {x[2] : x \in {y \in Contained(c, fields) : Creates(y[1], y[2].type)}}] ==
            [class |-> v.type, members |-> ReadMembers(v.type, v.fields, made)]
    IN  ReadMembers(c, fields, made)

\* What is sent: members that are null are left out, and so are null elements of
\* collections.  What is written of a stray enumerator depends on the memory.
Text(e, i) == IF i \in DOMAIN names[e] THEN names[e][i] ELSE <<>>
WriteElement(p, m, memory, written) ==
    IF IsEnum(p) THEN Text(Prop(p).type, IF m = Stray THEN memory ELSE m)
    ELSE IF IsComplex(p) THEN [type |-> m.class, fields |-> written[m]]
    ELSE m
Kept(m) == SelectSeq(m, LAMBDA x : x # Null)
WriteMember(p, m, memory, written) ==
    IF Prop(p).collection THEN [i \in DOMAIN Kept(m) |-> WriteElement(p, Kept(m)[i], memory, written)]
    ELSE WriteElement(p, m, memory, written)
WriteMembers(members, memory, written) ==
    [p \in {q \in DOMAIN members : members[q] # Null} |-> WriteMember(p, members[p], memory, written)]
ToValue(o, memory) ==
    LET written[m \in Closure(ComplexIn(o.members) \ {Null}, LAMBDA m : ComplexIn(m.members) \ {Null})] ==
            WriteMembers(m.members, memory, written)
    IN  WriteMembers(o.members, memory, written)

-----------------------------------------------------------------------------
(* Calls of the program *)

InFlight == {t \in Tasks : tasks[t].step \in {"sent", "answered", "inserting"}}
Alive(o) == objects[o].class \notin {NoType, Void}
Loads(o, n) == {t \in InFlight : tasks[t].kind = "load" /\ tasks[t].object = o /\ tasks[t].nav = n}

Call(t, call) ==
    /\ program = "running"
    /\ tasks[t] = Idle
    /\ tasks' = [tasks EXCEPT ![t] = call]
    /\ hurried' = (hurried \/ InFlight # {})
    /\ UNCHANGED <<generator_vars, program, classes, store, inserted, changes>>

\* The answer is read as an object of the class that was asked for.
Query(t, q) ==
    /\ q.class \in classes \cap Lineage(store[q.entity].type)
    /\ Call(t, [step |-> "sent", kind |-> "query", entity |-> q.entity, class |-> q.class,
                selected |-> q.selected, expand |-> q.expand, answer |-> Null])
    /\ UNCHANGED objects

\* update_object: the payload is made when it is called.
Said(o) == [entity |-> o.entity, read |-> o.read, selected |-> o.selected, edited |-> o.edited]
Update(t, o, memory) ==
    /\ Alive(o)
    /\ Call(t, [step |-> "sent", kind |-> "update", of |-> Said(objects[o]),
                payload |-> ToValue(objects[o], memory)])
    /\ UNCHANGED objects

\* load_<navigation property>: the continuation will write to the object.  A load
\* says what the service links when no other is under way.
Load(t, o, n) ==
    /\ Alive(o)
    /\ Call(t, [step |-> "sent", kind |-> "load", object |-> o, nav |-> n,
                entity |-> objects[o].entity, answer |-> Null])
    /\ n \in Navigations(objects[o].class)
    /\ objects' = [objects EXCEPT ![o].fresh = IF Loads(o, n) = {} THEN @ \cup {n} ELSE @ \ {n}]

\* What a member can be set to: a setter takes no null, but for a pointer.  The
\* program keeps keys as they are.
Settings(p) ==
    IF Prop(p).collection THEN {<<>>}
    ELSE IF IsEnum(p) THEN DOMAIN names[Prop(p).type]
    ELSE IF IsComplex(p) THEN {Null} ELSE Values

Edit(o, p, m) ==
    /\ program = "running"
    /\ Alive(o)
    /\ p \in DOMAIN objects[o].members \ objects[o].edited
    /\ ~Prop(p).key
    /\ Cardinality(UNION {objects[u].edited : u \in {v \in Tasks : Alive(v)}}) < MaxEdits
    /\ m \in Settings(p)
    /\ objects' = [objects EXCEPT ![o].members[p] = m, ![o].edited = @ \cup {p}]
    /\ UNCHANGED <<generator_vars, program, classes, store, tasks, inserted, changes, hurried>>

Release(o) ==
    /\ program = "running"
    /\ Alive(o)
    /\ objects' = [objects EXCEPT ![o] = Released]
    /\ hurried' = (hurried \/ \E t \in InFlight : tasks[t].kind = "load" /\ tasks[t].object = o)
    /\ UNCHANGED <<generator_vars, program, classes, store, tasks, inserted, changes>>

-----------------------------------------------------------------------------
(* The service *)

\* The service takes fields without a text it does not know.
Takes(fields) ==
    \A f \in {fields} \cup {v.fields : v \in Closure(ComplexIn(fields), LAMBDA v : ComplexIn(v.fields))} :
        \A p \in DOMAIN f : IsEnum(p) => Items(p, f[p]) \subseteq Stores[model].labels[Prop(p).type]

\* What is answered, as the service has it then.
LinksOf(e, n) == IF n \in DOMAIN e.links THEN e.links[n] ELSE <<>>
AnswerTo(call) ==
    LET e == store[call.entity]
    IN  IF call.kind = "load" THEN LinksOf(e, call.nav)
        ELSE [fields |-> [p \in DOMAIN e.fields \cap call.selected |-> e.fields[p]],
              links |-> [n \in IF call.expand THEN DOMAIN e.links ELSE {} |-> e.links[n]]]

Answer(t) ==
    /\ tasks[t].step = "sent"
    /\ tasks[t].kind \in {"query", "load"}
    /\ tasks' = [tasks EXCEPT ![t].step = "answered", ![t].answer = AnswerTo(tasks[t])]
    /\ UNCHANGED <<generator_vars, program, classes, store, objects, inserted, changes, hurried>>

\* A load that brought nothing of the service does not count as one.
Unsure(t) ==
    IF tasks[t].kind = "load"
    THEN [o \in Tasks |-> IF Alive(o) /\ o = tasks[t].object
                          THEN [objects[o] EXCEPT !.fresh = @ \ {tasks[t].nav}]
                          ELSE objects[o]]
    ELSE objects

\* Another status is thrown to the caller: no object is made, set or written.  A
\* query that is answered in no JSON ends the same way.
Fail(t) ==
    /\ tasks[t].step = "sent"
    /\ tasks' = [tasks EXCEPT ![t] = [step |-> "done", kind |-> "failed"]]
    /\ objects' = Unsure(t)
    /\ UNCHANGED <<generator_vars, program, classes, store, inserted, changes, hurried>>

\* A load that is answered in no JSON finds no objects.
AnswerNothing(t) ==
    /\ tasks[t].step = "sent"
    /\ tasks[t].kind = "load"
    /\ tasks' = [tasks EXCEPT ![t].step = "answered", ![t].answer = <<>>]
    /\ objects' = Unsure(t)
    /\ UNCHANGED <<generator_vars, program, classes, store, inserted, changes, hurried>>

Updated(fields, payload) ==
    [p \in DOMAIN fields \cup DOMAIN payload |-> IF p \in DOMAIN payload THEN payload[p] ELSE fields[p]]

\* A payload with a text the service does not take is refused as a whole.
Apply(t) ==
    /\ tasks[t].step = "sent"
    /\ tasks[t].kind = "update"
    /\ store' = IF Takes(tasks[t].payload)
                THEN [store EXCEPT ![tasks[t].of.entity].fields = Updated(@, tasks[t].payload)]
                ELSE store
    /\ tasks' = [tasks EXCEPT ![t] = [step |-> "done", kind |-> "update"]]
    /\ UNCHANGED <<generator_vars, program, classes, objects, inserted, changes, hurried>>

\* Other clients change values and links.
Change(e, p, v) ==
    /\ changes < MaxChanges
    /\ program = "running"
    /\ p \in DOMAIN store[e].fields
    /\ Prop(p).type = Primitive /\ ~Prop(p).collection /\ ~Prop(p).key
    /\ store' = [store EXCEPT ![e].fields[p] = v]
    /\ changes' = changes + 1
    /\ UNCHANGED <<generator_vars, program, classes, objects, tasks, inserted, hurried>>

Relink(e, n, f) ==
    /\ changes < MaxChanges
    /\ program = "running"
    /\ n \in DOMAIN store[e].links
    /\ store' = [store EXCEPT ![e].links[n] = <<f>>]
    /\ objects' = [o \in Tasks |-> IF Alive(o) /\ objects[o].entity = e
                                   THEN [objects[o] EXCEPT !.fresh = @ \ {n}]
                                   ELSE objects[o]]
    /\ changes' = changes + 1
    /\ UNCHANGED <<generator_vars, program, classes, tasks, inserted, hurried>>

-----------------------------------------------------------------------------
(* Continuations *)

Type(e) == store[e].type

\* The types looked for in the maps of classes, in maps that all threads share.
Linked(n, es) == {<<Prop(n).type, Type(es[i])>> : i \in DOMAIN es}
LookedUp(call) ==
    {l \in IF call.kind = "load" THEN Linked(call.nav, call.answer)
           ELSE LET type == Type(call.entity)
                IN  {<<call.class, type>>} \cup
                    IF Creates(call.class, type)
                    THEN {<<x[1], x[2].type>> : x \in Contained(type, call.answer.fields)} \cup
                         UNION {Linked(n, call.answer.links[n]) : n \in DOMAIN call.answer.links}
                    ELSE {} :
     l[1] # l[2]}

\* Looking for a type that is not there inserts it, with a null pointer.
Missing(call) == {l \in LookedUp(call) : ~Creates(l[1], l[2])} \ inserted
\* Another thread is inserting into a map this one looks into.
Racing(t) ==
    \E u \in Tasks \ {t} :
        /\ tasks[u].step = "inserting"
        /\ \E l \in LookedUp(tasks[t]), k \in Missing(tasks[u]) : l[1] = k[1]

Readable(n, es) == [i \in DOMAIN es |-> IF Creates(Prop(n).type, Type(es[i])) THEN es[i] ELSE Null]

\* The object of a query, or nothing.
NewObject(call) ==
    LET type == Type(call.entity)
    IN  IF Creates(call.class, type)
        THEN [class |-> type, members |-> FromValue(type, call.answer.fields),
              entity |-> call.entity,
              read |-> call.answer.fields, selected |-> call.selected, edited |-> {},
              navs |-> [n \in Navigations(type) |->
                           IF n \in DOMAIN call.answer.links THEN Readable(n, call.answer.links[n])
                           ELSE <<>>],
              fresh |-> {}]
        ELSE NoObject

\* Mutant: it adds to what the object has.
LoadedMore(o, n, es) == [objects[o] EXCEPT !.navs[n] = @ \o Readable(n, es)]

\* A load replaces what the object has, through a plain pointer to it.
Loaded(o, n, es) == [objects[o] EXCEPT !.navs[n] = Readable(n, es)]

Complete(t) ==
    /\ objects' = IF tasks[t].kind = "query"
                  THEN [objects EXCEPT ![t] = NewObject(tasks[t])]
                  ELSE IF Alive(tasks[t].object)
                  THEN [objects EXCEPT ![tasks[t].object] =
                            Loaded(tasks[t].object, tasks[t].nav, tasks[t].answer)]
                  ELSE objects
    /\ tasks' = [tasks EXCEPT ![t] =
                    IF tasks[t].kind = "query"
                    THEN [step |-> "done", kind |-> "query", entity |-> tasks[t].entity,
                          class |-> tasks[t].class]
                    ELSE [step |-> "done", kind |-> "load"]]
    /\ program' \in IF tasks[t].kind = "load" /\ ~Alive(tasks[t].object)
                    THEN {"running", "crashed"} ELSE {"running"}

Continue(t) ==
    /\ program = "running"
    /\ tasks[t].step = "answered"
    /\ \/ /\ Missing(tasks[t]) = {}
          /\ Complete(t)
       \/ /\ Missing(tasks[t]) # {}
          /\ tasks' = [tasks EXCEPT ![t].step = "inserting"]
          /\ UNCHANGED <<program, objects>>
       \/ /\ Racing(t)
          /\ program' = "crashed"
          /\ UNCHANGED <<objects, tasks>>
    /\ UNCHANGED <<generator_vars, classes, store, inserted, changes, hurried>>

Insert(t) ==
    /\ program = "running"
    /\ tasks[t].step = "inserting"
    /\ inserted' = inserted \cup Missing(tasks[t])
    /\ Complete(t)
    /\ UNCHANGED <<generator_vars, classes, store, changes, hurried>>

-----------------------------------------------------------------------------

Use ==
    \/ \E t \in Tasks : program = "running" /\ \E q \in Stores[model].queries : Query(t, q)
    \/ \E o \in {u \in Tasks : Alive(u)} :
          \/ \E t \in Tasks :
                \/ \E memory \in {0, 1} : Update(t, o, memory)
                \/ \E n \in DOMAIN Model.properties : Load(t, o, n)
          \/ \E p \in DOMAIN Model.properties : \E m \in Settings(p) : Edit(o, p, m)
          \/ Release(o)

Serve ==
    \/ \E t \in Tasks : \/ Answer(t) \/ Fail(t) \/ AnswerNothing(t)
                       \/ Apply(t) \/ Continue(t) \/ Insert(t)
    \/ \E e \in DOMAIN store, p \in DOMAIN Model.properties :
          \/ \E v \in Values : Change(e, p, v)
          \/ \E f \in DOMAIN store : Relink(e, p, f)

Next ==
    \/ Generate /\ UNCHANGED program_vars
    \/ Start
    \/ Use
    \/ Serve

Spec == Init /\ [][Next]_vars

-----------------------------------------------------------------------------
(* Properties *)

\* What is read of a value is an object of the type of the value, and nothing is
\* read only of a type that derives from the expected one through another, or in
\* another schema (create_instance_from_entity): the program never holds an object
\* of a class the service did not say, and loses no object of a class of the same
\* schema next to its own.
ReadsKeepTheType ==
    \A t \in Tasks :
        /\ tasks[t].step = "done" /\ tasks[t].kind = "query" /\ objects[t] = NoObject =>
              LET type == Type(tasks[t].entity)
                  class == tasks[t].class
              IN  /\ type # class
                  /\ Model.base[type] = class => Model.schema[type] # Model.schema[class]
        /\ Alive(t) => /\ objects[t].class = Type(objects[t].entity)
                       /\ \A n \in DOMAIN objects[t].navs : \A i \in DOMAIN objects[t].navs[n] :
                             objects[t].navs[n][i] # Null =>
                                 Prop(n).type \in Lineage(Type(objects[t].navs[n][i]))

\* What the classes can read and say again: enumerators they know by the name the
\* service gives them, and complex values whose class is the expected one or next
\* to it.
Known(v) == {q \in DOMAIN Model.properties : Prop(q).on \in Lineage(v.type) /\ Prop(q).type # Unknown}
FaithfulElement(p, v) ==
    IF IsEnum(p) THEN v \in Listed(names[Prop(p).type]) \cap Listed(Model.labels[Prop(p).type])
    ELSE IsComplex(p) =>
            /\ v.type = Prop(p).type \/ Model.base[v.type] = Prop(p).type
            /\ \A q \in Known(v) : q \in DOMAIN v.fields \/ Prop(q).nullable
Faithful(p, v) ==
    \A x \in Closure({p} \X Items(p, v),
                     LAMBDA y : IF IsComplex(y[1])
                                THEN UNION {{q} \X Items(q, y[2].fields[q]) :
                                               q \in Known(y[2]) \cap DOMAIN y[2].fields}
                                ELSE {}) :
        FaithfulElement(x[1], x[2])

\* An update changes at the service what the program has edited, and nothing else:
\* whatever was read, edited by other clients or not, in base classes, collections
\* and complex values, is left as it was, unless the program did not select it,
\* the classes cannot say it, or another client has changed it since.
Value(e, p) == IF p \in DOMAIN e.fields THEN e.fields[p] ELSE Null
OnlyEditsAreWritten ==
    [][\A t \in Tasks : tasks[t].step = "sent" /\ tasks[t].kind = "update" /\ tasks'[t].step = "done" =>
          LET o == tasks[t].of
              before == store[o.entity]
              after == store'[o.entity]
          IN  \A p \in DOMAIN Model.properties : Value(after, p) # Value(before, p) =>
                 \/ p \in o.edited
                 \/ p \notin o.selected
                 \/ p \in DOMAIN o.read /\ ~Faithful(p, o.read[p])
                 \/ p \in DOMAIN o.read /\ o.read[p] # Value(before, p)]_vars

\* A program that waits for each call and keeps its objects does not crash; and a
\* navigation property says what the service links, for the types that can be
\* read, when it was loaded once at a time and no other client has relinked it
\* since it was asked for.
LoadsAreCurrent ==
    /\ program = "crashed" => hurried
    /\ \A o \in Tasks : Alive(o) => \A n \in objects[o].fresh :
          Loads(o, n) = {} =>
              objects[o].navs[n] = Readable(n, LinksOf(store[objects[o].entity], n))
=============================================================================
