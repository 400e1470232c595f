---------------------------- MODULE CodeGenerator -----------------------------
(***************************************************************************)
(* The tool that generates C++ classes from a model                        *)
(* (tools/codegentool): odata_codegen_initializer collects the classes of  *)
(* each schema from hash maps, in whatever order they are iterated, bases  *)
(* before what derives from them, gives enumerators names, and merges the  *)
(* schemas; odata_codegen_writer writes the files, which are then compiled *)
(* with the macros of include/odata/codegen/code_generation.h.             *)
(***************************************************************************)
EXTENDS Naturals, Sequences, FiniteSets

CONSTANTS
    Models,     \* the models the tool is given, by name
    Reserved    \* the names that are taken: keywords, macros, what the headers declare
                \* and what the macros declare in every class and function; in doubt
                \* a name is one of them

\* What is used where a type has no base, and for types that need no class.
NoType == "no type"
Primitive == "primitive"
Unknown == "unknown"
Void == "void"
Basic == {NoType, Primitive, Unknown, Void}

\* A model as the tool sees it.  The names of types are distinct: merging
\* schemas with equal names is marked as not supported (line 116).  A name is the
\* sequence of its parts between underscores, but those of types and containers,
\* which have none here, and are not those of the bases of all classes.
\*   lower: the name of a type in lower case
\*   labels: the enumerators of an enumeration
\*   properties: those of all types, each [on, name, takes, type, collection,
\*     nullable, key], takes the names it takes in its class, those of the member,
\*     its own in lower case, and of the functions the macros make of that; one of
\*     an entity type is a navigation
\*   operations: [name, takes, schema, on, action, params, returns], takes its name
\*     and that of the type of its executor, on the type it is bound to or NoType,
\*     params the other parameters as [name, type, collection]
\*   containers: [name, schema, sets, queries, imports], sets the types of entity
\*     sets and singletons, queries the names of the functions made of those,
\*     imports a set of [name, operation]
WellFormed(m) ==
    /\ m.types \subseteq STRING \ Basic
    /\ m.kind \in [m.types -> {"enum", "complex", "entity"}]
    /\ m.schema \in [m.types -> m.schemas]
    /\ m.lower \in [m.types -> STRING]
    /\ m.base \in [m.types -> m.types \cup {NoType}]
    /\ \A t \in m.types : m.base[t] # NoType =>
          m.kind[t] # "enum" /\ m.kind[m.base[t]] = m.kind[t]
    /\ m.labels \in [m.types -> Seq(Seq(STRING))]
    /\ \A t \in m.types : \A i, j \in DOMAIN m.labels[t] :
          m.labels[t][i] = m.labels[t][j] => i = j
    /\ \A p \in DOMAIN m.properties :
          m.properties[p].on \in m.types /\ m.properties[p].type \in m.types \cup Basic
    /\ \A o \in m.operations :
          /\ o.schema \in m.schemas
          /\ o.params \in Seq([name : Seq(STRING), type : m.types \cup Basic, collection : BOOLEAN])
    /\ \A c \in m.containers : c.schema \in m.schemas /\ c.sets \subseteq m.types

ASSUME ModelsAssumption == \A m \in DOMAIN Models : WellFormed(Models[m])

VARIABLES
    model,          \* m_model
    step,           \* where the tool is
    todo,           \* the schemas that have not been collected
    schema,         \* the one that is
    m_class_vec,    \* its classes, in the order they are written
    names,          \* the C++ names given to the enumerators of each enumeration
    m_code_gen_map, \* the classes of each schema that was collected
    total           \* the classes of all schemas, merged

generator_vars == <<model, step, todo, schema, m_class_vec, names, m_code_gen_map, total>>

Model == Models[model]
Prop(p) == Model.properties[p]

Of(m, k) == {t \in m.types : m.kind[t] = k}
Enums(m, s) == {t \in Of(m, "enum") : m.schema[t] = s}
Classes(m, s) == {t \in m.types \ Of(m, "enum") : m.schema[t] = s}
Listed(v) == {v[i] : i \in DOMAIN v}

GeneratorInit ==
    /\ model \in DOMAIN Models
    /\ step = "schemas"
    /\ todo = Model.schemas
    /\ schema = ""
    /\ m_class_vec = <<>>
    /\ names = [e \in Of(Model, "enum") |-> <<>>]
    /\ m_code_gen_map = [s \in {} |-> <<>>]
    /\ total = <<>>

-----------------------------------------------------------------------------
(* odata_codegen_initializer *)

Containers(s) == {c \in Model.containers : c.schema = s}

\* The tool gives up: no schema, or one too many, has an entity container.
GiveUp ==
    /\ step = "schemas"
    /\ \/ Model.containers = {}
       \/ \E s \in todo : Cardinality(Containers(s)) > 1
    /\ step' = "gave up"
    /\ UNCHANGED <<model, todo, schema, m_class_vec, names, m_code_gen_map, total>>

BeginSchema(s) ==
    /\ step = "schemas"
    /\ Model.containers # {}
    /\ s \in todo
    /\ Cardinality(Containers(s)) <= 1
    /\ todo' = todo \ {s}
    /\ schema' = s
    /\ m_class_vec' = <<>>
    /\ step' = "classes"
    /\ UNCHANGED <<model, names, m_code_gen_map, total>>

\* Enumerations are listed in the order of their map.
AddEnum(e) ==
    /\ step = "classes"
    /\ e \in Enums(Model, schema) \ Listed(m_class_vec)
    /\ m_class_vec' = Append(m_class_vec, e)
    /\ UNCHANGED <<model, step, todo, schema, names, m_code_gen_map, total>>

\* What can follow the classes listed so far.  A base is looked for among the
\* classes of the schema; one of another schema keeps its qualified name, and is
\* not found.
BaseListed(t) ==
    Model.base[t] = NoType \/ Model.base[t] \in Classes(Model, schema) \cap Listed(m_class_vec)
Ready == {t \in Classes(Model, schema) \ Listed(m_class_vec) : BaseListed(t)}

\* Mutant: classes are listed in the order of the map, whatever they derive from.
AddClassUnsorted(t) ==
    /\ step = "classes"
    /\ Enums(Model, schema) \subseteq Listed(m_class_vec)
    /\ t \in Classes(Model, schema) \ Listed(m_class_vec)
    /\ m_class_vec' = Append(m_class_vec, t)
    /\ UNCHANGED <<model, step, todo, schema, names, m_code_gen_map, total>>

\* The map is iterated until nothing is added.
AddClass(t) ==
    /\ step = "classes"
    /\ Enums(Model, schema) \subseteq Listed(m_class_vec)
    /\ t \in Ready
    /\ m_class_vec' = Append(m_class_vec, t)
    /\ UNCHANGED <<model, step, todo, schema, names, m_code_gen_map, total>>

\* Mutant: the map is iterated once.
EndClassesEarly ==
    /\ step = "classes"
    /\ Enums(Model, schema) \subseteq Listed(m_class_vec)
    /\ \A t \in Ready : Model.base[t] # NoType
    /\ step' = "members"
    /\ UNCHANGED <<model, todo, schema, m_class_vec, names, m_code_gen_map, total>>

EndClasses ==
    /\ step = "classes"
    /\ Enums(Model, schema) \subseteq Listed(m_class_vec)
    /\ Ready = {}
    /\ step' = "members"
    /\ UNCHANGED <<model, todo, schema, m_class_vec, names, m_code_gen_map, total>>

\* Mutant: enumerators keep their names.
NameOfPlain(e, l) == l

\* An enumerator keeps its name, unless one of the same schema that was named
\* before has it: then the name of its enumeration is put first.
Used == UNION {Listed(names[e]) : e \in Enums(Model, schema)}
NameOf(e, l) == IF l \in Used THEN <<e>> \o l ELSE l

\* One enumeration after the other, in the order of their map.
NameEnumerator(e) ==
    /\ step = "members"
    /\ e \in Enums(Model, schema)
    /\ Len(names[e]) < Len(Model.labels[e])
    /\ \A f \in Enums(Model, schema) \ {e} : Len(names[f]) \in {0, Len(Model.labels[f])}
    /\ names' = [names EXCEPT ![e] = Append(@, NameOf(e, Model.labels[e][Len(@) + 1]))]
    /\ UNCHANGED <<model, step, todo, schema, m_class_vec, m_code_gen_map, total>>

EndSchema ==
    /\ step = "members"
    /\ \A e \in Enums(Model, schema) : Len(names[e]) = Len(Model.labels[e])
    /\ m_code_gen_map' = [s \in DOMAIN m_code_gen_map \cup {schema} |->
                             IF s = schema THEN m_class_vec ELSE m_code_gen_map[s]]
    /\ step' = IF todo = {} THEN "merging" ELSE "schemas"
    /\ UNCHANGED <<model, todo, schema, m_class_vec, names, total>>

\* The classes of all schemas go into the namespace of the container, schema
\* after schema as the map has them.
Merge(s) ==
    /\ step = "merging"
    /\ s \in DOMAIN m_code_gen_map
    /\ total' = total \o m_code_gen_map[s]
    /\ m_code_gen_map' = [r \in DOMAIN m_code_gen_map \ {s} |-> m_code_gen_map[r]]
    /\ UNCHANGED <<model, step, todo, schema, m_class_vec, names>>

-----------------------------------------------------------------------------
(* odata_codegen_writer *)

Keys(t) == {p \in DOMAIN Model.properties : Prop(p).on = t /\ Prop(p).key}

\* The most keys, and parameters, that there are macros for.  The macros of imports
\* with three parameters and more name an executor that is not theirs, and functions
\* with four have none that declares them.
KeyLimit == 4
ImportLimit == 2
FunctionLimit == 3
ActionLimit == 5

\* The files are written, unless a class has more keys than there are macros for.
Write ==
    /\ step = "merging"
    /\ DOMAIN m_code_gen_map = {}
    /\ step' = IF \A t \in Of(Model, "entity") \cap Listed(total) : Cardinality(Keys(t)) <= KeyLimit
               THEN "written"
               ELSE "gave up"
    /\ UNCHANGED <<model, todo, schema, m_class_vec, names, m_code_gen_map, total>>

\* Enumerations are written first, then complex types, then entity types, each
\* in the order they were listed; all classes are declared before.
Rank(t) == CASE Model.kind[t] = "enum" -> 1 [] Model.kind[t] = "complex" -> 2 [] OTHER -> 3
WrittenBefore(t, u) ==
    \E i, j \in DOMAIN total :
        /\ total[i] = t /\ total[j] = u
        /\ Rank(t) < Rank(u) \/ (Rank(t) = Rank(u) /\ i < j)

\* The members of a class; what has an unknown type has none.
Members(t) == {p \in DOMAIN Model.properties : Prop(p).on = t /\ Prop(p).type # Unknown}

-----------------------------------------------------------------------------
(* The compiler *)

\* The names in the namespace, next to the enumerators, which have no scope of
\* their own: classes, and the static functions that create what has a base.
ClassNames(types) == {<<t>> : t \in types} \cup {<<c.name>> : c \in Model.containers}
Creators(types) == {<<"create", Model.lower[t]>> : t \in {u \in types : Model.base[u] # NoType}}

\* No name is taken twice in a scope, and none in a class that is a class as well.
\* What hides a name that is not used any more would do no harm, but is refused.
NamespaceFits(types) ==
    /\ ClassNames(types) \cap Reserved = {}
    /\ \A t, u \in types :
          Model.lower[t] = Model.lower[u] /\ NoType \notin {Model.base[t], Model.base[u]} => t = u
    /\ \A c \in Model.containers : c.name \notin types /\ <<c.schema>> \notin Reserved
EnumeratorFits(l, types) == l \notin ClassNames(types) \cup Creators(types) \cup Reserved
Free(n, types) == n \notin ClassNames(types) \cup Reserved
PropertyFits(p, types) ==
    /\ \A n \in Prop(p).takes : Free(n, types)
    /\ \A q \in Members(Prop(p).on) \ {p} : Prop(p).takes \cap Prop(q).takes = {}

\* An operation replaces the property that has its name.
OperationFits(o, types) ==
    /\ \A n \in o.takes : Free(n, types)
    /\ \A p \in Members(o.on) : o.name # Prop(p).name /\ o.takes \cap Prop(p).takes = {}
    /\ \A r \in Model.operations :
          o.on = r.on /\ o.takes \cap r.takes # {} => o.name = r.name
    /\ \A i, j \in DOMAIN o.params :
          /\ Free(o.params[i].name, types)
          /\ o.params[i].name = o.params[j].name => i = j
ContainerFits(c, types) ==
    /\ \A n \in c.queries : Free(n, types)
    /\ \A o \in Model.operations : o.takes \cap c.queries = {}

\* The class of a member is looked up in its own schema; an enumeration that is
\* not there keeps its name.
ClassName(s, t) == IF t \in Basic \/ Model.schema[t] = s THEN t ELSE NoType
MemberClass(p) ==
    IF p.type \in Of(Model, "enum") THEN p.type ELSE ClassName(Model.schema[p.on], p.type)
Declared(c) == c \in Listed(total) \cup {Primitive, Void}

\* There is no macro for collections of complex types, nor for navigations, in a
\* complex type.
HasMacro(p) ==
    Model.kind[p.on] = "complex" =>
        /\ p.type \notin Of(Model, "entity")
        /\ ~(p.collection /\ p.type \in Of(Model, "complex"))

\* Operations bound to an entity type of their schema become its functions, those
\* that are imported functions of the container.  The macros are numbered after
\* the parameters; a collection of entities is no parameter.
Bound == {o \in Model.operations :
            o.on \in Of(Model, "entity") \cap Listed(total) /\ Model.schema[o.on] = o.schema}
Imported(c) == {o \in Model.operations : \E i \in c.imports : i.operation = o.name}
OperationCompiles(o, s, limit) ==
    /\ Len(o.params) <= limit
    /\ OperationFits(o, Listed(total))
    /\ \A i \in DOMAIN o.params :
          /\ Declared(ClassName(s, o.params[i].type))
          /\ ~(o.params[i].collection /\ o.params[i].type \in Of(Model, "entity"))
    /\ Declared(ClassName(s, o.returns))
ContainerCompiles(c) ==
    /\ c.sets \subseteq Listed(total)
    /\ ContainerFits(c, Listed(total))
    /\ \A o \in Imported(c) :
          /\ OperationCompiles(o, c.schema, ImportLimit)
          /\ Cardinality({i \in c.imports : i.operation = o.name}) = 1

EnumeratorsDiffer ==
    \A e, f \in DOMAIN names : \A i \in DOMAIN names[e], j \in DOMAIN names[f] :
        /\ names[e][i] = names[f][j] => e = f /\ i = j
        /\ EnumeratorFits(names[e][i], Listed(total))

Compiles ==
    /\ NamespaceFits(Listed(total))
    /\ \A t \in Listed(total) : Model.base[t] # NoType => WrittenBefore(Model.base[t], t)
    /\ \A t \in Listed(total) : \A p \in Members(t) :
          /\ Declared(MemberClass(Prop(p))) /\ HasMacro(Prop(p))
          /\ PropertyFits(p, Listed(total))
    /\ \A o \in Bound : OperationCompiles(o, o.schema, IF o.action THEN ActionLimit ELSE FunctionLimit)
    /\ \A c \in Model.containers : ContainerCompiles(c)
    /\ EnumeratorsDiffer

Compile ==
    /\ step = "written"
    /\ step' = IF Compiles THEN "compiled" ELSE "broken"
    /\ UNCHANGED <<model, todo, schema, m_class_vec, names, m_code_gen_map, total>>

Generate ==
    \/ GiveUp
    \/ \E s \in Model.schemas : BeginSchema(s) \/ Merge(s)
    \/ \E t \in Model.types : AddEnum(t) \/ AddClass(t) \/ NameEnumerator(t)
    \/ EndClasses \/ EndSchema \/ Write \/ Compile

\* The tool is gone when what it made is used.
Quit ==
    /\ step = "compiled"
    /\ step' = "quit"
    /\ schema' = ""
    /\ m_class_vec' = <<>>
    /\ total' = <<>>
    /\ UNCHANGED <<model, todo, names, m_code_gen_map>>

GeneratorDone == step \in {"gave up", "broken", "quit"} /\ UNCHANGED generator_vars

GeneratorNext == Generate \/ Quit \/ GeneratorDone

GeneratorSpec == GeneratorInit /\ [][GeneratorNext]_generator_vars

-----------------------------------------------------------------------------
(* Properties *)

\* Every enumeration has its class, and so has every other type whose base has
\* one and is of the same schema, written once and after it, in whatever order
\* the hash maps were iterated.  What derives from a type of another schema is
\* left out, with all that derives from it.
Generated(t) == t \in Listed(total)
BaseGenerated(t) ==
    \/ Model.base[t] = NoType
    \/ Model.schema[Model.base[t]] = Model.schema[t] /\ Generated(Model.base[t])
ClassesGenerated ==
    step \in {"written", "compiled", "broken"} =>
        /\ \A t \in Model.types : Generated(t) <=> BaseGenerated(t)
        /\ \A i, j \in DOMAIN total : total[i] = total[j] => i = j
        /\ \A t \in Listed(total) : Model.base[t] # NoType => WrittenBefore(Model.base[t], t)

\* What the tool can be used with: one schema, no type that derives from itself, no
\* more keys and parameters than there are macros, and names that C++ takes, also
\* without their case, that differ from those of classes, of the functions made of
\* other members, and of other enumerators, whether the name of the enumeration is
\* put first or not.
SupportedProperty(p) ==
    /\ HasMacro(Prop(p))
    /\ Prop(p).type \notin {NoType, Void}
    /\ PropertyFits(p, Model.types)
SupportedLabel(e, l) ==
    /\ Len(l) = 1
    /\ EnumeratorFits(l, Model.types)
    /\ EnumeratorFits(<<e>> \o l, Model.types)
SupportedOperation(o) ==
    /\ OperationFits(o, Model.types)
    /\ Len(o.params) <= ImportLimit
    /\ o.returns \in Model.types \cup {Primitive, Void}
    /\ \A i \in DOMAIN o.params :
          /\ o.params[i].type \in Model.types \cup {Primitive}
          /\ ~(o.params[i].collection /\ o.params[i].type \in Of(Model, "entity"))
Supported ==
    /\ \A s, r \in Model.schemas : s = r
    /\ \A S \in SUBSET Model.types : S # {} => \E t \in S : Model.base[t] \notin S
    /\ \E c \in Model.containers : Model.containers = {c}
    /\ \A t \in Model.types : Cardinality(Keys(t)) <= KeyLimit
    /\ NamespaceFits(Model.types)
    /\ \A e \in Of(Model, "enum") : \A i \in DOMAIN Model.labels[e] : SupportedLabel(e, Model.labels[e][i])
    /\ \A p \in DOMAIN Model.properties : SupportedProperty(p)
    /\ \A o \in Model.operations : SupportedOperation(o)
    /\ \A c \in Model.containers :
          /\ ContainerFits(c, Model.types)
          /\ \A i, j \in c.imports : i.operation = j.operation => i = j

\* A model of one schema that stays within the macros, and whose names C++ can
\* take, gives files that compile, in whatever order its types and enumerations
\* are iterated and whatever names its enumerators share.
SupportedModelsCompile == step \in {"gave up", "broken"} => ~Supported
==============================================================================
