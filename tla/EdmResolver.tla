----------------------------- MODULE EdmResolver -----------------------------
(***************************************************************************)
(* edm_model_utility::resolve_edm_types_after_parsing                      *)
(* (src/edm/edm_model_utility.cpp), the second pass over a model that      *)
(* edm_model_reader has read: schema by schema, and in each the entity     *)
(* types, the complex types, the operations and the container, it replaces *)
(* the names of types by pointers, sets base types and binds navigation    *)
(* properties to entity sets.  The maps of a schema are unordered_maps, so *)
(* what is visited next within one is not determined.                      *)
(***************************************************************************)
EXTENDS Naturals, Sequences, FiniteSets

CONSTANTS
    Types,      \* the declared types and operations
    Labels,     \* names of properties and parameters, and of return types
    Edm,        \* a primitive type
    Missing,    \* a name that no schema declares, or an alias qualifies
    Sources,    \* the entity sets and singletons
    Nothing,    \* a null pointer
    Documents   \* the models that have been read

Kinds == {"Entity", "Complex", "Operation", "Enum"}
TypeNames == Types \cup {Edm, Missing}
Slot == Types \X Labels

\* A declaration: of a property, a navigation property or a parameter.
Declaration == [nav : BOOLEAN, coll : BOOLEAN, of : TypeNames, contained : BOOLEAN]

\* A NavigationPropertyBinding of entity set `set`; its path is a property of
\* the set's type, or a property of the entity type it names.
Binding == [set : Sources, on : Types \cup {Nothing}, label : Labels,
            target : Sources \cup {Nothing}]

\* schema: the position of the schema that declares a type; home: that of the
\* container's; declared: one declaration per property; setType: the type of
\* the entity sets and singletons; imports: the names of the operation imports;
\* bindings: those of entity sets.
Document ==
    [schemas : Nat \ {0}, schema : [Types -> Nat \ {0}], kind : [Types -> Kinds],
     base : [Types -> Types \cup {Nothing}],
     slots : SUBSET Slot, declared : [Slot -> Declaration],
     home : Nat \ {0}, setType : [Sources -> Types \cup {Nothing}],
     imports : SUBSET TypeNames, bindings : SUBSET Binding]

ASSUME DocumentsAssumption ==
    /\ Documents \subseteq Document
    /\ \A d \in Documents :
        /\ d.home <= d.schemas
        /\ \A t \in Types : d.schema[t] <= d.schemas
        /\ \A p \in d.slots : d.kind[p[1]] # "Enum"
ASSUME TypesAssumption == IsFiniteSet(Types)
ASSUME NamesAssumption ==
    /\ Edm \notin Types /\ Missing \notin Types /\ Nothing \notin Types /\ Edm # Missing
    /\ Nothing \notin TypeNames /\ Nothing \notin Sources /\ Nothing \notin Slot

VARIABLES
    doc,        \* what was read; never changes
    at,         \* the schema that is visited
    step,       \* 1: entity types, 2: complex types, 3: operations,
                \* 4: types of the container, 5: its bindings
    left,       \* what of the map that is iterated is still to come
    type,       \* type[p]: m_type of property or parameter p
    kept,       \* the navigations whose collection type the first schema owns
    base,       \* base[t]: m_base_type
    set_type,   \* set_type[s]: m_entity_type of entity set or singleton s
    imported,   \* the imports whose m_operation_type is set: to the operation of
                \* the import's own name
    bound,      \* bound[p]: m_binded_navigation_source of navigation p
    crashed     \* a null pointer was followed

vars == <<doc, at, step, left, type, kept, base, set_type, imported, bound, crashed>>

\* What m_type points to: a type that waits for its name to be resolved, a
\* type, a collection, or a navigation; `to` is the weak pointer that the
\* latter two hold, Nothing when what it pointed to is gone.
Value == [form : {"Unknown", "Type", "Collection", "Navigation"},
          name : TypeNames, coll : BOOLEAN, to : TypeNames \cup {Nothing}]

TypeOK ==
    /\ doc \in Document
    /\ at \in 1 .. doc.schemas + 1
    /\ step \in 1 .. 5
    /\ left \subseteq Types \/ left \subseteq Binding
    /\ type \in [Slot -> Value]
    /\ kept \subseteq Slot
    /\ base \in [Types -> Types \cup {Nothing}]
    /\ set_type \in [Sources -> Types \cup {Nothing}]
    /\ imported \subseteq TypeNames
    /\ bound \in [Slot -> Sources \cup {Nothing}]
    /\ crashed \in BOOLEAN

-----------------------------------------------------------------------------
(* What the reader leaves. *)

\* get_edm_type_from_name for a property: a primitive type is found at once, the
\* element of another collection was a temporary.  Parameters and return types
\* are left as names, collections of them too.
Read(d, p) ==
    LET decl == d.declared[p]
        form == IF d.kind[p[1]] = "Operation" THEN "Unknown"
                ELSE IF decl.nav THEN "Navigation"
                ELSE IF decl.coll THEN "Collection"
                ELSE IF decl.of = Edm THEN "Type" ELSE "Unknown"
    IN [form |-> form, name |-> decl.of, coll |-> decl.coll,
        to |-> IF form \in {"Collection", "Type"} /\ decl.of = Edm THEN Edm ELSE Nothing]

Iterated(d, k, s) ==
    CASE s = 1 -> {t \in Types : d.kind[t] = "Entity" /\ d.schema[t] = k}
      [] s = 2 -> {t \in Types : d.kind[t] = "Complex" /\ d.schema[t] = k}
      [] s = 3 -> {t \in Types : d.kind[t] = "Operation" /\ d.schema[t] = k}
      [] s = 5 -> IF d.home = k THEN d.bindings ELSE {}
      [] OTHER -> {}

Init ==
    /\ doc \in Documents
    /\ at = 1 /\ step = 1 /\ left = Iterated(doc, 1, 1)
    /\ type = [p \in Slot |-> Read(doc, p)]
    /\ kept = {}
    /\ base = [t \in Types |-> Nothing]
    /\ set_type = [s \in Sources |-> Nothing]
    /\ imported = {}
    /\ bound = [p \in Slot |-> Nothing]
    /\ crashed = FALSE

-----------------------------------------------------------------------------
(* Types. *)

\* resolve_type_from_name: enum, complex, entity and operation types of all
\* schemas, then primitive types; the names of a model are different.
ResolveTypeFromName(t) == IF t = Missing THEN Nothing ELSE t

\* What resolve_type_under_structured_type and resolve_type_under_operation_type
\* make of what p points to.
Resolved(p) ==
    LET v == type[p]
        found == ResolveTypeFromName(v.name)
    IN [v EXCEPT
          !.form = IF @ # "Unknown" THEN @
                   ELSE IF v.coll THEN "Collection"
                   ELSE IF found = Nothing THEN "Unknown" ELSE "Type",
          !.to = IF found = Nothing THEN @ ELSE found]

SlotsOf(t) == {p \in doc.slots : p[1] = t}

\* The result of resolve_type_from_name is used before it is checked.
FollowsNull(t) ==
    \E p \in SlotsOf(t) : /\ type[p].form = "Navigation" /\ ~type[p].coll
                          /\ ResolveTypeFromName(type[p].name) = Nothing

\* Mutant: nothing keeps the collection type of a navigation.
VisitTypesForgets(ts) ==
    /\ type' = [p \in Slot |-> IF p \in doc.slots /\ p[1] \in ts THEN Resolved(p) ELSE type[p]]
    /\ UNCHANGED kept

VisitTypes(ts) ==
    /\ type' = [p \in Slot |-> IF p \in doc.slots /\ p[1] \in ts THEN Resolved(p) ELSE type[p]]
    /\ kept' = kept \cup {p \in doc.slots : p[1] \in ts /\ type[p].form = "Navigation" /\ type[p].coll}

Visit(t) ==
    /\ left' = left \ {t}
    /\ VisitTypes({t})
    /\ UNCHANGED <<doc, at, step, set_type, imported, bound, crashed>>

\* A base type is looked up among the types of the same kind.
BaseOf(t) ==
    LET b == doc.base[t] IN IF b # Nothing /\ doc.kind[b] = doc.kind[t] THEN b ELSE Nothing

VisitStructured(t) ==
    /\ step \in {1, 2} /\ t \in left
    /\ ~FollowsNull(t)
    /\ Visit(t)
    /\ base' = [base EXCEPT ![t] = BaseOf(t)]

VisitOperation(t) ==
    /\ step = 3 /\ t \in left
    /\ Visit(t)
    /\ UNCHANGED base

Crash(t) ==
    /\ step \in {1, 2} /\ t \in left
    /\ FollowsNull(t)
    /\ crashed' = TRUE
    /\ UNCHANGED <<doc, at, step, left, type, kept, base, set_type, imported, bound>>

-----------------------------------------------------------------------------
(* The container. *)

EntityType(t) == IF t # Nothing /\ doc.kind[t] = "Entity" THEN t ELSE Nothing

ResolveContainer ==
    /\ step = 4
    /\ doc.home = at
    /\ set_type' = [s \in Sources |-> EntityType(doc.setType[s])]
    /\ imported' = {i \in doc.imports : i \in Types /\ doc.kind[i] = "Operation"}
    /\ step' = 5
    /\ left' = Iterated(doc, at, 5)
    /\ UNCHANGED <<doc, at, type, kept, base, bound, crashed>>

\* find_property: the property of that name of t or of its nearest base type,
\* along the base types b that have been set.
Above(b, t) ==
    LET up[k \in 0 .. Cardinality(Types)] ==
            IF k = 0 THEN t ELSE IF up[k - 1] = Nothing THEN Nothing ELSE b[up[k - 1]]
    IN up

\* Mutant: a property is looked for in the type itself only.
FindPropertyHere(b, t, n) == IF <<t, n>> \in doc.slots THEN <<t, n>> ELSE Nothing

FindProperty(b, t, n) ==
    LET up == Above(b, t)
        has == {k \in DOMAIN up : up[k] # Nothing /\ <<up[k], n>> \in doc.slots}
    IN IF has = {} THEN Nothing
       ELSE <<up[CHOOSE k \in has : \A j \in has : k <= j], n>>

NavigationProperty(b, setType, x) ==
    LET t == IF x.on = Nothing THEN setType ELSE EntityType(x.on)
        p == IF t = Nothing THEN Nothing ELSE FindProperty(b, t, x.label)
    IN IF p # Nothing /\ type[p].form = "Navigation" THEN p ELSE Nothing

\* The sets of the container are visited one after the other.
HalfDone(s) ==
    /\ \E x \in left : x.set = s
    /\ \E x \in doc.bindings \ left : x.set = s

\* A binding of a property that is contained, or is not found, has no effect;
\* a target that is not found unbinds.
Bind(x) ==
    /\ step = 5 /\ x \in left
    /\ \A s \in Sources \ {x.set} : ~HalfDone(s)
    /\ LET p == NavigationProperty(base, set_type[x.set], x)
       IN bound' = IF p # Nothing /\ ~doc.declared[p].contained
                   THEN [bound EXCEPT ![p] = x.target] ELSE bound
    /\ left' = left \ {x}
    /\ UNCHANGED <<doc, at, step, type, kept, base, set_type, imported, crashed>>

\* On to the next map, and after the last one to the next schema.
Advance ==
    /\ at <= doc.schemas
    /\ left = {}
    /\ step = 4 => doc.home # at
    /\ IF step = 5
       THEN at' = at + 1 /\ step' = 1
       ELSE at' = at /\ step' = step + 1
    /\ left' = Iterated(doc, at', step')
    /\ UNCHANGED <<doc, type, kept, base, set_type, imported, bound, crashed>>

Done == at > doc.schemas /\ ~crashed

Next ==
    \/ /\ ~crashed
       /\ \/ \E t \in Types : VisitStructured(t) \/ VisitOperation(t) \/ Crash(t)
          \/ \E x \in Binding : Bind(x)
          \/ ResolveContainer
          \/ Advance
    \/ (Done \/ crashed) /\ UNCHANGED vars

Spec == Init /\ [][Next]_vars

-----------------------------------------------------------------------------
(* Properties *)

\* What a reader of the model finds behind p: get_property_type, then the
\* navigation type and the element type of a collection.
Seen(p) ==
    CASE type[p].form = "Unknown" -> Nothing
      [] type[p].form = "Navigation" /\ type[p].coll /\ p \notin kept -> Nothing
      [] OTHER -> type[p].to

\* Every property, navigation and parameter whose type some schema declares is
\* left with a live pointer to it, and a collection is still one, in whatever
\* order the schemas stand and their maps are iterated; others are left with none.
TypesResolved ==
    Done => \A p \in doc.slots :
        /\ Seen(p) = IF doc.declared[p].of = Missing THEN Nothing ELSE doc.declared[p].of
        /\ type[p].coll = doc.declared[p].coll

\* The navigation p that a binding names, all base types considered: the one of
\* the type that is nearest.
Named(x, p) ==
    LET up == Above([t \in Types |-> BaseOf(t)],
                    EntityType(IF x.on = Nothing THEN doc.setType[x.set] ELSE x.on))
    IN \E k \in DOMAIN up :
        /\ p = <<up[k], x.label>>
        /\ p \in doc.slots
        /\ type[p].form = "Navigation"
        /\ \A j \in 0 .. k - 1 : <<up[j], x.label>> \notin doc.slots

DerivedTypesFirst == \A t \in Types : BaseOf(t) # Nothing => doc.schema[t] <= doc.home

\* A navigation is never bound to a source that no binding of it names; and when
\* no derived type is in a schema after the container's, one that has bindings
\* is bound by one of them, and by the only one if there is one.
BindingsAreRight ==
    /\ \A p \in Slot : bound[p] # Nothing =>
          \E x \in doc.bindings : Named(x, p) /\ x.target = bound[p]
    /\ Done /\ DerivedTypesFirst =>
          \A x \in doc.bindings, p \in doc.slots :
              Named(x, p) /\ ~doc.declared[p].contained =>
                  \E y \in doc.bindings : Named(y, p) /\ bound[p] = y.target
==============================================================================
