------------------------------ MODULE EdmReader ------------------------------
(***************************************************************************)
(* How edm_model_reader (src/edm/edm_model_reader.cpp) builds the model    *)
(* from the elements of a $metadata document.  xml_reader::parse calls     *)
(* handle_begin_element and handle_end_element; between the two calls the  *)
(* reader remembers what it is in with a set of m_current_ pointers and a  *)
(* flag, and not with the stack of element names.  An object is the number *)
(* of its element in the document.  An empty element is a begin and an end *)
(* in a row.                                                               *)
(***************************************************************************)
EXTENDS Naturals, Sequences, FiniteSets

CONSTANTS
    Names,          \* names that declarations are given
    NoName,         \* of elements whose name nothing here depends on
    MaxElements     \* bound on the elements of a document

ASSUME MaxElementsAssumption == MaxElements \in Nat

\* "Function" and "FunctionImport" stand for actions and their imports too,
\* "Other" for annotations and whatever else the reader passes over.
Structured == {"EntityType", "ComplexType"}
Declared == Structured \cup {"EnumType", "Function", "EntityContainer", "EntitySet",
                             "Singleton", "FunctionImport"}
Members == {"Property", "NavigationProperty", "PropertyRef", "Member", "Parameter",
            "ReturnType", "NavigationPropertyBinding"}

Null == 0

VARIABLES
    stack,                  \* m_elementStack, each name with the element's number
    m_current_schema, m_current_container, m_current_entity_set,
    m_current_singleton, m_current_st, m_current_enum, m_current_operation,
    m_parsing_key,
    kind,                   \* kind[i]: the element that made object i
    name,                   \* name[i]: its Name attribute
    members,                \* members[i]: what has been added to object i, under names
                            \* of their own (its maps replace one of the same name)
    filed,                  \* the maps of schemas and containers
    phase,                  \* "reading", "read", "endless" or "crashed"
    parent,                 \* history: the declaration element i is inside
    children                \* history: the members inside declaration i

pointers == <<m_current_schema, m_current_container, m_current_entity_set,
              m_current_singleton, m_current_st, m_current_enum, m_current_operation>>
document == <<kind, name, parent, children>>
vars == <<stack, pointers, m_parsing_key, document, members, filed, phase>>

Count == Len(kind)

Init ==
    /\ stack = <<>>
    /\ m_current_schema = Null /\ m_current_container = Null
    /\ m_current_entity_set = Null /\ m_current_singleton = Null
    /\ m_current_st = Null /\ m_current_enum = Null /\ m_current_operation = Null
    /\ m_parsing_key = FALSE
    /\ kind = <<>> /\ name = <<>> /\ members = <<>>
    /\ filed = {}
    /\ phase = "reading"
    /\ parent = <<>> /\ children = <<>>

-----------------------------------------------------------------------------
(* The document. *)

\* The elements that CSDL allows in an element.
Inside(e) ==
    CASE e = "EntityType"      -> {"Key", "Property", "NavigationProperty", "Other"}
      [] e = "ComplexType"     -> {"Property", "NavigationProperty", "Other"}
      [] e = "Key"             -> {"PropertyRef"}
      [] e = "EnumType"        -> {"Member", "Other"}
      [] e = "Function"        -> {"Parameter", "ReturnType", "Other"}
      [] e = "EntityContainer" -> {"EntitySet", "Singleton", "FunctionImport", "Other"}
      [] e \in {"EntitySet", "Singleton"} -> {"NavigationPropertyBinding", "Other"}
      [] e = "Schema"          -> Structured \cup {"EnumType", "Function", "EntityContainer",
                                                   "Other"}
      [] OTHER                 -> {"Other"}

\* The element read last and not ended; the document's root takes the schemas.
Allowed == IF stack = <<>> THEN {"Schema"} ELSE Inside(stack[Len(stack)].element)

\* The declaration that element number i, begun now, is a part of.
Enclosing ==
    LET around == {j \in DOMAIN stack : stack[j].element \in Declared \cup {"Schema"}}
    IN IF around = {} THEN Null
       ELSE stack[CHOOSE j \in around : \A k \in around : k <= j].id

\* Element e begins; added is the object that a member goes to.
Begins(e, n, added) ==
    LET i == Count + 1
        grow(f, to) == [j \in 1 .. i |-> IF j = i THEN <<>>
                                         ELSE IF j = to THEN Append(f[j], i) ELSE f[j]]
    IN /\ phase = "reading"
       /\ e \in Allowed
       /\ Count < MaxElements
       /\ stack' = Append(stack, [element |-> e, id |-> i])
       /\ kind' = Append(kind, e)
       /\ name' = Append(name, n)
       /\ parent' = Append(parent, Enclosing)
       /\ children' = grow(children, IF e \in Members THEN Enclosing ELSE Null)
       /\ members' = grow(members, added)
       /\ UNCHANGED phase

First(p, q) == IF p # Null THEN p ELSE q

Crash ==
    /\ phase' = "crashed"
    /\ UNCHANGED <<stack, pointers, m_parsing_key, document, members, filed>>

\* Mutant: one map holds the declarations of every kind.
FileByName(where, object) ==
    filed' = {f \in filed : ~(f.in = where /\ f.name = name'[object])}
                \cup {[in |-> where, kind |-> kind'[object], name |-> name'[object],
                       object |-> object]}

\* m_entity_types[name] = object, and so for the other maps: a declaration
\* replaces an earlier one of its name.
File(where, object) ==
    filed' = {f \in filed : ~(f.in = where /\ f.kind = kind'[object] /\ f.name = name'[object])}
                \cup {[in |-> where, kind |-> kind'[object], name |-> name'[object],
                       object |-> object]}

-----------------------------------------------------------------------------
(* handle_begin_element *)

\* m_current_schema = m_model->add_schema(namesp, alias)
BeginSchema ==
    /\ Begins("Schema", NoName, Null)
    /\ m_current_schema' = Count + 1
    /\ UNCHANGED <<m_current_container, m_current_entity_set, m_current_singleton,
                   m_current_st, m_current_enum, m_current_operation, m_parsing_key, filed>>

\* new edm_entity_type(name, m_current_schema->get_name(), ...), and so for
\* complex types, enums and operations.
BeginType(e, n) ==
    IF m_current_schema = Null /\ phase = "reading" /\ e \in Allowed
    THEN Crash
    ELSE /\ Begins(e, n, Null)
         /\ m_current_st' = IF e \in Structured THEN Count + 1 ELSE m_current_st
         /\ m_current_enum' = IF e = "EnumType" THEN Count + 1 ELSE m_current_enum
         /\ m_current_operation' = IF e = "Function" THEN Count + 1 ELSE m_current_operation
         /\ UNCHANGED <<m_current_schema, m_current_container, m_current_entity_set,
                        m_current_singleton, m_parsing_key, filed>>

BeginContainer(n) ==
    /\ Begins("EntityContainer", n, Null)
    /\ m_current_container' = Count + 1
    /\ UNCHANGED <<m_current_schema, m_current_entity_set, m_current_singleton,
                   m_current_st, m_current_enum, m_current_operation, m_parsing_key, filed>>

BeginSet(e, n) ==
    /\ Begins(e, n, Null)
    /\ m_current_entity_set' = IF e = "EntitySet" THEN Count + 1 ELSE m_current_entity_set
    /\ m_current_singleton' = IF e = "Singleton" THEN Count + 1 ELSE m_current_singleton
    /\ UNCHANGED <<m_current_schema, m_current_container, m_current_st, m_current_enum,
                   m_current_operation, m_parsing_key, filed>>

\* An import is added to its container when its element begins.
BeginImport(n) ==
    /\ Begins("FunctionImport", n, Null)
    /\ IF m_current_container # Null THEN File(m_current_container, Count + 1)
                                     ELSE UNCHANGED filed
    /\ UNCHANGED <<pointers, m_parsing_key>>

\* The object that the _process_ function of a member adds it to, if any.
Target(e) ==
    CASE e \in {"Property", "Member"} -> First(m_current_st, m_current_enum)
      [] e = "NavigationPropertyBinding" -> First(m_current_entity_set, m_current_singleton)
      [] e = "NavigationProperty" -> m_current_st
      [] OTHER -> m_current_operation

BeginMember(e) ==
    /\ Begins(e, NoName, Target(e))
    /\ UNCHANGED <<pointers, m_parsing_key, filed>>

\* dynamic_cast<edm_entity_type*>(m_current_st)->add_key_property(...)
BeginPropertyRef ==
    IF /\ m_parsing_key /\ phase = "reading" /\ "PropertyRef" \in Allowed
       /\ m_current_st = Null \/ kind[m_current_st] # "EntityType"
    THEN Crash
    ELSE /\ Begins("PropertyRef", NoName, IF m_parsing_key THEN m_current_st ELSE Null)
         /\ UNCHANGED <<pointers, m_parsing_key, filed>>

BeginKey ==
    /\ Begins("Key", NoName, Null)
    /\ m_parsing_key' = TRUE
    /\ UNCHANGED <<pointers, filed>>

BeginOther == Begins("Other", NoName, Null) /\ UNCHANGED <<pointers, m_parsing_key, filed>>

-----------------------------------------------------------------------------
(* handle_end_element *)

Ends(elements) ==
    /\ phase = "reading"
    /\ stack # <<>>
    /\ stack[Len(stack)].element \in elements
    /\ stack' = SubSeq(stack, 1, Len(stack) - 1)
    /\ UNCHANGED <<document, members, phase>>

Top == stack[Len(stack)].element

\* Mutant: the schema is forgotten with its container.
EndContainerResets ==
    /\ Ends({"EntityContainer"})
    /\ File(m_current_schema, m_current_container)
    /\ m_current_container' = Null /\ m_current_schema' = Null
    /\ UNCHANGED <<m_current_entity_set, m_current_singleton,
                   m_current_st, m_current_enum, m_current_operation, m_parsing_key>>

EndContainer ==
    /\ Ends({"EntityContainer"})
    /\ File(m_current_schema, m_current_container)
    /\ m_current_container' = Null
    /\ UNCHANGED <<m_current_schema, m_current_entity_set, m_current_singleton,
                   m_current_st, m_current_enum, m_current_operation, m_parsing_key>>

\* Mutant: the structured type that has ended stays the current one.
EndTypeKept ==
    /\ Ends(Structured)
    /\ File(m_current_schema, m_current_st)
    /\ UNCHANGED <<pointers, m_parsing_key>>

EndType ==
    /\ Ends(Structured)
    /\ File(m_current_schema, m_current_st)
    /\ m_current_st' = Null
    /\ UNCHANGED <<m_current_schema, m_current_container, m_current_entity_set,
                   m_current_singleton, m_current_enum, m_current_operation, m_parsing_key>>

EndEnum ==
    /\ Ends({"EnumType"})
    /\ File(m_current_schema, m_current_enum)
    /\ m_current_enum' = Null
    /\ UNCHANGED <<m_current_schema, m_current_container, m_current_entity_set,
                   m_current_singleton, m_current_st, m_current_operation, m_parsing_key>>

EndOperation ==
    /\ Ends({"Function"})
    /\ File(m_current_schema, m_current_operation)
    /\ m_current_operation' = Null
    /\ UNCHANGED <<m_current_schema, m_current_container, m_current_entity_set,
                   m_current_singleton, m_current_st, m_current_enum, m_parsing_key>>

\* An entity set or a singleton is added to the container it is in.
EndSet ==
    /\ Ends({"EntitySet", "Singleton"})
    /\ IF m_current_container # Null
       THEN File(m_current_container,
                 IF Top = "EntitySet" THEN m_current_entity_set ELSE m_current_singleton)
       ELSE UNCHANGED filed
    /\ m_current_entity_set' = IF Top = "EntitySet" THEN Null ELSE m_current_entity_set
    /\ m_current_singleton' = IF Top = "Singleton" THEN Null ELSE m_current_singleton
    /\ UNCHANGED <<m_current_schema, m_current_container, m_current_st, m_current_enum,
                   m_current_operation, m_parsing_key>>

EndKey ==
    /\ Ends({"Key"})
    /\ m_parsing_key' = FALSE
    /\ UNCHANGED <<pointers, filed>>

\* Elements at whose end the reader does nothing.
Silent == {"Schema", "Other", "FunctionImport"} \cup Members

EndOther ==
    /\ Ends(Silent)
    /\ UNCHANGED <<pointers, m_parsing_key, filed>>

\* There are no more nodes: the document is complete, or the rest is missing,
\* which xml_reader::parse does not tell apart (XML_PARSE_RECOVER).  Or libxml2
\* cannot go on and says -1, which the loop takes for a node: parse never returns,
\* and nobody sees what it makes of the node it is left at.
EndOfStream ==
    /\ phase = "reading"
    /\ phase' \in {"read", "endless"}
    /\ UNCHANGED <<stack, pointers, m_parsing_key, document, members, filed>>

Next ==
    \/ \E n \in Names :
        \/ BeginContainer(n) \/ BeginImport(n)
        \/ \E e \in Structured \cup {"EnumType", "Function"} : BeginType(e, n)
        \/ \E e \in {"EntitySet", "Singleton"} : BeginSet(e, n)
    \/ BeginSchema \/ BeginPropertyRef \/ BeginKey \/ BeginOther
    \/ \E e \in Members \ {"PropertyRef"} : BeginMember(e)
    \/ EndContainer \/ EndType \/ EndEnum \/ EndOperation \/ EndSet \/ EndKey \/ EndOther
    \/ EndOfStream
    \/ phase # "reading" /\ UNCHANGED vars

Spec == Init /\ [][Next]_vars

-----------------------------------------------------------------------------
(* Properties *)

Open(i) == \E j \in DOMAIN stack : stack[j].id = i

\* What the maps hold has been read to its end, also when the document breaks
\* off, is in the map of the very schema or container it is inside, and has
\* exactly the members of its element, in their order: none is taken from or
\* lost to a declaration before, after or around it.
FiledWhole ==
    \A f \in filed :
        /\ Open(f.object) => f.kind = "FunctionImport"
        /\ f.in = parent[f.object] /\ f.kind = kind[f.object]
        /\ members[f.object] = children[f.object]

\* A declaration that has ended is there, unless one of its name came later.
NothingDropped ==
    \A i \in 1 .. Count : kind[i] \in Declared /\ ~Open(i) /\ phase # "crashed" =>
        \E f \in filed : /\ f.in = parent[i] /\ f.kind = kind[i] /\ f.name = name[i]
                         /\ f.object >= i

\* In a document that CSDL allows no pointer is followed that is null.
PointersAreSet == phase # "crashed"
==============================================================================
